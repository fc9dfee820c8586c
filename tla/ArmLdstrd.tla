------------------------------ MODULE ArmLdstrd ------------------------------
(***************************************************************************)
(* arm_core_ldstrd(): LDRD/STRD, bits 24-21 = P U I W, bit 5 = 0 load and  *)
(* 1 store, Rn = bits 19-16, Rt = 15-12 (Rt2 = Rt + 1), Rm = 3-0.  Only a  *)
(* PC base or a PC transfer register computes.  The handler tests Rn       *)
(* (tmp1) where its comments say t2, and takes bit 22 set for the register *)
(* form; both are kept as written.                                         *)
(***************************************************************************)
EXTENDS ArmLdst

(* "tmp & ((~0) << 2)": the word-aligned address.                          *)
Align(v) == v - (v % 4)

(* Mutant: the odd Rt not counted.                                         *)
DualUnpBase_even(instr) ==
    LET n == bitrng(instr, 19, 16)
        t == bitrng(instr, 15, 12)
    IN \/ n = 14
       \/ bit(instr, 21) = 1 /\ n \in {t, t + 1}

(* The register count before the PC block: Rt odd, "tmp1 == 14" (for t2   *)
(* == 15), and W with Rn = Rt or Rn = Rt + 1.                              *)
DualUnpBase(instr) ==
    LET n == bitrng(instr, 19, 16)
        t == bitrng(instr, 15, 12)
    IN \/ t % 2 = 1
       \/ n = 14
       \/ bit(instr, 21) = 1 /\ n \in {t, t + 1}

(* The counts of the operand block, bit 22 set: W with Rn = PC, Rm = PC,   *)
(* and Rm = Rn or Rn + 1 (for m == t || m == t2).                          *)
DualUnpReg(instr) ==
    LET n == bitrng(instr, 19, 16)
        m == bitrng(instr, 3, 0)
    IN /\ bit(instr, 22) = 1
       /\ \/ bit(instr, 21) = 1 /\ n = 15
          \/ m = 15
          \/ m \in {n, n + 1}

(* tmp2, the offset: Rm's value with bit 22 set, else imm4H:imm4L.         *)
DualOffset(instr, ctx) ==
    IF bit(instr, 22) = 1 THEN ctx.r[bitrng(instr, 3, 0)]
    ELSE bitrng(instr, 11, 8) * 16 + bitrng(instr, 3, 0)

(* The base plus or minus the offset by U, aligned after the step.         *)
DualStep(instr, base, off) ==
    Align(IF bit(instr, 23) = 1 THEN U(base + off) ELSE U(base - off))

(* The loaded PC: the word at a for Rt = PC, the word at a + 4 for         *)
(* Rt = 14 (Rt2 = PC), linear otherwise.                                   *)
DualPick(instr, ctx, a) ==
    CASE bitrng(instr, 15, 12) = 15 -> set_arm_addr(LoadWord(ctx, a))
      [] bitrng(instr, 15, 12) = 14 -> set_arm_addr(LoadWord(ctx, U(a + 4)))
      [] OTHER -> set_addr_lin

(* Rn = PC, switch on P:W: post- and pre-indexing return the aligned       *)
(* updated base, the user form is UNDEFINED; the offset form is linear for *)
(* a store (bit 5 set) and loads from the aligned address otherwise.       *)
DualPCBase(instr, ctx, off) ==
    LET pw == bit(instr, 24) * 2 + bit(instr, 21)
        a == DualStep(instr, Align(ctx.r[15]), off)
    IN CASE pw = 1 -> set_undef_addr
         [] pw = 2 -> IF bit(instr, 5) = 1 THEN set_addr_lin ELSE DualPick(instr, ctx, a)
         [] OTHER -> set_arm_addr(a)

(* Rn not the PC: "if (bit(instr, 5)) // LDR" loads with bit 5 set (post-  *)
(* indexing from the aligned base, offset and pre-indexing from the       *)
(* aligned updated base); with bit 5 clear it is linear.  The user form    *)
(* is UNDEFINED either way.                                                *)
DualRegBase(instr, ctx, off) ==
    LET pw == bit(instr, 24) * 2 + bit(instr, 21)
        base == ctx.r[bitrng(instr, 19, 16)]
    IN CASE pw = 1 -> set_undef_addr
         [] bit(instr, 5) = 0 -> set_addr_lin
         [] pw = 0 -> DualPick(instr, ctx, Align(base))
         [] OTHER -> DualPick(instr, ctx, DualStep(instr, base, off))

arm_core_ldstrd(instr, ctx) ==
    LET n == bitrng(instr, 19, 16)
        pcBlock == n \in {14, 15} \/ bitrng(instr, 15, 12) = 15
        off == DualOffset(instr, ctx)
        r == CASE ~pcBlock -> set_addr_lin
               [] n = 15 -> DualPCBase(instr, ctx, off)
               [] OTHER -> DualRegBase(instr, ctx, off)
        unp == DualUnpBase(instr) \/ (pcBlock /\ DualUnpReg(instr))
    IN IF r.flag # "UNDEF" /\ unp THEN set_unpred_addr(r) ELSE r
=============================================================================
