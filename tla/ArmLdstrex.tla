----------------------------- MODULE ArmLdstrex -----------------------------
(***************************************************************************)
(* arm_core_ldstrex(): LDREX{B,H,D} and STREX{B,H,D}.  Rn = bits 19-16;    *)
(* a load has Rt = 15-12, a store Rd (status) = 15-12 and Rt = 3-0; L =    *)
(* bit 20.  The table's extra names the size.                              *)
(***************************************************************************)
EXTENDS ArmLdstrh, ArmLdstrd

(* The value loaded from the aligned (Rn) by size; LDREXD takes the word   *)
(* at + 4 when Rt2 is the PC.                                              *)
ExclusiveLoad(instr, extra, ctx) ==
    LET a == Align(ctx.r[bitrng(instr, 19, 16)])
    IN CASE extra = "arm_sync_ldrexb" -> LoadByte(ctx, a)
         [] extra = "arm_sync_ldrexh" -> LoadHalf(ctx, a)
         [] extra = "arm_sync_ldrexd" /\ bitrng(instr, 15, 12) = 14 -> LoadWord(ctx, U(a + 4))
         [] OTHER -> LoadWord(ctx, a)

(* Mutant: the status register Rd = PC not counted.                       *)
StrexUnp_nod15(instr, extra) ==
    LET n == bitrng(instr, 19, 16)
        d == bitrng(instr, 15, 12)
        t == bitrng(instr, 3, 0)
    IN \/ n = 15 \/ d = n \/ t = 15
       \/ extra = "arm_sync_strexd" /\ (t = 14 \/ t % 2 = 1)

(* The store's counts: Rn = PC, Rd = Rn (tested twice, the second for      *)
(* d == t), Rt = PC, and Rd = PC, or else for STREXD Rt = 14 or Rt odd.   *)
StrexUnp(instr, extra) ==
    LET n == bitrng(instr, 19, 16)
        d == bitrng(instr, 15, 12)
        t == bitrng(instr, 3, 0)
    IN \/ n = 15 \/ d = n \/ t = 15
       \/ d = 15
       \/ extra = "arm_sync_strexd" /\ (t = 14 \/ t % 2 = 1)

(* A load of the PC (Rt = 15, or Rt = 14 for LDREXD) returns the loaded    *)
(* word as an ARM address, flagged; other loads are linear.  Every store   *)
(* returns set_arm_addr(0), "assume success".                              *)
arm_core_ldstrex(instr, extra, ctx) ==
    LET n == bitrng(instr, 19, 16)
        t == bitrng(instr, 15, 12)
        pcLoad == t = 15 \/ (t = 14 /\ extra = "arm_sync_ldrexd")
        r == CASE bit(instr, 20) = 0 -> set_arm_addr(0)
               [] pcLoad -> set_arm_addr(ExclusiveLoad(instr, extra, ctx))
               [] OTHER -> set_addr_lin
        unp == \/ n = 15
               \/ bit(instr, 20) = 1 /\ pcLoad
               \/ bit(instr, 20) = 0 /\ StrexUnp(instr, extra)
    IN IF unp THEN set_unpred_addr(r) ELSE r
=============================================================================
