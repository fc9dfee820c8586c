------------------------------ MODULE ArmLdstrh ------------------------------
(***************************************************************************)
(* arm_core_ldstrh(), arm_core_ldstrsb() and arm_core_ldstsh(): the        *)
(* halfword and signed loads (and halfword stores) with an immediate       *)
(* imm4H:imm4L (I = bit 22) or a register offset Rm, and their ...T forms  *)
(* (P = 0, W = 1).  Rn = bits 19-16, Rt = 15-12.  The three handlers share *)
(* one body: the signed ones have no store branch and no Hyp check, and    *)
(* sign-extend the loaded value at the end.                                *)
(*                                                                         *)
(* The base of every address is "rpi2_reg_context.storage[tmp3]", indexed  *)
(* by the offset, not by Rn.  An index past r15 reads beyond the register  *)
(* array (other fields of the context, or past it): g, a value of Garbage. *)
(***************************************************************************)
EXTENDS ArmLdst

StorageAt(ctx, k, g) == IF k <= 15 THEN ctx.r[k] ELSE g

(* The unsigned short read at a: two bytes, little-endian.               *)
LoadHalf(ctx, a) == LoadByte(ctx, a) + LoadByte(ctx, U(a + 1)) * 2^ByteBits

(* instr_util_signx_byte / _short: the low byte (W/4 bits) or halfword     *)
(* (W/2 bits) sign-extended to a word.                                     *)
SignxByte(v) ==
    IF wbit(v, ByteBits - 1) = 1 THEN U((v % 2^ByteBits) - 2^ByteBits) ELSE v % 2^ByteBits
SignxShort(v) ==
    IF wbit(v, 2 * ByteBits - 1) = 1 THEN U((v % 2^(2 * ByteBits)) - 2^(2 * ByteBits))
    ELSE v % 2^(2 * ByteBits)

(* tmp3, computed once Rt or Rn is the PC: bits(instr, 0xf0f) for the     *)
(* immediate, else the value of Rm.                                        *)
HOffset(instr, ctx) ==
    IF bit(instr, 22) = 1 THEN bitrng(instr, 11, 8) * 16 + bitrng(instr, 3, 0)
    ELSE ctx.r[bitrng(instr, 3, 0)]

(* Mutant: the Rt = PC count dropped.                                      *)
HUnp_not(instr) ==
    LET t == bitrng(instr, 15, 12)
        n == bitrng(instr, 19, 16)
        reg == bit(instr, 22) = 0
    IN \/ bit(instr, 21) = 1 /\ t = n
       \/ (t = 15 \/ n = 15) /\ reg /\ bitrng(instr, 3, 0) = 15
       \/ t # 15 /\ n = 15 /\ reg /\ bit(instr, 21) = 1

(* unp > 0 from the offset block: W with Rn = Rt, Rt = PC, and for the     *)
(* register form Rm = PC, and W once Rn (not Rt) is the PC.                *)
HUnp(instr) ==
    LET t == bitrng(instr, 15, 12)
        n == bitrng(instr, 19, 16)
        reg == bit(instr, 22) = 0
    IN \/ bit(instr, 21) = 1 /\ t = n
       \/ t = 15
       \/ (t = 15 \/ n = 15) /\ reg /\ bitrng(instr, 3, 0) = 15
       \/ t # 15 /\ n = 15 /\ reg /\ bit(instr, 21) = 1

(* "tmp4 = storage[tmp3]; tmp4 += tmp3" (or -=, by U).                     *)
HUpdated(instr, ctx, off, g) ==
    IF bit(instr, 23) = 1 THEN U(StorageAt(ctx, off, g) + off)
    ELSE U(StorageAt(ctx, off, g) - off)

(* Rt = PC, switch on P:W.  Post-indexing and the T form (0, 1) and        *)
(* pre-indexing (3) return the updated base when Rn is the PC too; else    *)
(* 0, 1 and offset (2) load a halfword from it and 3 a word.               *)
HLoadPC(instr, ctx, off, g) ==
    LET pw == bit(instr, 24) * 2 + bit(instr, 21)
        a == HUpdated(instr, ctx, off, g)
    IN CASE pw # 2 /\ bitrng(instr, 19, 16) = 15 -> a
         [] pw = 3 -> LoadWord(ctx, a)
         [] OTHER -> LoadHalf(ctx, a)

(* Rn = PC and not Rt: the offset form returns the offset itself, the      *)
(* others the updated base.                                                *)
HBaseWb(instr, ctx, off, g) ==
    IF bit(instr, 24) = 1 /\ bit(instr, 21) = 0 THEN off ELSE HUpdated(instr, ctx, off, g)

(* The LDRHT Hyp check, counted on the Rt = PC and Rn = PC load paths.    *)
HHypUnp(instr, ctx) ==
    /\ bit(instr, 24) = 0 /\ bit(instr, 21) = 1
    /\ 15 \in {bitrng(instr, 15, 12), bitrng(instr, 19, 16)}
    /\ ctx.cpsr.mode = Modes.hyp

(* "if (retval.flag != INSTR_ADDR_UNDEF) if (unp) set_unpred_addr".        *)
HFinish(r, unp) == IF unp THEN set_unpred_addr(r) ELSE r

arm_core_ldstrh(instr, ctx, g) ==
    LET t == bitrng(instr, 15, 12)
        n == bitrng(instr, 19, 16)
        off == HOffset(instr, ctx)
        r == CASE bit(instr, 20) = 1 /\ t = 15 -> set_arm_addr(HLoadPC(instr, ctx, off, g))
               [] n = 15 -> set_arm_addr(HBaseWb(instr, ctx, off, g))
               [] OTHER -> set_addr_lin
    IN HFinish(r, HUnp(instr) \/ (bit(instr, 20) = 1 /\ HHypUnp(instr, ctx)))

(* The signed loads: Rt = PC loads and sign-extends, Rn = PC as above.     *)
SignedLoad(instr, ctx, g, byte) ==
    LET Signx(v) == IF byte THEN SignxByte(v) ELSE SignxShort(v)
        t == bitrng(instr, 15, 12)
        n == bitrng(instr, 19, 16)
        off == HOffset(instr, ctx)
        r == CASE t = 15 -> set_arm_addr(Signx(HLoadPC(instr, ctx, off, g)))
               [] n = 15 -> set_arm_addr(HBaseWb(instr, ctx, off, g))
               [] OTHER -> set_addr_lin
    IN HFinish(r, HUnp(instr))

arm_core_ldstrsb(instr, ctx, g) == SignedLoad(instr, ctx, g, TRUE)
arm_core_ldstsh(instr, ctx, g) == SignedLoad(instr, ctx, g, FALSE)
=============================================================================
