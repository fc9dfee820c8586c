------------------------------ MODULE ArmPack ------------------------------
(***************************************************************************)
(* arm_core_data_pack(): PKHBT/PKHTB and the twelve extend forms SXTB,     *)
(* SXTAB, ..., UXTAH.  Rn = bits 19-16, Rd = 15-12, Rm = 3-0.  Only Rd =   *)
(* PC computes, and the result is then always flagged UNPREDICTABLE.  At   *)
(* width W a byte is ByteBits = W/4 bits and a halfword HalfBits = W/2, so *)
(* "0xff00ff00" is bytes 1 and 3 and "(~0) << 16" is Shl(Ones, HalfBits).  *)
(***************************************************************************)
EXTENDS ArmSat

(* instr_util.c: "rotate right by bytes", taken modulo the word.           *)
instr_util_rorb(x, n) ==
    LET s == ByteBits * (n % 4) IN Shr(x, s) + Shl(x, W - s)

(* instr_util.c: two unsigned halves packed into a word.                   *)
instr_util_ustuffu16(hi, lo) == instr_util_ustuffs16(hi, lo)

(* A word's high half kept in place, and its low half.                     *)
HiPart(x) == (x \div 2^HalfBits) * 2^HalfBits
LoPart(x) == x % 2^HalfBits

(* PKH with Rd = PC: Rm (+ 8) shifted by imm5, ASR for tb (bit 6) and LSL  *)
(* otherwise, "stmp1 >>= tmp2" shifting by 0 for imm5 = 0; the top half    *)
(* from Rn (+ 8) for tb, else from the shifted value.                      *)
PkhValue(instr, ctx) ==
    LET tmp1 == ReadReg(ctx, bitrng(instr, 3, 0))
        tmp2 == bitrng(instr, 11, 7)
        tmp3 == ReadReg(ctx, bitrng(instr, 19, 16))
    IN IF bit(instr, 6) = 1 THEN HiPart(tmp3) + LoPart(Asr(tmp1, tmp2))
       ELSE HiPart(Shl(tmp1, tmp2)) + LoPart(tmp3)

(* The extract mask by bits 21-20 (0: dual byte, 2: byte, 3: halfword);   *)
(* the entries of the table give no other value.                           *)
ExtMask(instr) ==
    CASE bitrng(instr, 21, 20) = 0 -> Ones - (2^ByteBits - 1) * (1 + 2^(2 * ByteBits))
      [] bitrng(instr, 21, 20) = 2 -> Shl(Ones, ByteBits)
      [] bitrng(instr, 21, 20) = 3 -> Shl(Ones, HalfBits)

(* The sign-extension bits the code sets when bit 22 is 1: for the dual   *)
(* form byte 3 from bit 23 and byte 1 from bit 7, otherwise the whole mask *)
(* when "(tmp1 & (~tmp2)) & (tmp2 >> 1)" is non-zero.                      *)
SignBits(instr, tmp1, tmp2) ==
    CASE bit(instr, 22) = 0 -> 0
      [] bitrng(instr, 21, 20) = 0 ->
           (2^ByteBits - 1) * (wbit(tmp1, 3 * ByteBits - 1) * 2^(3 * ByteBits)
                               + wbit(tmp1, ByteBits - 1) * 2^ByteBits)
      [] OTHER -> IF (tmp1 & BNot(tmp2)) & Shr(tmp2, 1) # 0 THEN tmp2 ELSE 0

(* Mutant: the dual forms' halves added across (high of Rn to low).       *)
ExtAdd_cross(instr, rn, tmp3) ==
    CASE bitrng(instr, 21, 20) = 0 /\ bit(instr, 22) = 1 ->
           instr_util_ustuffs16(instr_util_shgethi(rn) + instr_util_shgethi(tmp3),
                                instr_util_shgetlo(rn) + instr_util_shgetlo(tmp3))
      [] bitrng(instr, 21, 20) = 0 ->
           instr_util_ustuffu16(wbitrng(rn, HalfBits - 1, 0) + wbitrng(tmp3, W - 1, HalfBits),
                                wbitrng(rn, W - 1, HalfBits) + wbitrng(tmp3, HalfBits - 1, 0))
      [] bit(instr, 22) = 1 -> tmp3
      [] OTHER -> U(tmp3 + rn)

(* Adding Rn (bits 19-16 not the PC).  Bit 22 set: the dual form adds the  *)
(* signed halves; the others compute "stmp1 = (int)tmp3 + (int)tmp1" and   *)
(* keep tmp3, so the sum is lost.  Bit 22 clear: the dual form adds the    *)
(* unsigned halves, the others "tmp3 += tmp1".                             *)
ExtAdd(instr, rn, tmp3) ==
    CASE bitrng(instr, 21, 20) = 0 /\ bit(instr, 22) = 1 ->
           instr_util_ustuffs16(instr_util_shgethi(rn) + instr_util_shgethi(tmp3),
                                instr_util_shgetlo(rn) + instr_util_shgetlo(tmp3))
      [] bitrng(instr, 21, 20) = 0 ->
           instr_util_ustuffu16(wbitrng(rn, W - 1, HalfBits) + wbitrng(tmp3, W - 1, HalfBits),
                                wbitrng(rn, HalfBits - 1, 0) + wbitrng(tmp3, HalfBits - 1, 0))
      [] bit(instr, 22) = 1 -> tmp3
      [] OTHER -> U(tmp3 + rn)

(* An extend with Rd = PC: Rm (+ 8) rotated by "instr_util_rorb(tmp1,      *)
(* bitrng(instr, 3, 0))", the Rm number where bits 11-10 hold the rotation; *)
(* the field extracted, sign bits set when bit 22 (U, "signed?") is 1, and *)
(* Rn added unless it is the PC.                                           *)
ExtValue(instr, ctx) ==
    LET tmp1 == instr_util_rorb(ReadReg(ctx, bitrng(instr, 3, 0)), bitrng(instr, 3, 0))
        tmp2 == ExtMask(instr)
        tmp3 == SignBits(instr, tmp1, tmp2) | (tmp1 & BNot(tmp2))
    IN IF bitrng(instr, 19, 16) = 15 THEN tmp3
       ELSE ExtAdd(instr, ctx.r[bitrng(instr, 19, 16)], tmp3)

PackExtras == {"arm_pack_pkh", "arm_pack_sxtb", "arm_pack_uxtb", "arm_pack_sxtab",
               "arm_pack_uxtab", "arm_pack_sxtab16", "arm_pack_uxtab16", "arm_pack_sxtb16",
               "arm_pack_uxtb16", "arm_pack_sxth", "arm_pack_sxtah", "arm_pack_uxtah",
               "arm_pack_uxth"}

(* The default case leaves the initial set_undef_addr().                   *)
arm_core_data_pack(instr, extra, ctx) ==
    CASE extra \notin PackExtras -> set_undef_addr
      [] bitrng(instr, 15, 12) # 15 -> set_addr_lin
      [] extra = "arm_pack_pkh" -> set_unpred_addr(set_arm_addr(PkhValue(instr, ctx)))
      [] OTHER -> set_unpred_addr(set_arm_addr(ExtValue(instr, ctx)))
=============================================================================
