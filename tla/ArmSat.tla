------------------------------- MODULE ArmSat -------------------------------
(***************************************************************************)
(* arm_core_data_sat(): QADD/QSUB/QDADD/QDSUB (Rn = 19-16, Rm = 3-0) and    *)
(* SSAT/USAT/SSAT16/USAT16 (Rn = 3-0), Rd = bits 15-12.  Only Rd = PC      *)
(* computes; the result is always flagged UNPREDICTABLE.  The 32 of        *)
(* "instr_util_lssat(x, 32)" and the 31 of "stmp1 >>= 31" are W and W - 1. *)
(***************************************************************************)
EXTENDS ArmBits

HalfBits == W \div 2

(* instr_util.c helpers: saturation of an integer to a signed n-bit or an  *)
(* unsigned n-bit range, the signed halves of a word, and two halves       *)
(* packed into a word.                                                      *)
instr_util_lssat(x, n) ==
    IF x > 2^(n - 1) - 1 THEN 2^(n - 1) - 1
    ELSE IF x < -(2^(n - 1)) THEN -(2^(n - 1)) ELSE x
instr_util_ssat(x, n) == instr_util_lssat(x, n)
instr_util_usat(x, n) == IF x > 2^n - 1 THEN 2^n - 1 ELSE IF x < 0 THEN 0 ELSE x
SignedHalf(h) == IF h >= 2^(HalfBits - 1) THEN h - 2^HalfBits ELSE h
instr_util_shgetlo(x) == SignedHalf(x % 2^HalfBits)
instr_util_shgethi(x) == SignedHalf(x \div 2^HalfBits)
instr_util_ustuffs16(hi, lo) == (hi % 2^HalfBits) * 2^HalfBits + (lo % 2^HalfBits)

(* Mutant: the doubled operand of QDADD/QDSUB not saturated.              *)
QOp_nosat(extra, tmp1, tmp2) ==
    IF extra \in {"arm_sat_qadd", "arm_sat_qsub"}
    THEN instr_util_lssat(tmp2 + tmp1, W)
    ELSE instr_util_lssat(tmp2 - 2 * tmp1, W)

(* The Q operations on the operands as read: (long long) of the unsigned   *)
(* register values.                                                        *)
QOp(extra, tmp1, tmp2) ==
    IF extra \in {"arm_sat_qadd", "arm_sat_qsub"}
    THEN instr_util_lssat(tmp2 + tmp1, W)
    ELSE instr_util_lssat(tmp2 - instr_util_lssat(2 * tmp1, W), W)

(* The SSAT/USAT operand: Rn shifted by imm5 (bit 6: ASR, ASR #0 = #32;    *)
(* otherwise LSL, in int).                                                 *)
SatOperand(instr, tmp1) ==
    LET tmp2 == bitrng(instr, 11, 7)
        stmp1 == SInt(tmp1)
    IN IF bit(instr, 6) = 1
       THEN stmp1 \div 2^(IF tmp2 = 0 THEN W - 1 ELSE tmp2)
       ELSE SInt(U(stmp1 * 2^tmp2))

SatValue(instr, extra, tmp1) ==
    CASE extra = "arm_sat_ssat" ->
             instr_util_ssat(SatOperand(instr, tmp1), bitrng(instr, 20, 16) - 1)
      [] extra = "arm_sat_usat" ->
             instr_util_usat(SatOperand(instr, tmp1), bitrng(instr, 20, 16))
      [] extra = "arm_sat_ssat16" ->
             instr_util_ustuffs16(
                 instr_util_ssat(instr_util_shgethi(tmp1), bitrng(instr, 19, 16)),
                 instr_util_ssat(instr_util_shgetlo(tmp1), bitrng(instr, 19, 16)))
      [] OTHER ->
             instr_util_ustuffs16(
                 instr_util_usat(instr_util_shgethi(tmp1), bitrng(instr, 19, 16)),
                 instr_util_usat(instr_util_shgetlo(tmp1), bitrng(instr, 19, 16)))

(* bits 24-23 = 10 selects the Q operations.                               *)
arm_core_data_sat(instr, extra, ctx) ==
    IF bitrng(instr, 15, 12) # 15 THEN set_addr_lin
    ELSE set_unpred_addr(set_arm_addr(U(
             IF bitrng(instr, 24, 23) = 2
             THEN QOp(extra, ReadReg(ctx, bitrng(instr, 19, 16)),
                      ReadReg(ctx, bitrng(instr, 3, 0)))
             ELSE SatValue(instr, extra, ReadReg(ctx, bitrng(instr, 3, 0))))))
=============================================================================
