------------------------------- MODULE ArmDiv -------------------------------
(***************************************************************************)
(* arm_core_data_div(): SDIV and UDIV.  Rd = bits 19-16, Rm (the divisor)  *)
(* = bits 11-8, Rn (the dividend) = bits 3-0.  Only Rd = PC computes.      *)
(***************************************************************************)
EXTENDS ArmBits

(* C's int division: truncation toward zero.                                *)
TruncDiv(a, b) ==
    LET q == (IF a < 0 THEN -a ELSE a) \div (IF b < 0 THEN -b ELSE b)
    IN IF (a < 0) = (b < 0) THEN q ELSE -q

(* Mutant: the "+ 1" of the rounding left out.                              *)
SDivQuot_norounding(stmp3, stmp2) ==
    IF wbit(U(stmp3), W - 1) = wbit(U(stmp2), W - 1) THEN TruncDiv(stmp3, stmp2)
    ELSE TruncDiv(SInt(U(2 * stmp3)), stmp2) \div 2

(* The quotient of the non-zero-divisor case: same signs divide directly;  *)
(* otherwise (((stmp3 << 1) / stmp2) + 1) >> 1, where the << wraps at the  *)
(* word width and the >> of a negative int is arithmetic.                   *)
SDivQuot(stmp3, stmp2) ==
    IF wbit(U(stmp3), W - 1) = wbit(U(stmp2), W - 1) THEN TruncDiv(stmp3, stmp2)
    ELSE (TruncDiv(SInt(U(2 * stmp3)), stmp2) + 1) \div 2

(* "if (tmp2 == 15) tmp4 += 8": the dividend's offset keeps the divisor's. *)
PCOffset(n) == IF n = 15 THEN 8 ELSE 0

arm_core_data_div(instr, extra, ctx) ==
    LET tmp1 == bitrng(instr, 19, 16)
        tmp2 == bitrng(instr, 11, 8)
        tmp3 == bitrng(instr, 3, 0)
    IN IF tmp1 # 15
       THEN IF 15 \in {tmp2, tmp3} THEN set_unpred_addr(set_addr_lin)
            ELSE set_addr_lin
       ELSE IF extra = "arm_div_sdiv"
       THEN LET stmp2 == SInt(U(ctx.r[tmp2] + PCOffset(tmp2)))
                stmp3 == SInt(U(ctx.r[tmp3] + PCOffset(tmp3)))
            IN IF stmp2 = 0 THEN set_arm_addr(0)
               ELSE set_arm_addr(U(SDivQuot(stmp3, stmp2)))
       ELSE LET d == U(ctx.r[tmp2] + PCOffset(tmp2))
                n == U(ctx.r[tmp3] + PCOffset(tmp2) + PCOffset(tmp3))
            IN set_arm_addr(IF d = 0 THEN tmp1 ELSE n \div d)
=============================================================================
