------------------------------ MODULE ArmMacd ------------------------------
(***************************************************************************)
(* arm_core_data_macd(): the multiplies with a 64-bit result, SMLAL<x><y>, *)
(* SMLAL, SMULL, UMAAL, UMLAL, UMULL, SMLALD and SMLSLD.  RdHi = bits      *)
(* 19-16, RdLo = 15-12, Rm = 11-8, Rn = 3-0.  Only RdHi or RdLo = PC       *)
(* computes; the result is then always flagged UNPREDICTABLE.  At width W  *)
(* "long long" is 2W bits and ">> 32" is a division by 2^W.                *)
(***************************************************************************)
EXTENDS ArmMac

(* (int)a * (int)b and the int sum (int)a + (int)b, wrapping in int before *)
(* the widening to long long.                                              *)
ISum(a, b) == SInt(U(a + b))

(* The 2W-bit value ltmp/utmp before the half is taken, by extra.  tmp1 is *)
(* Rm and tmp2 Rn, read with PC + 8; tmp3 and tmp4 are the register        *)
(* NUMBERS RdHi and RdLo, which SMLAL and UMLAL add where the comments say  *)
(* the registers' values.  SMLAL<x><y> computes the halves and then        *)
(* multiplies the full registers.                                          *)
MacdValue(instr, extra, ctx, tmp1, tmp2) ==
    LET tmp3 == bitrng(instr, 19, 16)
        tmp4 == bitrng(instr, 15, 12)
        acc == ISum(ctx.r[tmp3], ctx.r[tmp4])
        sprod == IMul(SInt(tmp1), SInt(tmp2))
        uprod == U(tmp1 * tmp2)
        m == IF bit(instr, 5) = 1 THEN SwapHalves(tmp1) ELSE tmp1
        lo == SHalf(m, 0) * SHalf(tmp2, 0)
        hi == SHalf(m, 1) * SHalf(tmp2, 1)
        stmp3 == SInt(U(IF extra = "arm_cmac_smlald" THEN lo + hi ELSE lo - hi))
    IN CASE extra \in {"arm_cmac_smlal16", "arm_cmac_umaal"} -> sprod + acc
         [] extra = "arm_cmac_smlal" -> sprod + tmp3 * 2^W + tmp4
         [] extra = "arm_cmac_smull" -> sprod
         [] extra = "arm_cmac_umlal" -> uprod + tmp3 * 2^W + tmp4
         [] extra = "arm_cmac_umull" -> uprod
         [] OTHER -> stmp3 + SInt(ctx.r[tmp3]) * 2^W + SInt(ctx.r[tmp4])

(* Mutant: the high word without the "& 0xffffffff" mask.                  *)
MacdPick_nomask(instr, v) ==
    IF bitrng(instr, 19, 16) = 15 THEN v \div 2^W ELSE v % 2^W

(* "if (tmp3 == 15) // if PC is RdHi": the high word, else the low word.   *)
MacdPick(instr, v) ==
    IF bitrng(instr, 19, 16) = 15 THEN (v % 2^(2 * W)) \div 2^W ELSE v % 2^W

MacdExtras == {"arm_cmac_smlal16", "arm_cmac_smlal", "arm_cmac_smull", "arm_cmac_umaal",
               "arm_cmac_umlal", "arm_cmac_umull", "arm_cmac_smlald", "arm_cmac_smlsld"}

(* The default case ("shouldn't get here") leaves tmp4 = RdLo, the number. *)
arm_core_data_macd(instr, extra, ctx) ==
    IF 15 \notin {bitrng(instr, 19, 16), bitrng(instr, 15, 12)} THEN set_addr_lin
    ELSE set_unpred_addr(set_arm_addr(
             IF extra \in MacdExtras
             THEN MacdPick(instr, MacdValue(instr, extra, ctx, ReadReg(ctx, bitrng(instr, 11, 8)),
                                            ReadReg(ctx, bitrng(instr, 3, 0))))
             ELSE bitrng(instr, 15, 12)))
=============================================================================
