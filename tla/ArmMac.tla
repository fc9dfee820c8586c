------------------------------- MODULE ArmMac -------------------------------
(***************************************************************************)
(* arm_core_data_mac(): MUL/MLA/MLS, SMULW/SMLAW, SMUL/SMLA<x><y>,         *)
(* SMMUL/SMMLA/SMMLS and SMUAD/SMUSD/SMLAD/SMLSD.  Rd = bits 19-16, Ra =   *)
(* 15-12, Rm = 11-8, Rn = 3-0.  Only Rd = PC computes; the result is       *)
(* always flagged UNPREDICTABLE.  A halfword is H = W/2 bits, and the      *)
(* 48- and 64-bit products are W + H and 2W bits wide.                     *)
(***************************************************************************)
EXTENDS ArmBits

H == W \div 2

(* (int)(short int)bitrng(x, 31, 16) (top = 1) or bitrng(x, 15, 0).        *)
SHalf(x, top) ==
    LET h == IF top = 1 THEN x \div 2^H ELSE x % 2^H
    IN IF h >= 2^(H - 1) THEN h - 2^H ELSE h

(* int * int: the product is formed in int and wraps before any widening. *)
IMul(a, b) == SInt(U(a * b))

(* The SMMUL family's product: ((int)tmp1) * ((int)tmp2).                   *)
SmmProduct(tmp1, tmp2) == IMul(SInt(tmp1), SInt(tmp2))

(* "swap Rm": the halves of tmp1 exchanged when the M bit (5) is set.      *)
(* Mutant: the swap of Rm dropped.                                        *)
SwapHalves_none(x) == x
SwapHalves(x) == x \div 2^H + (x % 2^H) * 2^H

MacValue(instr, extra, tmp1, tmp2, a) ==
    CASE extra \in {"arm_cmac_mul", "arm_cmac_mla", "arm_cmac_mls"} ->
              LET p == U(tmp1 * tmp2)
              IN CASE extra = "arm_cmac_mla" -> U(p + a)
                   [] extra = "arm_cmac_mls" -> U(a - p)
                   [] OTHER -> p
      [] extra \in {"arm_cmac_smulw", "arm_cmac_smlaw"} ->
              LET stmp3 == IMul(SInt(tmp2), SHalf(tmp1, bit(instr, 6))) \div 2^H
              IN U(IF extra = "arm_cmac_smlaw" THEN stmp3 + SInt(a) ELSE stmp3)
      [] extra \in {"arm_cmac_smul", "arm_cmac_smla"} ->
              LET stmp3 == SHalf(tmp2, bit(instr, 5)) * SHalf(tmp1, bit(instr, 6))
              IN U(IF extra = "arm_cmac_smla" THEN stmp3 + SInt(a) ELSE stmp3)
      [] extra \in {"arm_cmac_smmul", "arm_cmac_smmla", "arm_cmac_smmls"} ->
              LET ltmp == SmmProduct(tmp1, tmp2) + bit(instr, 5) * 2^(W - 1)
                  stmp3 == SInt(U(ltmp \div 2^W))
              IN CASE extra = "arm_cmac_smmla" -> U(stmp3 + SInt(a))
                   [] extra = "arm_cmac_smmls" -> U(SInt(a) - stmp3)
                   [] OTHER -> U(stmp3)
      [] OTHER ->                     \* SMUAD, SMUSD, SMLAD, SMLSD
              LET m == IF bit(instr, 5) = 1 THEN SwapHalves(tmp1) ELSE tmp1
                  lo == SHalf(m, 0) * SHalf(tmp2, 0)
                  hi == SHalf(m, 1) * SHalf(tmp2, 1)
                  s == IF extra \in {"arm_cmac_smuad", "arm_cmac_smlad"}
                       THEN lo + hi ELSE lo - hi
              IN U(IF extra \in {"arm_cmac_smlsd", "arm_cmac_smlad"}
                   THEN s + SInt(a) ELSE s)

MacExtras == {"arm_cmac_mul", "arm_cmac_mla", "arm_cmac_mls", "arm_cmac_smulw",
              "arm_cmac_smlaw", "arm_cmac_smul", "arm_cmac_smla", "arm_cmac_smmul",
              "arm_cmac_smmla", "arm_cmac_smmls", "arm_cmac_smuad",
              "arm_cmac_smusd", "arm_cmac_smlad", "arm_cmac_smlsd"}

(* Rm and Rn are read with PC + 8, Ra as stored.                           *)
arm_core_data_mac(instr, extra, ctx) ==
    IF bitrng(instr, 19, 16) # 15 THEN set_addr_lin
    ELSE IF extra \notin MacExtras THEN set_undef_addr    \* "shouldn't get here"
    ELSE set_unpred_addr(set_arm_addr(
             MacValue(instr, extra, ReadReg(ctx, bitrng(instr, 11, 8)),
                      ReadReg(ctx, bitrng(instr, 3, 0)),
                      ctx.r[bitrng(instr, 15, 12)])))
=============================================================================
