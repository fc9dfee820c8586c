---------------------------- MODULE ArmDataProc ----------------------------
(***************************************************************************)
(* The core data-processing handlers of ARM_decode_table.c:               *)
(*   arm_core_data_std_r   register operand shifted by an immediate        *)
(*   arm_core_data_std_sh  register operand shifted by a register          *)
(*   arm_core_data_std_i   rotated immediate operand                       *)
(* Each one computes nothing unless Rd (bits 15-12) is the PC; then the    *)
(* ALU result is the candidate next address, and the arm_ret_* extras      *)
(* (the Rd = PC table entries) select the state or do an exception return. *)
(***************************************************************************)
EXTENDS ArmBits

NoRdExtras == {"arm_cdata_cmn_r", "arm_cdata_cmp_r", "arm_cdata_teq_r",
               "arm_cdata_tst_r", "arm_cdata_cmn_rshr", "arm_cdata_cmp_rshr",
               "arm_cdata_teq_rshr", "arm_cdata_tst_rshr", "arm_cdata_cmn_imm",
               "arm_cdata_cmp_imm", "arm_cdata_teq_imm", "arm_cdata_tst_imm"}

(* The "(x & ~mask) || (y & mask)" rotate merge with mask = ~0 << n; the   *)
(* code computes it for ROR and uses the mask variable of the first        *)
(* operand, so the rotate returns <<mask, merged>>: the clobbered operand  *)
(* and the operand2.                                                       *)
RorMerge(x, n) ==
    LET mask == Shl(Ones, n)
    IN <<mask, LogOr(Shr(x, n) & BNot(mask), Shl(x, W - n) & mask)>>

(* Operand2 of arm_core_data_std_r, Rm shifted by imm5; the result is     *)
(* <<tmp1, tmp2>> since the ROR case overwrites tmp1 (the Rn value).      *)
StdRShift(instr, ctx, tmp1) ==
    LET tmp2 == ReadReg(ctx, bitrng(instr, 3, 0))
        tmp3 == bitrng(instr, 11, 7)
        type == bitrng(instr, 6, 5)
    IN CASE type = 0 -> <<tmp1, Shl(tmp2, tmp3)>>
         [] type = 1 -> <<tmp1, IF tmp3 = 0 THEN 0 ELSE Shr(tmp2, tmp3)>>
         [] type = 2 -> <<tmp1, Asr(tmp2, IF tmp3 = 0 THEN W - 1 ELSE tmp3)>>
         [] type = 3 /\ tmp3 = 0 ->
                <<tmp1, Shr(tmp2, 1) + ctx.cpsr.c * 2^(W - 1)>>
         [] OTHER -> RorMerge(tmp2, tmp3)

(* The ALU switch of the three handlers: extras named after the op.       *)
(* ORR is computed with & in all three.                                   *)
StdAlu(extra, tmp1, tmp2, c) ==
    CASE extra \in {"arm_cdata_adc_r", "arm_ret_adc_r", "arm_cdata_adc_rshr",
                    "arm_cdata_adc_imm", "arm_ret_adc_imm"} ->
              set_arm_addr(U(tmp1 + tmp2 + c))
      [] extra \in {"arm_cdata_add_r", "arm_cdata_add_r_sp", "arm_ret_add_r",
                    "arm_cdata_add_rshr", "arm_cdata_add_imm",
                    "arm_cdata_add_imm_sp", "arm_ret_add_imm"} ->
              set_arm_addr(U(tmp1 + tmp2))
      [] extra \in {"arm_cdata_and_r", "arm_ret_and_r", "arm_cdata_and_rshr",
                    "arm_cdata_and_imm", "arm_cdata_orr_r", "arm_ret_orr_r",
                    "arm_cdata_orr_rshr", "arm_cdata_orr_imm"} ->
              set_arm_addr(tmp1 & tmp2)
      [] extra \in {"arm_cdata_bic_r", "arm_ret_bic_r", "arm_cdata_bic_rshr",
                    "arm_cdata_bic_imm", "arm_ret_bic_imm"} ->
              set_arm_addr(tmp1 & BNot(tmp2))
      [] extra \in {"arm_cdata_eor_r", "arm_ret_eor_r", "arm_cdata_eor_rshr",
                    "arm_cdata_eor_imm", "arm_ret_eor_imm"} ->
              set_arm_addr(tmp1 ^^ tmp2)
      [] extra \in {"arm_cdata_mvn_r", "arm_ret_mvn_r", "arm_cdata_mvn_rshr",
                    "arm_cdata_mvn_imm", "arm_ret_mvn_imm"} ->
              set_arm_addr(BNot(tmp2))
      [] extra \in {"arm_cdata_mov_imm", "arm_ret_mov_imm"} ->
              set_arm_addr(tmp2)
      [] extra \in {"arm_cdata_rsb_r", "arm_ret_rsb_r", "arm_cdata_rsb_rshr",
                    "arm_cdata_rsb_imm", "arm_ret_rsb_imm"} ->
              set_arm_addr(U(tmp2 - tmp1))
      [] extra \in {"arm_cdata_rsc_r", "arm_ret_rsc_r", "arm_cdata_rsc_rshr",
                    "arm_cdata_rsc_imm", "arm_ret_rsc_imm"} ->
              set_arm_addr(U(BNot(tmp1) + tmp2 + c))
      [] extra \in {"arm_cdata_sbc_r", "arm_ret_sbc_r", "arm_cdata_sbc_rshr",
                    "arm_cdata_sbc_imm", "arm_ret_sbc_imm"} ->
              set_arm_addr(U(tmp1 + BNot(tmp2) + c))
      [] extra \in {"arm_cdata_sub_r", "arm_cdata_sub_r_sp", "arm_ret_sub_r",
                    "arm_cdata_sub_rshr", "arm_cdata_sub_imm",
                    "arm_cdata_sub_imm_sp", "arm_ret_sub_imm"} ->
              set_arm_addr(U(tmp1 - tmp2))
      [] OTHER -> set_undef_addr        \* "shouldn't get here"

(* The "check for UNPREDICTABLE and UNDEFINED" switch of the arm_ret_*    *)
(* extras: S clear -> state from the low address bits; S set -> exception *)
(* return: SVC vector in usr/sys, UNDEFINED in hyp, else SPSR.T picks the *)
(* state (the ARM result already built stays as it is).                   *)
(* Mutant: the Hyp and User/System cases of the mode switch exchanged.    *)
RetState_swapped(instr, ctx, retval) ==
    IF bit(instr, 20) = 0 THEN Interwork(retval.address)
    ELSE CASE ctx.cpsr.mode = Modes.hyp -> set_unpred_addr(set_arm_addr(8))
           [] ctx.cpsr.mode \in {Modes.usr, Modes.sys} -> set_undef_addr
           [] OTHER -> IF ctx.spsr.t = 1 THEN set_thumb_addr(retval.address)
                       ELSE retval

RetState(instr, ctx, retval) ==
    IF bit(instr, 20) = 0 THEN Interwork(retval.address)
    ELSE CASE ctx.cpsr.mode \in {Modes.usr, Modes.sys} ->
                  set_unpred_addr(set_arm_addr(8))
           [] ctx.cpsr.mode = Modes.hyp -> set_undef_addr
           [] OTHER -> IF ctx.spsr.t = 1 THEN set_thumb_addr(retval.address)
                       ELSE retval

IsRet(extra, forms) == extra \in forms

RetRExtras == {"arm_ret_adc_r", "arm_ret_add_r", "arm_ret_and_r",
               "arm_ret_bic_r", "arm_ret_eor_r", "arm_ret_mvn_r",
               "arm_ret_orr_r", "arm_ret_rsb_r", "arm_ret_rsc_r",
               "arm_ret_sbc_r", "arm_ret_sub_r"}
RetImmExtras == {"arm_ret_adc_imm", "arm_ret_add_imm", "arm_ret_bic_imm",
                 "arm_ret_eor_imm", "arm_ret_mov_imm", "arm_ret_mvn_imm",
                 "arm_ret_rsb_imm", "arm_ret_rsc_imm", "arm_ret_sbc_imm",
                 "arm_ret_sub_imm"}

(* Mutant: the Rd = PC test left out.                                      *)
arm_core_data_std_r_ungated(instr, extra, ctx) ==
    IF extra \in NoRdExtras THEN set_addr_lin
    ELSE LET ops == StdRShift(instr, ctx, ReadReg(ctx, bitrng(instr, 19, 16)))
             res == StdAlu(extra, ops[1], ops[2], ctx.cpsr.c)
         IN IF IsRet(extra, RetRExtras) THEN RetState(instr, ctx, res) ELSE res

arm_core_data_std_r(instr, extra, ctx) ==
    IF extra \in NoRdExtras THEN set_addr_lin
    ELSE IF bitrng(instr, 15, 12) # 15 THEN set_addr_lin
    ELSE LET ops == StdRShift(instr, ctx, ReadReg(ctx, bitrng(instr, 19, 16)))
             res == StdAlu(extra, ops[1], ops[2], ctx.cpsr.c)
         IN IF IsRet(extra, RetRExtras) THEN RetState(instr, ctx, res) ELSE res

(* Operand2 of arm_core_data_std_sh: Rm shifted by (Rs & 0x1f), nothing   *)
(* done for a zero count; ROR clobbers the Rn value as in std_r.          *)
StdShShift(instr, ctx, tmp1) ==
    LET tmp2 == ReadReg(ctx, bitrng(instr, 3, 0))
        tmp3 == ReadReg(ctx, bitrng(instr, 11, 8)) % W
        type == bitrng(instr, 6, 5)
    IN CASE tmp3 = 0  -> <<tmp1, tmp2>>
         [] type = 0 -> <<tmp1, Shl(tmp2, tmp3)>>
         [] type = 1 -> <<tmp1, Shr(tmp2, tmp3)>>
         [] type = 2 -> <<tmp1, Asr(tmp2, tmp3)>>
         [] OTHER    -> RorMerge(tmp2, tmp3)

arm_core_data_std_sh(instr, extra, ctx) ==
    IF extra \in NoRdExtras THEN set_addr_lin
    ELSE IF bitrng(instr, 15, 12) # 15 THEN set_addr_lin
    ELSE LET ops == StdShShift(instr, ctx, ReadReg(ctx, bitrng(instr, 19, 16)))
         IN set_unpred_addr(StdAlu(extra, ops[1], ops[2], ctx.cpsr.c))

(* Operand2 of arm_core_data_std_i: imm8 rotated by 2*rot (& 0x1f).       *)
StdIImm(instr, tmp1) ==
    LET tmp2 == bitrng(instr, 7, 0) % WordLimit
        tmp3 == (bitrng(instr, 11, 8) * 2) % W
    IN IF tmp3 = 0 THEN <<tmp1, tmp2>> ELSE RorMerge(tmp2, tmp3)

(* ADR: Align(r15, 4) +/- imm, read without the +8 of the other operands. *)
AdrBase(ctx) == ctx.r[15] - (ctx.r[15] % 4)

arm_core_data_std_i(instr, extra, ctx) ==
    IF extra \in NoRdExtras THEN set_addr_lin
    ELSE IF bitrng(instr, 15, 12) # 15 THEN set_addr_lin
    ELSE LET ops == StdIImm(instr, ReadReg(ctx, bitrng(instr, 19, 16)))
             res == CASE extra = "arm_cdata_adr_lbla" ->
                             set_arm_addr(U(AdrBase(ctx) + ops[2]))
                      [] extra = "arm_cdata_adr_lblb" ->
                             set_arm_addr(U(AdrBase(ctx) - ops[2]))
                      [] OTHER -> StdAlu(extra, ops[1], ops[2], ctx.cpsr.c)
         IN IF IsRet(extra, RetImmExtras) THEN RetState(instr, ctx, res) ELSE res
-----------------------------------------------------------------------------
(***************************************************************************)
(* arm_core_data_bit: the shift and move instructions (ASR, LSL, LSR, ROR, *)
(* RRX by immediate or register, MOV register), reached from the table or  *)
(* from arm_mux.  Rd = bits 15-12, the shifted register Rn/Rm = bits 3-0,  *)
(* the shift register = bits 11-8.                                         *)
(***************************************************************************)
RetBitExtras == {"arm_ret_asr_imm", "arm_ret_lsr_imm", "arm_ret_lsl_imm",
                 "arm_ret_ror_imm", "arm_ret_rrx_pc", "arm_ret_mov_pc"}
RegShiftExtras == {"arm_cdata_asr_r", "arm_cdata_lsl_r", "arm_cdata_lsr_r",
                   "arm_cdata_ror_r"}

(* The rotate of ror_imm / ror_r: the dropped bits are taken as             *)
(* bitrng(tmp1, n, 0), n+1 bits, and merged back with ||.                   *)
BitRor(tmp1, n) ==
    LET tmp4 == Shl(wbitrng(tmp1, n, 0), W - n)
        mask == Shl(Ones, n)
    IN LogOr(Shr(tmp1, n) & BNot(mask), tmp4 & mask)

(* tmp3, the value computed for Rd = PC.                                   *)
BitValue(instr, extra, ctx) ==
    LET tmp1 == ReadReg(ctx, bitrng(instr, 3, 0))
        imm == bitrng(instr, 11, 7)
        rs == ReadReg(ctx, bitrng(instr, 11, 8))
    IN CASE extra \in {"arm_ret_asr_imm", "arm_cdata_asr_imm"} -> Asr(tmp1, imm)
         [] extra \in {"arm_ret_lsr_imm", "arm_cdata_lsr_imm"} -> Shr(tmp1, imm)
         [] extra \in {"arm_ret_lsl_imm", "arm_cdata_lsl_imm"} -> Shl(tmp1, imm)
         [] extra \in {"arm_ret_mov_pc", "arm_cdata_mov_r"} -> tmp1
         [] extra \in {"arm_ret_ror_imm", "arm_cdata_ror_imm"} -> BitRor(tmp1, imm)
         [] extra \in {"arm_ret_rrx_pc", "arm_cdata_rrx_r"} ->
                Shr(tmp1, 1) + ctx.cpsr.c * 2^(W - 1)
         [] extra = "arm_cdata_asr_r" -> Asr(tmp1, rs % W)
         [] extra = "arm_cdata_lsl_r" -> IF rs > W - 1 THEN 0 ELSE Shl(tmp1, rs % W)
         [] extra = "arm_cdata_lsr_r" -> IF rs > W - 1 THEN 0 ELSE Shr(tmp1, rs % W)
         [] extra = "arm_cdata_ror_r" -> IF rs % W = 0 THEN tmp1
                                         ELSE BitRor(tmp1, rs % W)

(* tmp3 is only assigned when Rd = PC; an arm_ret_* extra with another Rd  *)
(* would read it uninitialised, so the caller passes the value it holds    *)
(* (garbage).  The table routes arm_ret_* only with Rd = 1111.             *)
arm_core_data_bit(instr, extra, ctx, garbage) ==
    LET pc == bitrng(instr, 15, 12) = 15
        tmp3 == IF pc THEN BitValue(instr, extra, ctx) ELSE garbage
    IN CASE extra \in RetBitExtras ->
              IF bit(instr, 20) = 0 THEN Interwork(tmp3)
              ELSE CASE ctx.cpsr.mode \in {Modes.usr, Modes.sys} ->
                            set_unpred_addr(set_arm_addr(8))
                     [] ctx.cpsr.mode = Modes.hyp -> set_undef_addr
                     [] OTHER -> IF ctx.spsr.t = 1 THEN set_thumb_addr(tmp3)
                                 ELSE set_undef_addr
         [] extra \in RegShiftExtras ->
              IF pc THEN set_unpred_addr(IF wbit(tmp3, 0) = 1 \/ tmp3 % 4 # 0
                                         THEN set_thumb_addr(tmp3)
                                         ELSE set_arm_addr(tmp3))
              ELSE set_addr_lin
         [] OTHER -> set_addr_lin
=============================================================================
