------------------------------- MODULE ArmMux -------------------------------
(***************************************************************************)
(* arm_mux(): the sub-dispatcher for table entries shared by several       *)
(* instructions.  Each case re-reads instruction bits (and for MSR the     *)
(* processor mode) and resolves to linear, UNDEFINED, or forwards to       *)
(* arm_core_data_bit; after the switch the condition is checked once, and  *)
(* only a result flagged ARM is forced to linear when it fails.            *)
(* The VST/VLD multiple-structure cases forward to arm_vfp_ldst_elem().   *)
(***************************************************************************)
EXTENDS ArmDataProc, ArmVldst

(* VBIC/VMVN (imm): cmode = 111x is UNDEFINED.                             *)
MuxVbicVmvn(instr) ==
    IF bitrng(instr, 11, 9) # 7 THEN set_addr_lin ELSE set_undef_addr

(* WFE/WFI: the test compares the hint field with 2 twice.                  *)
MuxWfeWfi(instr) ==
    IF bitrng(instr, 7, 0) = 2 \/ bitrng(instr, 7, 0) = 2 THEN set_addr_lin
    ELSE set_undef_addr

(* VSHRN / VRSHRN and their saturating forms: Vm<0> = 1 is UNDEFINED.       *)
MuxVshrn(instr) == IF bit(instr, 0) = 0 THEN set_addr_lin ELSE set_undef_addr

(* VSHLL / VMOVL: Vd<0> = 1 or imm3 = 000 is UNDEFINED.                     *)
MuxVshllVmovl(instr) ==
    IF bit(instr, 12) = 0 /\ bitrng(instr, 21, 19) # 0 THEN set_addr_lin
    ELSE set_undef_addr

(* VORR/VMOV/VSHR (imm).                                                    *)
MuxVorrVmovImm(instr) ==
    IF bit(instr, 6) = 1 /\ bit(instr, 12) = 0
    THEN IF bit(instr, 7) = 0 /\ bitrng(instr, 21, 19) = 0
         THEN IF (bit(instr, 5) = 0 /\ bit(instr, 8) = 1
                    /\ bitrng(instr, 11, 10) # 3)
                 \/ bit(instr, 8) = 0 \/ bitrng(instr, 11, 10) = 3
              THEN set_addr_lin ELSE set_undef_addr
         ELSE IF bit(instr, 0) = 0 THEN set_addr_lin ELSE set_undef_addr
    ELSE set_undef_addr

(* LSL (imm) / MOV (reg), and their Rd = PC entry: imm5 = 0 is MOV; the   *)
(* PC entry with S set is an exception return.                            *)
MuxLslMov(instr, extra, ctx, garbage) ==
    LET mov == bitrng(instr, 11, 7) = 0
        ret == extra = "arm_mux_lsl_i_mov_pc" /\ bit(instr, 20) = 1
        fwd == CASE mov /\ ret  -> "arm_ret_mov_pc"
                 [] mov         -> "arm_cdata_mov_r"
                 [] ret         -> "arm_ret_lsl_imm"
                 [] OTHER       -> "arm_cdata_lsl_imm"
    IN arm_core_data_bit(instr, fwd, ctx, garbage)

(* ROR (imm) / RRX.                                                         *)
MuxRorRrx(instr, ctx, garbage) ==
    arm_core_data_bit(instr, IF bitrng(instr, 11, 7) = 0 THEN "arm_cdata_rrx_r"
                             ELSE "arm_cdata_ror_imm", ctx, garbage)

(* VQMOV{U}N / VMOVN: size = 11 or Vm<0> = 1 is UNDEFINED.                 *)
MuxVmovn(instr) ==
    IF bitrng(instr, 19, 18) # 3 /\ bit(instr, 0) = 0 THEN set_addr_lin
    ELSE set_undef_addr

(* MSR (register), privileged encodings: UNPREDICTABLE classification by  *)
(* the current mode, R (bit 22), mask (bits 19-16) and Rn = PC.            *)
MuxMsrReg(instr, ctx) ==
    LET mode == ctx.cpsr.mode
        tobe == ctx.r[bitrng(instr, 3, 0)] % 32          \* mode-to-be
        unp == CASE mode = Modes.usr ->
                        bit(instr, 22) = 1 \/ bitrng(instr, 19, 18) = 0
                          \/ bitrng(instr, 3, 0) = 15
                 [] mode = Modes.sys ->
                        tobe \notin {Modes.usr, Modes.sys}
                          \/ bitrng(instr, 19, 16) = 0 \/ bitrng(instr, 3, 0) = 15
                 [] OTHER -> bitrng(instr, 19, 16) = 0 \/ bitrng(instr, 3, 0) = 15
    IN IF unp THEN set_unpred_addr(set_addr_lin) ELSE set_addr_lin

(* The CPSR/SPSR as a word, cut to the model's width W <= 16: M (bits 4-0) *)
(* and T (bit 5); N Z C V (bits 31-28) lie above the width.                *)
PSRWord(p) == U(p.mode + 32 * p.t)

(* Mutant: the initial "retval = set_addr_lin()" left out.                 *)
MuxMrs_nolin(instr, ctx) ==
    IF bitrng(instr, 11, 8) = 15 THEN set_unpred_addr(set_addr_lin)
    ELSE set_undef_addr

(* MRS (register): Rd taken from bits 11-8; with Rd = PC the best-effort    *)
(* value is the masked CPSR (user, and other modes), or the SPSR outside  *)
(* user and system mode, flagged UNPREDICTABLE.                            *)
MuxMrs(instr, ctx) ==
    LET mode == ctx.cpsr.mode
        cpsr == PSRWord(ctx.cpsr)
        val == CASE bit(instr, 22) = 0 /\ mode = Modes.usr ->
                        set_arm_addr(cpsr & U(\h0000))  \* 0xf80f0000, low half
                 [] bit(instr, 22) = 0 -> set_arm_addr(cpsr & U(\h03DF))  \* 0xf8ff03df, low half
                 [] mode \in {Modes.usr, Modes.sys} -> set_addr_lin
                 [] OTHER -> set_arm_addr(PSRWord(ctx.spsr))
    IN IF bitrng(instr, 11, 8) = 15 THEN set_unpred_addr(val) ELSE set_addr_lin

(* MSR (immediate) and the hints NOP, YIELD, WFE, WFI, SEV, DBG.           *)
MuxMsrImmHints(instr, ctx) ==
    LET mode == ctx.cpsr.mode
        tobe == ctx.r[bitrng(instr, 3, 0)] % 32
        hint == bitrng(instr, 7, 0)
    IN IF bitrng(instr, 19, 16) # 0
       THEN IF \/ mode = Modes.usr /\ bit(instr, 22) = 1
               \/ mode = Modes.sys /\ (tobe \notin {Modes.usr, Modes.sys}
                                        \/ bit(instr, 22) = 1)
            THEN set_unpred_addr(set_addr_lin) ELSE set_addr_lin
       ELSE IF hint \in 0 .. 4 \/ hint \div 16 = 15 THEN set_addr_lin
       ELSE set_undef_addr

(* VORR/VMOV (register): a set bit 16, 12 or 0 is UNDEFINED.               *)
MuxVorrVmovReg(instr) ==
    IF bit(instr, 16) = 0 /\ bit(instr, 12) = 0 /\ bit(instr, 0) = 0
    THEN set_addr_lin ELSE set_undef_addr

(* VST/VLD (multiple structures): the type field (11-8) picks the         *)
(* structure count; types 11-15 leave the initial set_undef_addr().        *)
MuxVldVst(instr, extra) ==
    LET dir == IF extra = "arm_mux_vst_type" THEN "vst" ELSE "vld"
        type == bitrng(instr, 11, 8)
        n == CASE type \in {2, 6, 7, 10} -> "1"
               [] type \in {3, 8, 9} -> "2"
               [] type \in {4, 5} -> "3"
               [] type \in {0, 1} -> "4"
               [] OTHER -> "none"
    IN IF n = "none" THEN set_undef_addr
       ELSE arm_vfp_ldst_elem(instr, ElemExtra(dir, n, "mult"))

MuxCase(instr, extra, ctx, garbage) ==
    CASE extra = "arm_mux_vbic_vmvn" -> MuxVbicVmvn(instr)
      [] extra = "arm_mux_wfe_wfi" -> MuxWfeWfi(instr)
      [] extra \in {"arm_mux_vshrn_q_imm", "arm_mux_vrshrn_q_imm"} -> MuxVshrn(instr)
      [] extra = "arm_mux_vshll_i_vmovl" -> MuxVshllVmovl(instr)
      [] extra = "arm_mux_vorr_i_vmov_i" -> MuxVorrVmovImm(instr)
      [] extra \in {"arm_mux_lsl_i_mov", "arm_mux_lsl_i_mov_pc"} ->
             MuxLslMov(instr, extra, ctx, garbage)
      [] extra = "arm_mux_ror_i_rrx" -> MuxRorRrx(instr, ctx, garbage)
      [] extra = "arm_mux_vmovn_q" -> MuxVmovn(instr)
      [] extra = "arm_mux_mrs_r_pr" -> MuxMrs(instr, ctx)
      [] extra = "arm_mux_msr_r_pr" -> MuxMsrReg(instr, ctx)
      [] extra = "arm_mux_msr_i_pr_hints" -> MuxMsrImmHints(instr, ctx)
      [] extra = "arm_mux_vorr_vmov_nm" -> MuxVorrVmovReg(instr)
      [] extra \in {"arm_mux_vst_type", "arm_mux_vld_type"} -> MuxVldVst(instr, extra)
      [] OTHER -> set_undef_addr

(* The central condition check: only an ARM-flagged result is suppressed.  *)
arm_mux(instr, extra, ctx, garbage) ==
    LET retval == MuxCase(instr, extra, ctx, garbage)
    IN IF retval.flag = "ARM" /\ ~will_branch(instr, ctx.cpsr) THEN set_addr_lin
       ELSE retval
=============================================================================
