------------------------------ MODULE ArmTable ------------------------------
(***************************************************************************)
(* ARM_decode_table[]: the ordered {mask, data, extra, decoder} entries.   *)
(* Its contents come from ARM_decode_table_data.h, generated from a        *)
(* spreadsheet and not part of the sources, so the entries below are the   *)
(* ones for the modelled instruction classes, written from their ARM ARM   *)
(* encodings and the extras the handlers name: for every family the Rd =   *)
(* PC entry (arm_ret_*, arm_mux_*_pc) precedes the general one, and a more *)
(* specific pattern precedes the one it overlaps (spec section 4.1).       *)
(***************************************************************************)
EXTENDS ArmBits, Sequences

Entry(mhi, mlo, dhi, dlo, decoder, extra) ==
    [mask |-> Hex32(mhi, mlo), data |-> Hex32(dhi, dlo),
     decoder |-> decoder, extra |-> extra]

(* The data-processing opcode opc placed in bits 24-21 of the high half.   *)
Opc(opc) == opc * 32

(* Register-operand ALU ops with their arm_ret_*/arm_cdata_* extras.       *)
RegOps == << <<0, "and">>, <<1, "eor">>, <<2, "sub">>, <<3, "rsb">>,
             <<4, "add">>, <<5, "adc">>, <<6, "sbc">>, <<7, "rsc">>,
             <<12, "orr">>, <<14, "bic">> >>
TestOpNames == << <<8, "tst">>, <<9, "teq">>, <<10, "cmp">>, <<11, "cmn">> >>

(* Immediate ops that have an arm_ret_* entry (AND and ORR have none).      *)
ImmRetOps == << <<1, "eor">>, <<2, "sub">>, <<3, "rsb">>, <<4, "add">>,
                <<5, "adc">>, <<6, "sbc">>, <<7, "rsc">>, <<14, "bic">> >>

Map(s, F(_)) == [j \in 1 .. Len(s) |-> F(s[j])]

Branches ==
    << Entry(\hFE00, 0, \hFA00, 0, "arm_branch", "arm_bra_blx_lbl"),
       Entry(\h0FFF, \hFFF0, \h012F, \hFF10, "arm_branch", "arm_bra_bx_r"),
       Entry(\h0FFF, \hFFF0, \h012F, \hFF20, "arm_branch", "arm_bra_bxj_r"),
       Entry(\h0FFF, \hFFF0, \h012F, \hFF30, "arm_branch", "arm_bra_blx_r"),
       Entry(\h0F00, 0, \h0A00, 0, "arm_branch", "arm_bra_b_lbl"),
       Entry(\h0F00, 0, \h0B00, 0, "arm_branch", "arm_bra_bl_lbl") >>

Hints ==
    << Entry(\h0FFF, \hFFFE, \h0320, \hF002, "arm_mux", "arm_mux_wfe_wfi"),
       Entry(\h0FB0, \hF000, \h0320, \hF000, "arm_mux", "arm_mux_msr_i_pr_hints"),
       Entry(\h0FB0, \hFFF0, \h0120, \hF000, "arm_mux", "arm_mux_msr_r_pr") >>

(* MOV (register) and the shifts: opcode 1101 with Rn = 0000.              *)
Shifts ==
    << Entry(\h0FEF, \hFFF0, \h01A0, \hF060, "arm_core_data_bit", "arm_ret_rrx_pc"),
       Entry(\h0FEF, \hF070, \h01A0, \hF060, "arm_core_data_bit", "arm_ret_ror_imm"),
       Entry(\h0FEF, \hF070, \h01A0, \hF020, "arm_core_data_bit", "arm_ret_lsr_imm"),
       Entry(\h0FEF, \hF070, \h01A0, \hF040, "arm_core_data_bit", "arm_ret_asr_imm"),
       Entry(\h0FEF, \hF070, \h01A0, \hF000, "arm_mux", "arm_mux_lsl_i_mov_pc"),
       Entry(\h0FEF, \h0070, \h01A0, \h0000, "arm_mux", "arm_mux_lsl_i_mov"),
       Entry(\h0FEF, \h0070, \h01A0, \h0020, "arm_core_data_bit", "arm_cdata_lsr_imm"),
       Entry(\h0FEF, \h0070, \h01A0, \h0040, "arm_core_data_bit", "arm_cdata_asr_imm"),
       Entry(\h0FEF, \h0070, \h01A0, \h0060, "arm_mux", "arm_mux_ror_i_rrx"),
       Entry(\h0FEF, \h00F0, \h01A0, \h0010, "arm_core_data_bit", "arm_cdata_lsl_r"),
       Entry(\h0FEF, \h00F0, \h01A0, \h0030, "arm_core_data_bit", "arm_cdata_lsr_r"),
       Entry(\h0FEF, \h00F0, \h01A0, \h0050, "arm_core_data_bit", "arm_cdata_asr_r"),
       Entry(\h0FEF, \h00F0, \h01A0, \h0070, "arm_core_data_bit", "arm_cdata_ror_r") >>

(* Register operand shifted by an immediate.                               *)
RegForms ==
    Map(RegOps, LAMBDA o : Entry(\h0FE0, \hF010, Opc(o[1]), \hF000,
                        "arm_core_data_std_r", "arm_ret_" \o o[2] \o "_r"))
    \o << Entry(\h0FEF, \hF010, \h01E0, \hF000, "arm_core_data_std_r", "arm_ret_mvn_r") >>
    \o Map(RegOps, LAMBDA o : Entry(\h0FE0, \h0010, Opc(o[1]), 0,
                        "arm_core_data_std_r", "arm_cdata_" \o o[2] \o "_r"))
    \o << Entry(\h0FEF, \h0010, \h01E0, 0, "arm_core_data_std_r", "arm_cdata_mvn_r") >>
    \o Map(TestOpNames, LAMBDA o : Entry(\h0FF0, \hF010, Opc(o[1]) + 16, 0,
                        "arm_core_data_std_r", "arm_cdata_" \o o[2] \o "_r"))

(* Register operand shifted by a register.                                 *)
RegShiftForms ==
    Map(RegOps, LAMBDA o : Entry(\h0FE0, \h0090, Opc(o[1]), \h0010,
                        "arm_core_data_std_sh", "arm_cdata_" \o o[2] \o "_rshr"))
    \o << Entry(\h0FEF, \h0090, \h01E0, \h0010, "arm_core_data_std_sh", "arm_cdata_mvn_rshr") >>
    \o Map(TestOpNames, LAMBDA o : Entry(\h0FF0, \hF090, Opc(o[1]) + 16, \h0010,
                        "arm_core_data_std_sh", "arm_cdata_" \o o[2] \o "_rshr"))

(* Rotated immediate operand; MOV/MVN have Rn = 0000, ADR is ADD/SUB with  *)
(* Rn = PC.                                                                *)
ImmForms ==
    Map(ImmRetOps, LAMBDA o : Entry(\h0FE0, \hF000, \h0200 + Opc(o[1]), \hF000,
                        "arm_core_data_std_i", "arm_ret_" \o o[2] \o "_imm"))
    \o << Entry(\h0FEF, \hF000, \h03A0, \hF000, "arm_core_data_std_i", "arm_ret_mov_imm"),
          Entry(\h0FEF, \hF000, \h03E0, \hF000, "arm_core_data_std_i", "arm_ret_mvn_imm"),
          Entry(\h0FFF, 0, \h028F, 0, "arm_core_data_std_i", "arm_cdata_adr_lbla"),
          Entry(\h0FFF, 0, \h024F, 0, "arm_core_data_std_i", "arm_cdata_adr_lblb") >>
    \o Map(RegOps, LAMBDA o : Entry(\h0FE0, 0, \h0200 + Opc(o[1]), 0,
                        "arm_core_data_std_i", "arm_cdata_" \o o[2] \o "_imm"))
    \o << Entry(\h0FEF, 0, \h03A0, 0, "arm_core_data_std_i", "arm_cdata_mov_imm"),
          Entry(\h0FEF, 0, \h03E0, 0, "arm_core_data_std_i", "arm_cdata_mvn_imm") >>
    \o Map(TestOpNames, LAMBDA o : Entry(\h0FF0, \hF000, \h0210 + Opc(o[1]), 0,
                        "arm_core_data_std_i", "arm_cdata_" \o o[2] \o "_imm"))

(* Coprocessor instructions; top = \hF000 gives the unconditional "2"     *)
(* forms (listed first), top = 0 the conditional ones.  MCRR/MRRC are the *)
(* P U D W = 0010 corner of LDC/STC and precede them.                      *)
CopForms(top, sfx) ==
    << Entry(top + \h0FF0, 0, top + \h0C40, 0, "arm_coproc", "arm_cop_mcrr" \o sfx),
       Entry(top + \h0FF0, 0, top + \h0C50, 0, "arm_coproc", "arm_cop_mrrc" \o sfx),
       Entry(top + \h0E1F, 0, top + \h0C1F, 0, "arm_coproc", "arm_cop_ldc" \o sfx \o "_pc"),
       Entry(top + \h0E10, 0, top + \h0C10, 0, "arm_coproc", "arm_cop_ldc" \o sfx),
       Entry(top + \h0E10, 0, top + \h0C00, 0, "arm_coproc", "arm_cop_stc" \o sfx),
       Entry(top + \h0F10, \h0010, top + \h0E00, \h0010, "arm_coproc", "arm_cop_mcr" \o sfx),
       Entry(top + \h0F10, \h0010, top + \h0E10, \h0010, "arm_coproc", "arm_cop_mrc" \o sfx),
       Entry(top + \h0F00, \h0010, top + \h0E00, 0, "arm_coproc", "arm_cop_cdp" \o sfx) >>
Coprocs == CopForms(\hF000, "2") \o CopForms(0, "")

(* SDIV and UDIV: cond 0111 0U01 Rd 1111 Rm 0001 Rn.                       *)
Divs ==
    << Entry(\h0FF0, \hF0F0, \h0710, \hF010, "arm_core_data_div", "arm_div_sdiv"),
       Entry(\h0FF0, \hF0F0, \h0730, \hF010, "arm_core_data_div", "arm_div_udiv") >>

(* MRS (register), resolved by the mux; CPS (1111 0001 0000 imod M 0       *)
(* 0000000 AIF 0 mode) and MRS/MSR (banked register), cond 00010 R b21 0   *)
(* SYSm Rd-or-1111 001 m 0000 0000-or-Rn, by arm_core_status.              *)
Status ==
    << Entry(\h0FBF, \h0FFF, \h010F, 0, "arm_mux", "arm_mux_mrs_r_pr"),
       Entry(\hFFF1, \hFE20, \hF100, 0, "arm_core_status", "arm_cstat_cps"),
       Entry(\h0FB0, \h0EFF, \h0100, \h0200, "arm_core_status", "arm_cstat_mrs_b"),
       Entry(\h0FB0, \hFEF0, \h0120, \hF200, "arm_core_status", "arm_cstat_msr_b") >>

(* The preload hints (literal before immediate), barriers, SETEND, CLREX  *)
(* and SWP/SWPB.                                                           *)
Miscs ==
    << Entry(\hFF7F, \hF000, \hF55F, \hF000, "arm_core_misc", "arm_misc_pld_lbl"),
       Entry(\hFF30, \hF000, \hF510, \hF000, "arm_core_misc", "arm_misc_pld_imm"),
       Entry(\hFF70, \hF000, \hF450, \hF000, "arm_core_misc", "arm_misc_pli_lbl"),
       Entry(\hFF30, \hF010, \hF710, \hF000, "arm_core_misc", "arm_misc_pld_r"),
       Entry(\hFF70, \hF010, \hF650, \hF000, "arm_core_misc", "arm_misc_pli_r"),
       Entry(\hFFFF, \hFDFF, \hF101, 0, "arm_core_misc", "arm_misc_setend"),
       Entry(\hFFFF, \hFFFF, \hF57F, \hF01F, "arm_core_misc", "arm_misc_clrex"),
       Entry(\hFFFF, \hFFF0, \hF57F, \hF040, "arm_core_misc", "arm_misc_dsb"),
       Entry(\hFFFF, \hFFF0, \hF57F, \hF050, "arm_core_misc", "arm_misc_dmb"),
       Entry(\hFFFF, \hFFF0, \hF57F, \hF060, "arm_core_misc", "arm_misc_isb"),
       Entry(\h0FB0, \h0FF0, \h0100, \h0090, "arm_core_misc", "arm_misc_swp") >>

(* The multiplies; the forms with Ra = 1111 (SMMUL, SMUAD, SMUSD) precede *)
(* the accumulating ones they are a corner of.                              *)
Macs ==
    << Entry(\h0FE0, \h00F0, \h0000, \h0090, "arm_core_data_mac", "arm_cmac_mul"),
       Entry(\h0FE0, \h00F0, \h0020, \h0090, "arm_core_data_mac", "arm_cmac_mla"),
       Entry(\h0FF0, \h00F0, \h0060, \h0090, "arm_core_data_mac", "arm_cmac_mls"),
       Entry(\h0FF0, \h00B0, \h0120, \h00A0, "arm_core_data_mac", "arm_cmac_smulw"),
       Entry(\h0FF0, \h00B0, \h0120, \h0080, "arm_core_data_mac", "arm_cmac_smlaw"),
       Entry(\h0FF0, \h0090, \h0160, \h0080, "arm_core_data_mac", "arm_cmac_smul"),
       Entry(\h0FF0, \h0090, \h0100, \h0080, "arm_core_data_mac", "arm_cmac_smla"),
       Entry(\h0FF0, \hF0D0, \h0750, \hF010, "arm_core_data_mac", "arm_cmac_smmul"),
       Entry(\h0FF0, \h00D0, \h0750, \h0010, "arm_core_data_mac", "arm_cmac_smmla"),
       Entry(\h0FF0, \h00D0, \h0750, \h00D0, "arm_core_data_mac", "arm_cmac_smmls"),
       Entry(\h0FF0, \hF0D0, \h0700, \hF010, "arm_core_data_mac", "arm_cmac_smuad"),
       Entry(\h0FF0, \hF0D0, \h0700, \hF050, "arm_core_data_mac", "arm_cmac_smusd"),
       Entry(\h0FF0, \h00D0, \h0700, \h0010, "arm_core_data_mac", "arm_cmac_smlad"),
       Entry(\h0FF0, \h00D0, \h0700, \h0050, "arm_core_data_mac", "arm_cmac_smlsd") >>

(* The 64-bit multiplies, by arm_core_data_macd.                          *)
Macds ==
    << Entry(\h0FF0, \h00F0, \h0040, \h0090, "arm_core_data_macd", "arm_cmac_umaal"),
       Entry(\h0FE0, \h00F0, \h0080, \h0090, "arm_core_data_macd", "arm_cmac_umull"),
       Entry(\h0FE0, \h00F0, \h00A0, \h0090, "arm_core_data_macd", "arm_cmac_umlal"),
       Entry(\h0FE0, \h00F0, \h00C0, \h0090, "arm_core_data_macd", "arm_cmac_smull"),
       Entry(\h0FE0, \h00F0, \h00E0, \h0090, "arm_core_data_macd", "arm_cmac_smlal"),
       Entry(\h0FF0, \h0090, \h0140, \h0080, "arm_core_data_macd", "arm_cmac_smlal16"),
       Entry(\h0FF0, \h00D0, \h0740, \h0010, "arm_core_data_macd", "arm_cmac_smlald"),
       Entry(\h0FF0, \h00D0, \h0740, \h0050, "arm_core_data_macd", "arm_cmac_smlsld") >>

(* The saturating operations.                                              *)
Sats ==
    << Entry(\h0FF0, \h0FF0, \h0100, \h0050, "arm_core_data_sat", "arm_sat_qadd"),
       Entry(\h0FF0, \h0FF0, \h0120, \h0050, "arm_core_data_sat", "arm_sat_qsub"),
       Entry(\h0FF0, \h0FF0, \h0140, \h0050, "arm_core_data_sat", "arm_sat_qdadd"),
       Entry(\h0FF0, \h0FF0, \h0160, \h0050, "arm_core_data_sat", "arm_sat_qdsub"),
       Entry(\h0FF0, \h0FF0, \h06A0, \h0F30, "arm_core_data_sat", "arm_sat_ssat16"),
       Entry(\h0FF0, \h0FF0, \h06E0, \h0F30, "arm_core_data_sat", "arm_sat_usat16"),
       Entry(\h0FE0, \h0030, \h06A0, \h0010, "arm_core_data_sat", "arm_sat_ssat"),
       Entry(\h0FE0, \h0030, \h06E0, \h0010, "arm_core_data_sat", "arm_sat_usat") >>

(* The VFP/NEON core-register transfers, in coprocessors 10 and 11; they  *)
(* precede the generic coprocessor entries they are a corner of, and the   *)
(* FPSCR forms of VMRS/VMSR precede the general ones.                      *)
VfpXfers ==
    << Entry(\h0FFF, \h0FFF, \h0EF1, \h0A10, "arm_vfp_xfer_reg", "arm_vfpxfer_vmrs_fpscr"),
       Entry(\h0FF0, \h0FFF, \h0EF0, \h0A10, "arm_vfp_xfer_reg", "arm_vfpxfer_vmrs_r"),
       Entry(\h0FFF, \h0FFF, \h0EE1, \h0A10, "arm_vfp_xfer_reg", "arm_vfpxfer_vmsr_fpscr"),
       Entry(\h0FF0, \h0FFF, \h0EE0, \h0A10, "arm_vfp_xfer_reg", "arm_vfpxfer_vmsr_r"),
       Entry(\h0FE0, \h0FD0, \h0C40, \h0A10, "arm_vfp_xfer_reg", "arm_vfpxfer_vmov_ss"),
       Entry(\h0FE0, \h0FD0, \h0C40, \h0B10, "arm_vfp_xfer_reg", "arm_vfpxfer_vmov_d"),
       Entry(\h0FE0, \h0F7F, \h0E00, \h0A10, "arm_vfp_xfer_reg", "arm_vfpxfer_vmov_s"),
       Entry(\h0F90, \h0F5F, \h0E80, \h0B10, "arm_vfp_xfer_reg", "arm_vfpxfer_vdup"),
       Entry(\h0F90, \h0F1F, \h0E00, \h0B10, "arm_vfp_xfer_reg", "arm_vfpxfer_vmov_dx"),
       Entry(\h0F10, \h0F1F, \h0E10, \h0B10, "arm_vfp_xfer_reg", "arm_vfpxfer_vmov_dt_dx") >>

(* The extension-register loads and stores in coprocessors 10 (S) and 11 *)
(* (D) and the VFP data-processing entries arm_fp() takes; VLDR/VSTR       *)
(* (P = 1, W = 0) and VPUSH/VPOP (Rn = SP) precede the VLDM/VSTM pattern   *)
(* they are corners of, and all precede the generic coprocessor entries.   *)
Vldsts ==
    << Entry(\h0F30, \h0F00, \h0D10, \h0B00, "arm_vfp_ldst_ext", "arm_vldstx_vldr_d_imm"),
       Entry(\h0F30, \h0F00, \h0D10, \h0A00, "arm_vfp_ldst_ext", "arm_vldstx_vldr_s_imm"),
       Entry(\h0F30, \h0F00, \h0D00, \h0B00, "arm_vfp_ldst_ext", "arm_vldstx_vstr_d_imm"),
       Entry(\h0F30, \h0F00, \h0D00, \h0A00, "arm_vfp_ldst_ext", "arm_vldstx_vstr_s_imm"),
       Entry(\h0FBF, \h0F00, \h0D2D, \h0B00, "arm_vfp_ldst_ext", "arm_vldstx_vpush64"),
       Entry(\h0FBF, \h0F00, \h0D2D, \h0A00, "arm_vfp_ldst_ext", "arm_vldstx_vpush32"),
       Entry(\h0FBF, \h0F00, \h0CBD, \h0B00, "arm_vfp_ldst_ext", "arm_vldstx_vpop64"),
       Entry(\h0FBF, \h0F00, \h0CBD, \h0A00, "arm_vfp_ldst_ext", "arm_vldstx_vpop32"),
       Entry(\h0E10, \h0F00, \h0C10, \h0B00, "arm_vfp_ldst_ext", "arm_vldstx_vldm64"),
       Entry(\h0E10, \h0F00, \h0C10, \h0A00, "arm_vfp_ldst_ext", "arm_vldstx_vldm32"),
       Entry(\h0E10, \h0F00, \h0C00, \h0B00, "arm_vfp_ldst_ext", "arm_vldstx_vstm64"),
       Entry(\h0E10, \h0F00, \h0C00, \h0A00, "arm_vfp_ldst_ext", "arm_vldstx_vstm32"),
       Entry(\h0FB0, \h0E50, \h0E80, \h0A00, "arm_fp", "arm_fp_vdiv"),
       Entry(\h0FBF, \h0E50, \h0EB4, \h0A40, "arm_fp", "arm_fp_vcmp_r") >>

(* The unconditional Advanced SIMD space: the element and structure       *)
(* loads and stores 1111 0100 A D L 0 (the multiple-structure forms, A = 0, *)
(* through the arm_mux type switch; the all-lanes forms, size field 11,    *)
(* before the one-lane forms), and one data-processing form for each of    *)
(* the SIMD handlers.  They precede the data-processing and load/store     *)
(* entries whose masks leave the top nibble out.                           *)
ElemEntry(L, n, lo, mlo, form) ==
    Entry(\hFFB0, mlo, \hF480 + 32 * L, lo + 256 * (n - 1), "arm_vfp_ldst_elem",
          "arm_vldste_" \o (IF L = 1 THEN "vld" ELSE "vst") \o <<"1", "2", "3", "4">>[n] \o "_" \o form)
Elems ==
    << Entry(\hFFB0, 0, \hF400, 0, "arm_mux", "arm_mux_vst_type"),
       Entry(\hFFB0, 0, \hF420, 0, "arm_mux", "arm_mux_vld_type") >>
    \o [j \in 1 .. 4 |-> ElemEntry(1, j, \h0C00, \h0F00, "all")]
    \o [j \in 1 .. 8 |-> ElemEntry(IF j > 4 THEN 1 ELSE 0, 1 + ((j - 1) % 4), 0, \h0300, "one")]
(* The NEON encodings arm_mux tells apart: the one-register modified     *)
(* immediate forms (imm3 = 000, bit 7 = 0) by op, before the shift forms  *)
(* that share the space (VSHR, opc 0000, in the same case as VORR/VMOV);   *)
(* then VSHRN/VQSHR{U}N, VRSHRN/VQRSHR{U}N, VSHLL/VMOVL, VMOVN/VQMOV{U}N  *)
(* and VORR/VMOV (register).                                               *)
NeonMuxes ==
    << Entry(\hFEB8, \h00B0, \hF280, \h0030, "arm_mux", "arm_mux_vbic_vmvn"),
       Entry(\hFEB8, \h00B0, \hF280, \h0010, "arm_mux", "arm_mux_vorr_i_vmov_i"),
       Entry(\hFE80, \h0F10, \hF280, \h0010, "arm_mux", "arm_mux_vorr_i_vmov_i"),
       Entry(\hFE80, \h0ED0, \hF280, \h0810, "arm_mux", "arm_mux_vshrn_q_imm"),
       Entry(\hFE80, \h0ED0, \hF280, \h0850, "arm_mux", "arm_mux_vrshrn_q_imm"),
       Entry(\hFE80, \h0FD0, \hF280, \h0A10, "arm_mux", "arm_mux_vshll_i_vmovl"),
       Entry(\hFFB3, \h0F10, \hF3B2, \h0200, "arm_mux", "arm_mux_vmovn_q"),
       Entry(\hFFB0, \h0F10, \hF220, \h0110, "arm_mux", "arm_mux_vorr_vmov_nm") >>
Simds ==
    << Entry(\hFFB0, \h0F10, \hF200, \h0110, "arm_v_bits", "arm_vbits_vand"),
       Entry(\hFF80, \h0F10, \hF300, \h0810, "arm_v_comp", "arm_vcmp_vceq"),
       Entry(\hFF80, \h0F10, \hF200, \h0900, "arm_v_mac", "arm_vmac_vmla"),
       Entry(\hFF80, \h0F10, \hF200, \h0B10, "arm_v_par", "arm_vpar_vpadd"),
       Entry(\hFFB3, \h0F90, \hF3B0, \h0500, "arm_v_misc", "arm_vmisc_vcnt"),
       Entry(\hFE80, \h0F10, \hF200, \h0400, "arm_v_shift", "arm_vshift_vshl") >>

(* The bit-field, reverse, select and sum-of-differences instructions of  *)
(* arm_core_data_misc; BFC (Rn = 1111) precedes BFI and USAD8 (Ra = 1111)  *)
(* precedes USADA8.                                                        *)
DataMiscs ==
    << Entry(\h0FF0, 0, \h0300, 0, "arm_core_data_misc", "arm_cmisc_movw"),
       Entry(\h0FF0, 0, \h0340, 0, "arm_core_data_misc", "arm_cmisc_movt"),
       Entry(\h0FFF, \h0FF0, \h016F, \h0F10, "arm_core_data_misc", "arm_cmisc_clz"),
       Entry(\h0FE0, \h007F, \h07C0, \h001F, "arm_core_data_misc", "arm_cmisc_bfc"),
       Entry(\h0FE0, \h0070, \h07C0, \h0010, "arm_core_data_misc", "arm_cmisc_bfi"),
       Entry(\h0FFF, \h0FF0, \h06FF, \h0F30, "arm_core_data_misc", "arm_cmisc_rbit"),
       Entry(\h0FFF, \h0FF0, \h06BF, \h0F30, "arm_core_data_misc", "arm_cmisc_rev"),
       Entry(\h0FFF, \h0FF0, \h06BF, \h0FB0, "arm_core_data_misc", "arm_cmisc_rev16"),
       Entry(\h0FFF, \h0FF0, \h06FF, \h0FB0, "arm_core_data_misc", "arm_cmisc_revsh"),
       Entry(\h0FE0, \h0070, \h07A0, \h0050, "arm_core_data_misc", "arm_cmisc_sbfx"),
       Entry(\h0FE0, \h0070, \h07E0, \h0050, "arm_core_data_misc", "arm_cmisc_ubfx"),
       Entry(\h0FF0, \h0FF0, \h0680, \h0FB0, "arm_core_data_misc", "arm_cmisc_sel"),
       Entry(\h0FF0, \hF0F0, \h0780, \hF010, "arm_core_data_misc", "arm_cmisc_usad8"),
       Entry(\h0FF0, \h00F0, \h0780, \h0010, "arm_core_data_misc", "arm_cmisc_usada8") >>

(* The pack and extend forms: the forms without Rn (bits 19-16 = 1111)    *)
(* precede the accumulating forms they are a corner of.                    *)
Packs ==
    << Entry(\h0FF0, \h0030, \h0680, \h0010, "arm_core_data_pack", "arm_pack_pkh"),
       Entry(\h0FFF, \h03F0, \h068F, \h0070, "arm_core_data_pack", "arm_pack_sxtb16"),
       Entry(\h0FF0, \h03F0, \h0680, \h0070, "arm_core_data_pack", "arm_pack_sxtab16"),
       Entry(\h0FFF, \h03F0, \h06AF, \h0070, "arm_core_data_pack", "arm_pack_sxtb"),
       Entry(\h0FF0, \h03F0, \h06A0, \h0070, "arm_core_data_pack", "arm_pack_sxtab"),
       Entry(\h0FFF, \h03F0, \h06BF, \h0070, "arm_core_data_pack", "arm_pack_sxth"),
       Entry(\h0FF0, \h03F0, \h06B0, \h0070, "arm_core_data_pack", "arm_pack_sxtah"),
       Entry(\h0FFF, \h03F0, \h06CF, \h0070, "arm_core_data_pack", "arm_pack_uxtb16"),
       Entry(\h0FF0, \h03F0, \h06C0, \h0070, "arm_core_data_pack", "arm_pack_uxtab16"),
       Entry(\h0FFF, \h03F0, \h06EF, \h0070, "arm_core_data_pack", "arm_pack_uxtb"),
       Entry(\h0FF0, \h03F0, \h06E0, \h0070, "arm_core_data_pack", "arm_pack_uxtab"),
       Entry(\h0FFF, \h03F0, \h06FF, \h0070, "arm_core_data_pack", "arm_pack_uxth"),
       Entry(\h0FF0, \h03F0, \h06F0, \h0070, "arm_core_data_pack", "arm_pack_uxtah") >>

(* The parallel add/subtract entries: bits 27-20 = 0110 0 U op1 (op1 = 01, *)
(* 10, 11) and bits 11-4 = 1111 op2 1, one per prefix and kind.            *)
Pars ==
    << Entry(\h0FF0, \h0FF0, \h0610, \h0F10, "arm_core_data_par", "arm_par_sadd16"),
       Entry(\h0FF0, \h0FF0, \h0610, \h0F30, "arm_core_data_par", "arm_par_sasx"),
       Entry(\h0FF0, \h0FF0, \h0610, \h0F50, "arm_core_data_par", "arm_par_ssax"),
       Entry(\h0FF0, \h0FF0, \h0610, \h0F70, "arm_core_data_par", "arm_par_ssub16"),
       Entry(\h0FF0, \h0FF0, \h0610, \h0F90, "arm_core_data_par", "arm_par_sadd8"),
       Entry(\h0FF0, \h0FF0, \h0610, \h0FF0, "arm_core_data_par", "arm_par_ssub8"),
       Entry(\h0FF0, \h0FF0, \h0620, \h0F10, "arm_core_data_par", "arm_par_qadd16"),
       Entry(\h0FF0, \h0FF0, \h0620, \h0F30, "arm_core_data_par", "arm_par_qasx"),
       Entry(\h0FF0, \h0FF0, \h0620, \h0F50, "arm_core_data_par", "arm_par_qsax"),
       Entry(\h0FF0, \h0FF0, \h0620, \h0F70, "arm_core_data_par", "arm_par_qsub16"),
       Entry(\h0FF0, \h0FF0, \h0620, \h0F90, "arm_core_data_par", "arm_par_qadd8"),
       Entry(\h0FF0, \h0FF0, \h0620, \h0FF0, "arm_core_data_par", "arm_par_qsub8"),
       Entry(\h0FF0, \h0FF0, \h0630, \h0F10, "arm_core_data_par", "arm_par_shadd16"),
       Entry(\h0FF0, \h0FF0, \h0630, \h0F30, "arm_core_data_par", "arm_par_shasx"),
       Entry(\h0FF0, \h0FF0, \h0630, \h0F50, "arm_core_data_par", "arm_par_shsax"),
       Entry(\h0FF0, \h0FF0, \h0630, \h0F70, "arm_core_data_par", "arm_par_shsub16"),
       Entry(\h0FF0, \h0FF0, \h0630, \h0F90, "arm_core_data_par", "arm_par_shadd8"),
       Entry(\h0FF0, \h0FF0, \h0630, \h0FF0, "arm_core_data_par", "arm_par_shsub8"),
       Entry(\h0FF0, \h0FF0, \h0650, \h0F10, "arm_core_data_par", "arm_par_uadd16"),
       Entry(\h0FF0, \h0FF0, \h0650, \h0F30, "arm_core_data_par", "arm_par_uasx"),
       Entry(\h0FF0, \h0FF0, \h0650, \h0F50, "arm_core_data_par", "arm_par_usax"),
       Entry(\h0FF0, \h0FF0, \h0650, \h0F70, "arm_core_data_par", "arm_par_usub16"),
       Entry(\h0FF0, \h0FF0, \h0650, \h0F90, "arm_core_data_par", "arm_par_uadd8"),
       Entry(\h0FF0, \h0FF0, \h0650, \h0FF0, "arm_core_data_par", "arm_par_usub8"),
       Entry(\h0FF0, \h0FF0, \h0660, \h0F10, "arm_core_data_par", "arm_par_uqadd16"),
       Entry(\h0FF0, \h0FF0, \h0660, \h0F30, "arm_core_data_par", "arm_par_uqasx"),
       Entry(\h0FF0, \h0FF0, \h0660, \h0F50, "arm_core_data_par", "arm_par_uqsax"),
       Entry(\h0FF0, \h0FF0, \h0660, \h0F70, "arm_core_data_par", "arm_par_uqsub16"),
       Entry(\h0FF0, \h0FF0, \h0660, \h0F90, "arm_core_data_par", "arm_par_uqadd8"),
       Entry(\h0FF0, \h0FF0, \h0660, \h0FF0, "arm_core_data_par", "arm_par_uqsub8"),
       Entry(\h0FF0, \h0FF0, \h0670, \h0F10, "arm_core_data_par", "arm_par_uhadd16"),
       Entry(\h0FF0, \h0FF0, \h0670, \h0F30, "arm_core_data_par", "arm_par_uhasx"),
       Entry(\h0FF0, \h0FF0, \h0670, \h0F50, "arm_core_data_par", "arm_par_uhsax"),
       Entry(\h0FF0, \h0FF0, \h0670, \h0F70, "arm_core_data_par", "arm_par_uhsub16"),
       Entry(\h0FF0, \h0FF0, \h0670, \h0F90, "arm_core_data_par", "arm_par_uhadd8"),
       Entry(\h0FF0, \h0FF0, \h0670, \h0FF0, "arm_core_data_par", "arm_par_uhsub8") >>

(* The exception entries: ERET, BKPT, HVC, SMC and SVC by their fixed bits *)
(* and the condition free; UDF; RFE and SRS in the unconditional space      *)
(* (bits 31-25 = 1111 100, ahead of LDM/STM, which they would match).      *)
Excs ==
    << Entry(\h0FFF, \hFFFF, \h0160, \h006E, "arm_core_exc", "arm_exc_eret"),
       Entry(\h0FF0, \h00F0, \h0120, \h0070, "arm_core_exc", "arm_exc_bkpt"),
       Entry(\h0FF0, \h00F0, \h0140, \h0070, "arm_core_exc", "arm_exc_hvc"),
       Entry(\h0FFF, \hFFF0, \h0160, \h0070, "arm_core_exc", "arm_exc_smc"),
       Entry(\h0F00, 0, \h0F00, 0, "arm_core_exc", "arm_exc_svc"),
       Entry(\hFFF0, \h00F0, \hE7F0, \h00F0, "arm_core_exc", "arm_exc_udf"),
       Entry(\hFE50, \hFFFF, \hF810, \h0A00, "arm_core_exc", "arm_exc_rfe"),
       Entry(\hFE5F, \hFFE0, \hF84D, \h0500, "arm_core_exc", "arm_exc_srs") >>

(* The multiple loads and stores: POP {Rt} (LDR Rt, [SP], #4) and PUSH   *)
(* {Rt} (STR Rt, [SP, #-4]!) precede the single load/store entries they   *)
(* are a corner of; LDM/STM are bits 27-25 = 100.                         *)
PopPushes ==
    << Entry(\h0FFF, \h0FFF, \h049D, \h0004, "arm_core_ldstm", "arm_cldstm_pop_r"),
       Entry(\h0FFF, \h0FFF, \h052D, \h0004, "arm_core_ldstm", "arm_cldstm_push_r") >>
Ldstms ==
    << Entry(\h0E00, 0, \h0800, 0, "arm_core_ldstm", "arm_cldstm_ldstm") >>

(* The extra loads and stores: bits 27-25 = 000 and bits 7-4 = 1 op2 1,    *)
(* op2 = 01 LDRH/STRH, 10 LDRSB and 11 LDRSH (L = 1; L = 0 is LDRD/STRD). *)
(* The handlers ignore their extra.                                        *)
ExtraLdsts ==
    << Entry(\h0E00, \h00F0, 0, \h00B0, "arm_core_ldstrh", "arm_ldstrh"),
       Entry(\h0E10, \h00F0, \h0010, \h00D0, "arm_core_ldstrsb", "arm_ldstrsb"),
       Entry(\h0E10, \h00F0, \h0010, \h00F0, "arm_core_ldstsh", "arm_ldstsh") >>

(* LDRD/STRD: the extra load/store space with L = 0 and bits 7-4 = 11x1   *)
(* (1101 LDRD, 1111 STRD), one entry for both.                             *)
Duals ==
    << Entry(\h0E10, \h00D0, 0, \h00D0, "arm_core_ldstrd", "arm_ldstrd") >>

(* The synchronisation primitives LDREX/STREX and their D, B, H forms:     *)
(* 0001 1 size L, bits 11-4 = 11111001, bits 3-0 = 1111 for a load.        *)
Excls ==
    << Entry(\h0FF0, \h0FFF, \h0190, \h0F9F, "arm_core_ldstrex", "arm_sync_ldrex"),
       Entry(\h0FF0, \h0FFF, \h01B0, \h0F9F, "arm_core_ldstrex", "arm_sync_ldrexd"),
       Entry(\h0FF0, \h0FFF, \h01D0, \h0F9F, "arm_core_ldstrex", "arm_sync_ldrexb"),
       Entry(\h0FF0, \h0FFF, \h01F0, \h0F9F, "arm_core_ldstrex", "arm_sync_ldrexh"),
       Entry(\h0FF0, \h0FF0, \h0180, \h0F90, "arm_core_ldstrex", "arm_sync_strex"),
       Entry(\h0FF0, \h0FF0, \h01A0, \h0F90, "arm_core_ldstrex", "arm_sync_strexd"),
       Entry(\h0FF0, \h0FF0, \h01C0, \h0F90, "arm_core_ldstrex", "arm_sync_strexb"),
       Entry(\h0FF0, \h0FF0, \h01E0, \h0F90, "arm_core_ldstrex", "arm_sync_strexh") >>

(* The single loads and stores: an immediate offset, or a register offset *)
(* with bit 4 clear (bit 4 set with I = 1 is the media space).             *)
Ldsts ==
    << Entry(\h0E00, 0, \h0400, 0, "arm_core_ldst", "arm_ldst_imm"),
       Entry(\h0E00, \h0010, \h0600, 0, "arm_core_ldst", "arm_ldst_r") >>

ARM_decode_table ==
    Branches \o Hints \o Elems \o NeonMuxes \o Simds \o Shifts \o RegForms \o RegShiftForms \o ImmForms
    \o VfpXfers \o Vldsts \o Coprocs \o Divs \o Status \o Miscs \o Macs \o Macds \o Sats \o DataMiscs \o Packs \o Pars \o Excs
    \o PopPushes \o Ldsts \o Ldstms \o ExtraLdsts \o Duals \o Excls

(* (instr & mask) == data, bit by bit, from bit 31 down (the opcode bits  *)
(* tell most entries apart).                                               *)
Matches(instr, e) == \A j \in 0 .. 31 : instr[31 - j] * e.mask[31 - j] = e.data[31 - j]
=============================================================================
