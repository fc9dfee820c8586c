------------------------------ MODULE ArmVldst ------------------------------
(***************************************************************************)
(* arm_vfp_ldst_ext(): VLDR/VSTR, VPUSH/VPOP and VLDM/VSTM; and            *)
(* arm_vfp_ldst_elem(): the Advanced SIMD element and structure loads and  *)
(* stores VLDn/VSTn (multiple structures, one lane, all lanes).            *)
(***************************************************************************)
EXTENDS ArmVfp, Sequences

VldrExtras == {"arm_vldstx_vldr_d_imm", "arm_vldstx_vldr_s_imm",
               "arm_vldstx_vstr_d_imm", "arm_vldstx_vstr_s_imm"}
VpushExtras == {"arm_vldstx_vpop32", "arm_vldstx_vpop64",
                "arm_vldstx_vpush32", "arm_vldstx_vpush64"}
VldmExtras == {"arm_vldstx_vldm32", "arm_vldstx_vldm64",
               "arm_vldstx_vstm32", "arm_vldstx_vstm64"}

(* bits(instr, 0xd << 21): P (24), U (23) and W (21) packed as P:U:W.     *)
VldmPUW(instr) == 4 * bit(instr, 24) + 2 * bit(instr, 23) + bit(instr, 21)

(* The Rn = PC switch on PUW: tmp4 from the snapshot's r15 (no + 8) and    *)
(* "registers << 2", the imm8 word count in bytes; IA without writeback   *)
(* (2) and the UNDEFINED forms (1, 7) keep r15.  The table's VLDM/VSTM     *)
(* entries give no other PUW (0 is a 64-bit VMOV, 4 and 6 VLDR/VSTR).      *)
VldmPCTarget(instr, ctx) ==
    LET puw == VldmPUW(instr)
        size == 4 * bitrng(instr, 7, 0)
    IN CASE puw = 3 -> U(ctx.r[15] + size)
         [] puw = 5 -> U(ctx.r[15] - size)
         [] puw \in {1, 2, 7} -> ctx.r[15]

(* VLDR/VSTR leave the base alone; VPUSH/VPOP flag an empty list only;    *)
(* VLDM/VSTM count PUW = 1 or 7 as UNDEFINED and, with Rn = PC, return    *)
(* the written-back (or unchanged) PC as an ARM target, unflagged.  The   *)
(* default case keeps set_undef_addr().                                    *)
arm_vfp_ldst_ext(instr, extra, ctx) ==
    CASE extra \in VldrExtras -> set_addr_lin
      [] extra \in VpushExtras -> Finish(set_addr_lin, FALSE, bitrng(instr, 7, 0) = 0)
      [] extra \in VldmExtras ->
           Finish(IF bitrng(instr, 19, 16) = 15 THEN set_arm_addr(VldmPCTarget(instr, ctx))
                  ELSE set_addr_lin,
                  VldmPUW(instr) \in {1, 7}, FALSE)
      [] OTHER -> set_undef_addr

(* The extras of the element handler: vld/vst, the structure count n and *)
(* the form (multiple structures, one lane, all lanes; only loads have    *)
(* the all-lanes form).                                                    *)
ElemExtra(dir, n, form) == "arm_vldste_" \o dir \o n \o "_" \o form
ElemCounts == {"1", "2", "3", "4"}
ElemExtras ==
    {ElemExtra(d, n, f) : d \in {"vld", "vst"}, n \in ElemCounts, f \in {"mult", "one"}}
    \cup {ElemExtra("vld", n, "all") : n \in ElemCounts}
ElemN(extra) ==
    CHOOSE n \in ElemCounts : \E d \in {"vld", "vst"}, f \in {"mult", "one", "all"} :
        extra = ElemExtra(d, n, f)
ElemForm(extra) ==
    CHOOSE f \in {"mult", "one", "all"} : \E d \in {"vld", "vst"}, n \in ElemCounts :
        extra = ElemExtra(d, n, f)

(* "und++" of each case: align (5-4) against the type (11-8) or size      *)
(* (7-6) of the multiple forms, index_align (7-4) against the size (11-10) *)
(* of the one-lane forms, size (7-6) and a (4) of the all-lanes forms.     *)
(* The one-lane VLD4 counts index_align<1:0> 01 and 10 as well as 11.      *)
ElemUnd(instr, extra) ==
    LET n == ElemN(extra)
        f == ElemForm(extra)
        type == bitrng(instr, 11, 8)
        align == bitrng(instr, 5, 4)
        sz == bitrng(instr, 7, 6)
        size == bitrng(instr, 11, 10)
        ia == bitrng(instr, 7, 4)
    IN CASE extra \notin ElemExtras -> FALSE
         [] f = "mult" /\ n = "1" -> (type \in {6, 7} /\ align >= 2) \/ (type = 10 /\ align = 3)
         [] f = "mult" /\ n = "2" -> sz = 3 \/ (type \in {8, 9} /\ align = 3)
         [] f = "mult" /\ n = "3" -> bit(instr, 5) = 1 \/ sz = 3
         [] f = "mult" /\ n = "4" -> sz = 3
         [] f = "one" /\ n = "1" ->
              \/ size = 0 /\ wbit(ia, 0) = 1
              \/ size = 1 /\ wbit(ia, 1) = 1
              \/ size = 2 /\ (wbit(ia, 2) = 1 \/ (ia % 4) \in {1, 2})
         [] f = "one" /\ n = "2" -> size = 2 /\ wbit(ia, 1) = 1
         [] f = "one" /\ n = "3" -> (size \in {0, 1} /\ wbit(ia, 0) = 1) \/ (size = 2 /\ ia % 4 # 0)
         [] f = "one" /\ n = "4" -> size = 2 /\ ia % 4 # 0
         [] n = "1" -> sz = 3 \/ (sz = 0 /\ bit(instr, 4) = 1)
         [] n = "2" -> sz = 3
         [] n = "3" -> sz = 3 \/ bit(instr, 4) = 1
         [] OTHER -> sz = 3 /\ bit(instr, 4) = 0

(* No case assigns retval: the Rn = PC block that would (set_addr_lin, or *)
(* the written-back PC) follows the "break" of the vld4_all case and is    *)
(* never reached, so "if (und) ..." finds the initial set_undef_addr()     *)
(* whatever the count.                                                     *)
arm_vfp_ldst_elem(instr, extra) == Finish(set_undef_addr, ElemUnd(instr, extra), FALSE)
=============================================================================
