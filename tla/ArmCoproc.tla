------------------------------ MODULE ArmCoproc ------------------------------
(***************************************************************************)
(* arm_coproc(): MCR/MRC, MCRR/MRRC, LDC/STC and CDP (and their "2"        *)
(* forms).  Only the classification matters: the handler never computes a *)
(* value, it answers UNDEFINED, linear, or linear flagged UNPREDICTABLE.   *)
(***************************************************************************)
EXTENDS ArmBits

(* Coprocessors 8, 9, 12 and 13 are reserved: UNDEFINED.                   *)
ReservedCoproc == {8, 9, 12, 13}

LinUnpred == set_unpred_addr(set_addr_lin)

(* LDC/STC: P U D W = 0000 is UNDEFINED, any other addressing mode is      *)
(* answered linear but UNPREDICTABLE.                                      *)
(* Mutant: the P U D W test left out.                                      *)
LdcStc_nocheck(instr) == LinUnpred
LdcStc(instr) == IF bitrng(instr, 24, 21) # 0 THEN LinUnpred ELSE set_undef_addr

arm_coproc(instr, extra) ==
    IF bitrng(instr, 11, 8) \in ReservedCoproc THEN set_undef_addr
    ELSE CASE extra \in {"arm_cop_mcrr2", "arm_cop_mcrr"} ->
                  IF 15 \in {bitrng(instr, 19, 16), bitrng(instr, 15, 12)}
                  THEN LinUnpred ELSE set_addr_lin
           [] extra \in {"arm_cop_mcr2", "arm_cop_mcr"} ->
                  IF bitrng(instr, 15, 12) \in {13, 15}
                  THEN LinUnpred ELSE set_addr_lin
           [] extra \in {"arm_cop_ldc2", "arm_cop_ldc", "arm_cop_ldc2_pc",
                         "arm_cop_ldc_pc", "arm_cop_stc2", "arm_cop_stc"} ->
                  LdcStc(instr)
           [] extra \in {"arm_cop_mrrc2", "arm_cop_mrrc", "arm_cop_mrc2",
                         "arm_cop_mrc", "arm_cop_cdp2", "arm_cop_cdp"} ->
                  LinUnpred
           [] OTHER -> set_undef_addr        \* "shouldn't get here"
=============================================================================
