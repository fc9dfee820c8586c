------------------------------- MODULE ArmMisc -------------------------------
(***************************************************************************)
(* arm_core_misc(): SETEND, CLREX, the barriers, the preload hints and     *)
(* SWP/SWPB.  retval starts as set_undef_addr() and each case overwrites   *)
(* it only where it assigns.                                               *)
(***************************************************************************)
EXTENDS ArmBits

LinUnpredMisc == set_unpred_addr(set_addr_lin)

NoFlowExtras == {"arm_misc_sev", "arm_misc_dbg", "arm_misc_setend",
                 "arm_misc_clrex", "arm_misc_dmb", "arm_misc_dsb",
                 "arm_misc_isb", "arm_misc_pld_imm", "arm_misc_pld_lbl",
                 "arm_misc_pli_lbl"}

(* PLD/PLDW (register) falls through into PLI (register): "if (bit(instr,  *)
(* 22) && n == 15)" flags it, then "if (m == 15)" flags it; neither        *)
(* assigning leaves UNDEFINED.                                             *)
PreloadReg(instr, extra) ==
    LET pldw_pc == extra = "arm_misc_pld_r" /\ bit(instr, 22) = 1
                     /\ bitrng(instr, 19, 16) = 15
    IN IF pldw_pc \/ bitrng(instr, 3, 0) = 15 THEN LinUnpredMisc
       ELSE set_undef_addr

(* SWP/SWPB: UNPREDICTABLE for t, t2 or n = 15 or n = t or n = t2; with    *)
(* Rt = PC the target is the word (bit 22 set) or byte at (Rn), mem.       *)
(* Mutant: the n = t and n = t2 tests left out.                            *)
Swp_noalias(instr, mem) ==
    LET n == bitrng(instr, 19, 16)
        t == bitrng(instr, 15, 12)
        t2 == bitrng(instr, 3, 0)
        r == IF t = 15 THEN set_arm_addr(IF bit(instr, 22) = 1 THEN mem
                                        ELSE wbitrng(mem, 7, 0))
             ELSE set_addr_lin
    IN IF 15 \in {n, t, t2} THEN set_unpred_addr(r) ELSE r
Swp(instr, mem) ==
    LET n == bitrng(instr, 19, 16)
        t == bitrng(instr, 15, 12)
        t2 == bitrng(instr, 3, 0)
        r == IF t = 15 THEN set_arm_addr(IF bit(instr, 22) = 1 THEN mem
                                        ELSE wbitrng(mem, 7, 0))
             ELSE set_addr_lin
    IN IF 15 \in {n, t, t2} \/ n = t \/ n = t2 THEN set_unpred_addr(r) ELSE r

arm_core_misc(instr, extra, mem) ==
    CASE extra \in NoFlowExtras -> set_addr_lin
      [] extra \in {"arm_misc_pld_r", "arm_misc_pli_r"} -> PreloadReg(instr, extra)
      [] extra = "arm_misc_swp" -> Swp(instr, mem)
      [] OTHER -> set_undef_addr                  \* "just in case..."
=============================================================================
