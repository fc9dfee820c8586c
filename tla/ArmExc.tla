------------------------------- MODULE ArmExc -------------------------------
(***************************************************************************)
(* arm_core_exc(): ERET, BKPT, HVC, SMC, SVC, UDF, RFE and SRS, decided by *)
(* the current mode (check_proc_mode() on the CPSR of the snapshot), the   *)
(* security state (get_security_state()), SCR.HCE and SCR.SCD (get_SCR()   *)
(* bits 8 and 7) and HCR.TSC and HCR.TGE (get_HCR() bits 19 and 27), the   *)
(* sec fields of the snapshot.  get_elr_hyp() and check_coproc_access()    *)
(* read registers the snapshot does not hold: g, a value of Garbage.       *)
(***************************************************************************)
EXTENDS ArmLdst

ExcExtras == {"arm_exc_eret", "arm_exc_bkpt", "arm_exc_hvc", "arm_exc_smc",
              "arm_exc_svc", "arm_exc_udf", "arm_exc_rfe", "arm_exc_srs"}

(* ERET: Hyp returns to ELR_hyp, flagged ("we don't support hyp"); User   *)
(* and System are UNDEFINED; any other mode returns to the snapshot's lr   *)
(* as an ARM address.                                                      *)
Eret(ctx, g) ==
    CASE ctx.cpsr.mode = Modes.hyp -> set_unpred_addr(set_arm_addr(g))
      [] ctx.cpsr.mode \in {Modes.usr, Modes.sys} -> set_undef_addr
      [] OTHER -> set_arm_addr(ctx.r[14])

(* HVC: UNDEFINED in Secure state and in User mode; with SCR.HCE clear the *)
(* inner "User mode" test is dead and the call is UNDEFINED; with HCE set  *)
(* the call is stepped over.                                               *)
Hvc(ctx) ==
    CASE ctx.sec.secure = 1 -> set_undef_addr
      [] ctx.cpsr.mode = Modes.usr -> set_undef_addr
      [] ctx.sec.hce = 0 -> set_undef_addr
      [] OTHER -> set_addr_lin

(* Mutant: SCR.SCD tested before the HCR.TSC trap.                        *)
Smc_scdfirst(ctx) ==
    CASE ctx.cpsr.mode = Modes.usr -> set_undef_addr
      [] ctx.sec.scd = 1 /\ ctx.sec.secure = 0 -> set_undef_addr
      [] ctx.sec.tsc = 1 /\ ctx.sec.secure = 0 -> set_addr_lin
      [] OTHER -> set_addr_lin

(* SMC: UNDEFINED in User mode; trapped by HCR.TSC from Non-secure, and    *)
(* stepped over; with SCR.SCD set UNDEFINED from Non-secure and stepped    *)
(* over from Secure; else stepped over.                                    *)
Smc(ctx) ==
    CASE ctx.cpsr.mode = Modes.usr -> set_undef_addr
      [] ctx.sec.tsc = 1 /\ ctx.sec.secure = 0 -> set_addr_lin
      [] ctx.sec.scd = 1 /\ ctx.sec.secure = 0 -> set_undef_addr
      [] OTHER -> set_addr_lin

(* The address RFE loads from, by bits(instr, 0x01800000) = P:U: DA Rn - 4,*)
(* IA Rn, DB "tmp2 -= 4; *(tmp2 - 8)" = Rn - 12, IB "tmp2 += 4;            *)
(* *(tmp2 + 4)" = Rn + 8.                                                  *)
RfeSlot(instr, tmp2) ==
    CASE bitrng(instr, 24, 23) = 0 -> U(tmp2 - 4)
      [] bitrng(instr, 24, 23) = 1 -> tmp2
      [] bitrng(instr, 24, 23) = 2 -> U(tmp2 - 12)
      [] OTHER -> U(tmp2 + 8)

(* RFE: UNDEFINED in Hyp; otherwise the word at the slot, from Rn read     *)
(* without the PC's + 8, as an ARM address.  The ThumbEE test "cpsr &      *)
(* 0x01000020 == 0x01000020" parses as "cpsr & 1", bit 0 of the mode,      *)
(* which is clear in User mode, so the flag is never set.                  *)
Rfe(instr, ctx) ==
    LET r == set_arm_addr(LoadWord(ctx, RfeSlot(instr, ctx.r[bitrng(instr, 19, 16)])))
    IN CASE ctx.cpsr.mode = Modes.hyp -> set_undef_addr
         [] ctx.cpsr.mode = Modes.usr /\ ctx.cpsr.mode % 2 = 1 -> set_unpred_addr(r)
         [] OTHER -> r

(* SRS: UNDEFINED in Hyp; otherwise linear, flagged from User or System,  *)
(* for the target mode (bits 4-0) Hyp, and for the CURRENT mode Monitor    *)
(* from Non-secure or FIQ with check_coproc_access(16) from Non-secure.    *)
Srs(instr, ctx, g) ==
    CASE ctx.cpsr.mode = Modes.hyp -> set_undef_addr
      [] \/ ctx.cpsr.mode \in {Modes.usr, Modes.sys}
         \/ bitrng(instr, 4, 0) = Modes.hyp
         \/ ctx.cpsr.mode = Modes.mon /\ ctx.sec.secure = 0
         \/ ctx.cpsr.mode = Modes.fiq /\ g % 2 = 1 /\ ctx.sec.secure = 0 ->
           set_unpred_addr(set_addr_lin)
      [] OTHER -> set_addr_lin

(* The switch on extra; BKPT "plays linear", SVC is stepped over whichever *)
(* HCR.TGE branch it takes, and the default case keeps set_undef_addr().   *)
arm_core_exc(instr, extra, ctx, g) ==
    CASE extra = "arm_exc_eret" -> Eret(ctx, g)
      [] extra \in {"arm_exc_bkpt", "arm_exc_svc"} -> set_addr_lin
      [] extra = "arm_exc_hvc" -> Hvc(ctx)
      [] extra = "arm_exc_smc" -> Smc(ctx)
      [] extra = "arm_exc_rfe" -> Rfe(instr, ctx)
      [] extra = "arm_exc_srs" -> Srs(instr, ctx, g)
      [] OTHER -> set_undef_addr
=============================================================================
