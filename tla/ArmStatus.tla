------------------------------ MODULE ArmStatus ------------------------------
(***************************************************************************)
(* arm_core_status(): CPS (extra arm_cstat_cps) and the banked-register    *)
(* MRS and MSR (arm_cstat_mrs_b, arm_cstat_msr_b).  CPS: imod = bits      *)
(* 19-18, M = bit 17, A I F = bits 8-6, mode = bits 4-0.  Banked: R = bit *)
(* 22, SYSm = bit 8 : bits 19-16, Rd = bits 15-12.  check_proc_mode() and  *)
(* get_proc_mode() read the CPSR mode; get_security_state(), get_NSACR()   *)
(* and get_SCR() the sec field of the snapshot; get_mode_reg() a banked    *)
(* register the snapshot does not hold: g, a value of Garbage.             *)
(***************************************************************************)
EXTENDS ArmBits

LinUnpStatus == set_unpred_addr(set_addr_lin)

(* Mutant: a change to Hyp mode is allowed from Hyp mode only.            *)
CpsModeUnp_nomon(target, ctx) ==
    CASE target = Modes.mon -> ctx.sec.secure = 0
      [] target = Modes.fiq -> ctx.sec.rfr = 1 /\ ctx.sec.secure = 0
      [] target = Modes.hyp -> ctx.cpsr.mode # Modes.hyp
      [] target \in {Modes.irq, Modes.svc, Modes.abt, Modes.und, Modes.sys} -> FALSE
      [] OTHER -> TRUE

(* Mutant: the current mode's own registers not counted.                  *)
BankedDenied_nocur(tmode, ctx) ==
    LET cur == ctx.cpsr.mode
        nsRfr == ctx.sec.rfr = 1 /\ ctx.sec.secure = 0
    IN CASE cur = Modes.fiq -> nsRfr \/ tmode \in {Modes.hyp, Modes.mon}
         [] cur \in {Modes.irq, Modes.svc, Modes.abt, Modes.und} ->
              \/ tmode = Modes.hyp
              \/ tmode = Modes.mon /\ ctx.sec.secure = 0
              \/ tmode = Modes.fiq /\ nsRfr
         [] cur = Modes.mon -> FALSE
         [] cur = Modes.hyp ->
              tmode = Modes.mon \/ (tmode = Modes.fiq /\ ctx.sec.rfr = 1)
         [] cur = Modes.sys -> tmode \in {Modes.hyp, Modes.mon}
         [] OTHER -> TRUE

(* The mode checks of a CPS that changes mode: Monitor from Non-secure, FIQ *)
(* with NSACR.RFR from Non-secure, Hyp unless from Monitor with SCR.NS or  *)
(* from Hyp itself, and any mode number not in the list.                   *)
CpsModeUnp(target, ctx) ==
    LET cur == ctx.cpsr.mode
    IN CASE target = Modes.mon -> ctx.sec.secure = 0
         [] target = Modes.fiq -> ctx.sec.rfr = 1 /\ ctx.sec.secure = 0
         [] target = Modes.hyp ->
              IF ctx.sec.secure = 1 /\ cur # Modes.mon THEN TRUE
              ELSE IF cur = Modes.mon THEN ctx.sec.ns = 0
              ELSE cur # Modes.hyp
         [] target \in {Modes.irq, Modes.svc, Modes.abt, Modes.und, Modes.sys} -> FALSE
         [] OTHER -> TRUE

(* CPS: a NOP in User mode; else the early returns in order, of which the *)
(* imod test "(tmp2 = 0) && ..." assigns and is false, so only imod == 01  *)
(* is caught; then A:I:F against imod<1>, and the mode checks.             *)
arm_cps(instr, ctx) ==
    LET mode == bitrng(instr, 4, 0)
        M == bit(instr, 17)
        imod == bitrng(instr, 19, 18)
        aif == bitrng(instr, 8, 6)
    IN CASE ctx.cpsr.mode = Modes.usr -> set_addr_lin
         [] M = 0 /\ mode # 0 -> LinUnpStatus
         [] imod = 1 -> LinUnpStatus
         [] (aif = 0) = (bit(instr, 19) = 1) -> LinUnpStatus
         [] M = 1 /\ CpsModeUnp(mode, ctx) -> LinUnpStatus
         [] OTHER -> set_addr_lin

(* The accessed mode and register number, "normalized": SYSm<4:3> = 00    *)
(* and 01 are r8-r14 of User and FIQ (code 7, register 15, is register 0, *)
(* bad); 10 the LR and SP of IRQ, SVC, ABT and UND; 11 bad (codes 0-3),    *)
(* then LR and SP of MON and HYP.  An LR with R set is the SPSR (16).      *)
BankedTarget(instr) ==
    LET sysm == bitrng(instr, 19, 16) + 16 * bit(instr, 8)
        code == sysm % 8
        lrsp == IF code % 2 = 0 THEN 14 ELSE 13
        t == CASE sysm \div 8 = 0 -> [mode |-> Modes.usr, reg |-> (code + 8) % 15]
               [] sysm \div 8 = 1 -> [mode |-> Modes.fiq, reg |-> (code + 8) % 15]
               [] sysm \div 8 = 2 ->
                    [mode |-> << Modes.irq, Modes.svc, Modes.abt, Modes.und >>[code \div 2 + 1],
                     reg |-> lrsp]
               [] code < 4 -> [mode |-> sysm, reg |-> 0]
               [] OTHER -> [mode |-> IF code < 6 THEN Modes.mon ELSE Modes.hyp, reg |-> lrsp]
    IN IF t.reg = 14 /\ bit(instr, 22) = 1 THEN [t EXCEPT !.reg = 16] ELSE t

(* The access itself: MSR is linear; MRS to the PC returns the banked      *)
(* register as an ARM address, counted UNPREDICTABLE.                       *)
BankedAccess(instr, extra, g) ==
    IF extra = "arm_cstat_mrs_b" /\ bitrng(instr, 15, 12) = 15
    THEN set_unpred_addr(set_arm_addr(g)) ELSE set_addr_lin

(* The switch on the current mode: which accessed modes it counts          *)
(* UNPREDICTABLE before the access.                                        *)
BankedDenied(tmode, ctx) ==
    LET cur == ctx.cpsr.mode
        nsRfr == ctx.sec.rfr = 1 /\ ctx.sec.secure = 0
    IN CASE cur = Modes.fiq -> nsRfr \/ tmode \in {Modes.fiq, Modes.hyp, Modes.mon}
         [] cur \in {Modes.irq, Modes.svc, Modes.abt, Modes.und} ->
              \/ tmode \in {cur, Modes.hyp}
              \/ tmode = Modes.mon /\ ctx.sec.secure = 0
              \/ tmode = Modes.fiq /\ nsRfr
         [] cur = Modes.mon -> FALSE
         [] cur = Modes.hyp ->
              tmode \in {cur, Modes.mon} \/ (tmode = Modes.fiq /\ ctx.sec.rfr = 1)
         [] cur = Modes.sys -> tmode \in {cur, Modes.hyp, Modes.mon}
         [] OTHER -> TRUE

arm_banked(instr, extra, ctx, g) ==
    LET t == BankedTarget(instr)
    IN CASE t.reg = 0 -> LinUnpStatus
         [] BankedDenied(t.mode, ctx) -> LinUnpStatus
         [] OTHER -> BankedAccess(instr, extra, g)

arm_core_status(instr, extra, ctx, g) ==
    IF extra = "arm_cstat_cps" THEN arm_cps(instr, ctx) ELSE arm_banked(instr, extra, ctx, g)
=============================================================================
