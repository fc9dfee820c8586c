------------------------------ MODULE ArmLdstm ------------------------------
(***************************************************************************)
(* arm_core_ldstm(): LDM/STM in the four B/I modes, the user-register and  *)
(* exception-return forms (M = bit 22), and the single-register POP/PUSH   *)
(* (arm_cldstm_pop_r, arm_cldstm_push_r).  Rn = bits 19-16, the register   *)
(* list = bits 15-0, B I M W L = bits 24-20.                               *)
(* check_proc_mode() of instr_util.c reads the CPSR mode of the snapshot. *)
(***************************************************************************)
EXTENDS ArmLdst, FiniteSets

(* The bit count of the register list (tmp4).                              *)
RegCount(instr) == Cardinality({k \in 0 .. 15 : bit(instr, k) = 1})

LinUnpredLdstm == set_unpred_addr(set_addr_lin)

(* POP {Rt} returns the word at SP, set as an ARM address; PUSH is linear; *)
(* either with Rt = SP is flagged.                                         *)
PopPush(instr, extra, ctx) ==
    LET t == bitrng(instr, 15, 12)
    IN CASE extra = "arm_cldstm_pop_r" /\ t = 15 -> set_arm_addr(LoadWord(ctx, ctx.r[13]))
         [] t = 13 -> LinUnpredLdstm
         [] OTHER -> set_addr_lin

(* "new n - B-bit doesn't make a difference": the PC base written back,   *)
(* the snapshot r15 plus or minus four per register.                       *)
PCBaseWriteback(instr, ctx) ==
    set_arm_addr(IF bit(instr, 23) = 1 THEN U(ctx.r[15] + 4 * RegCount(instr))
                 ELSE U(ctx.r[15] - 4 * RegCount(instr)))

(* The M = 1 checks: UNPREDICTABLE in usr or sys, UNDEFINED in hyp.        *)
ModeChecks(r, ctx) ==
    CASE ctx.cpsr.mode = Modes.hyp -> set_undef_addr
      [] ctx.cpsr.mode \in {Modes.usr, Modes.sys} -> set_unpred_addr(r)
      [] OTHER -> r

(* "if ((tmp1 == 13) && (bit(instr, 13) || tmp4 < 2))": an SP base with   *)
(* SP in the list or fewer than two registers is flagged.                  *)
SPBaseFlag(b, instr) == b = 13 /\ (bit(instr, 13) = 1 \/ RegCount(instr) < 2)

(* STM, and LDM of the user registers (M = 1 without the PC).             *)
StmOrUserRegs(instr, ctx) ==
    LET n == bitrng(instr, 19, 16)
        r0 == IF n = 15 /\ bit(instr, 21) = 1 THEN PCBaseWriteback(instr, ctx) ELSE set_addr_lin
        r1 == IF n = 15 \/ SPBaseFlag(n, instr) THEN set_unpred_addr(r0) ELSE r0
    IN IF bit(instr, 22) = 1 THEN ModeChecks(r1, ctx) ELSE r1

(* The address of the PC's slot, by B and I: the base minus or plus four   *)
(* for every other register (after) or for every register (before).       *)
LdmSlot(instr, base) ==
    LET c == RegCount(instr)
    IN CASE bitrng(instr, 24, 23) = 0 -> U(base - 4 * (c - 1))
         [] bitrng(instr, 24, 23) = 1 -> U(base + 4 * (c - 1))
         [] bitrng(instr, 24, 23) = 2 -> U(base - 4 * c)
         [] OTHER -> U(base + 4 * c)

(* Mutant: an exception return that keeps the loaded word's own state.     *)
LdmNewPC_nospsr(instr, ctx) ==
    LET v == LoadWord(ctx, LdmSlot(instr, ctx.r[bitrng(instr, 19, 16)]))
    IN Interwork(v)

(* The loaded word goes through the low-bit selection, whose address the *)
(* block "if L == 1 || M == 1 - ldm exception return" keeps: the test is   *)
(* true for every LDM, so the SPSR's T bit picks the state of every PC     *)
(* load: Thumb keeps the address, ARM clears bits 1-0 (and the flag).      *)
LdmNewPC(instr, ctx) ==
    LET v == LoadWord(ctx, LdmSlot(instr, ctx.r[bitrng(instr, 19, 16)]))
    IN IF ctx.spsr.t = 1 THEN set_thumb_addr(v)
       ELSE set_arm_addr(v - (v % 4))

(* LDM with the PC in the list, or without.  The exception-return block    *)
(* reuses tmp1 for the SPSR, so after a PC load the base checks compare    *)
(* the SPSR word (its mode field keeps it above 15) with 15 and 13.        *)
Ldm(instr, ctx) ==
    LET n == bitrng(instr, 19, 16)
        pcWb == n = 15 /\ bit(instr, 21) = 1
        pcLoad == ~pcWb /\ bit(instr, 15) = 1
        r0 == CASE pcWb -> PCBaseWriteback(instr, ctx)
                [] pcLoad -> LdmNewPC(instr, ctx)
                [] OTHER -> set_addr_lin
        tmp1 == IF pcLoad THEN ctx.spsr.mode + 32 * ctx.spsr.t ELSE n
        r1 == IF tmp1 = 15 THEN set_unpred_addr(r0) ELSE r0
        r2 == IF SPBaseFlag(tmp1, instr) \/ RegCount(instr) < 1 THEN set_unpred_addr(r1) ELSE r1
    IN IF bit(instr, 22) = 1 /\ bit(instr, 15) = 1 THEN ModeChecks(r2, ctx) ELSE r2

arm_core_ldstm(instr, extra, ctx) ==
    CASE extra \in {"arm_cldstm_pop_r", "arm_cldstm_push_r"} -> PopPush(instr, extra, ctx)
      [] bit(instr, 20) = 0 \/ (bit(instr, 22) = 1 /\ bit(instr, 15) = 0) ->
           StmOrUserRegs(instr, ctx)
      [] OTHER -> Ldm(instr, ctx)
=============================================================================
