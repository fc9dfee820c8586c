----------------------------- MODULE ArmDecoder -----------------------------
(***************************************************************************)
(* ARM_decoder_dispatch(): one decode call.  The loop walks the table from *)
(* entry 1; the first entry whose (instr & mask) == data calls its decoder *)
(* with its extra and ends the call, and running off the end leaves the    *)
(* initial set_undef_addr().  The instruction and the register snapshot   *)
(* are fixed for the call (the handlers only read them).                   *)
(***************************************************************************)
EXTENDS ArmBranch, ArmMux, ArmCoproc, ArmDiv, ArmMisc, ArmMacd, ArmSat, ArmDataMisc, ArmPar, ArmExc, ArmVfp, ArmSimd, ArmLdstm, ArmLdstrex, ArmStatus, ArmTable

CONSTANTS Instrs,     \* the instruction words a call may be given
          Contexts,   \* the register snapshots it may run against
          Garbage     \* values an unassigned local, memory or a system register may hold

VARIABLES instr, ctx, i, retval, done

vars == <<instr, ctx, i, retval, done>>

instr_count == Len(ARM_decode_table)

Init ==
    /\ instr \in Instrs
    /\ ctx \in Contexts
    /\ i = 1
    /\ retval = set_undef_addr
    /\ done = FALSE

(* The first index from j on whose entry matches, or instr_count + 1.      *)
NextCandidate(j) ==
    LET hits == {k \in j .. instr_count : Matches(instr, ARM_decode_table[k])}
    IN IF hits = {} THEN instr_count + 1 ELSE CHOOSE k \in hits : \A l \in hits : k <= l

(* The iterations of the for loop that do not hit, from i up to the next   *)
(* entry that matches: they change nothing but i, so one step takes them.  *)
Miss ==
    /\ ~done
    /\ i <= instr_count
    /\ ~Matches(instr, ARM_decode_table[i])
    /\ i' = NextCandidate(i + 1)
    /\ UNCHANGED <<instr, ctx, retval, done>>

(* The loop ran off the end: no entry matched, UNDEFINED stays.            *)
NoMatch ==
    /\ ~done
    /\ i > instr_count
    /\ done' = TRUE
    /\ UNCHANGED <<instr, ctx, i, retval>>

(* A hit on entry i whose decoder is d: retval = decoder(instr, extra).    *)
Hit(d) ==
    /\ ~done
    /\ i <= instr_count
    /\ ARM_decode_table[i].decoder = d
    /\ Matches(instr, ARM_decode_table[i])
    /\ done' = TRUE
    /\ UNCHANGED <<instr, ctx, i>>

Call_arm_branch ==
    /\ Hit("arm_branch")
    /\ retval' = arm_branch(instr, ARM_decode_table[i].extra, ctx)

Call_arm_mux ==
    /\ Hit("arm_mux")
    /\ \E g \in Garbage : retval' = arm_mux(instr, ARM_decode_table[i].extra, ctx, g)

Call_arm_core_data_bit ==
    /\ Hit("arm_core_data_bit")
    /\ \E g \in Garbage :
           retval' = arm_core_data_bit(instr, ARM_decode_table[i].extra, ctx, g)

Call_arm_core_data_std_r ==
    /\ Hit("arm_core_data_std_r")
    /\ retval' = arm_core_data_std_r(instr, ARM_decode_table[i].extra, ctx)

Call_arm_core_data_std_sh ==
    /\ Hit("arm_core_data_std_sh")
    /\ retval' = arm_core_data_std_sh(instr, ARM_decode_table[i].extra, ctx)

Call_arm_core_data_std_i ==
    /\ Hit("arm_core_data_std_i")
    /\ retval' = arm_core_data_std_i(instr, ARM_decode_table[i].extra, ctx)

Call_arm_coproc ==
    /\ Hit("arm_coproc")
    /\ retval' = arm_coproc(instr, ARM_decode_table[i].extra)

Call_arm_core_data_div ==
    /\ Hit("arm_core_data_div")
    /\ retval' = arm_core_data_div(instr, ARM_decode_table[i].extra, ctx)

(* SWP reads the word at (Rn): any value memory may hold.                  *)
Call_arm_core_misc ==
    /\ Hit("arm_core_misc")
    /\ \E g \in Garbage : retval' = arm_core_misc(instr, ARM_decode_table[i].extra, g)

Call_arm_core_data_mac ==
    /\ Hit("arm_core_data_mac")
    /\ retval' = arm_core_data_mac(instr, ARM_decode_table[i].extra, ctx)

Call_arm_core_data_macd ==
    /\ Hit("arm_core_data_macd")
    /\ retval' = arm_core_data_macd(instr, ARM_decode_table[i].extra, ctx)

Call_arm_core_data_misc ==
    /\ Hit("arm_core_data_misc")
    /\ retval' = arm_core_data_misc(instr, ARM_decode_table[i].extra, ctx)

Call_arm_core_data_pack ==
    /\ Hit("arm_core_data_pack")
    /\ retval' = arm_core_data_pack(instr, ARM_decode_table[i].extra, ctx)

Call_arm_core_data_par ==
    /\ Hit("arm_core_data_par")
    /\ \E g \in Garbage : retval' = arm_core_data_par(instr, ARM_decode_table[i].extra, ctx, g)

Call_arm_core_exc ==
    /\ Hit("arm_core_exc")
    /\ \E g \in Garbage : retval' = arm_core_exc(instr, ARM_decode_table[i].extra, ctx, g)

Call_arm_core_data_sat ==
    /\ Hit("arm_core_data_sat")
    /\ retval' = arm_core_data_sat(instr, ARM_decode_table[i].extra, ctx)

(* VMRS reads FPSID, FPSCR, MVFR0/1 or FPEXC from the hardware: any value *)
(* the register may hold.                                                  *)
Call_arm_vfp_xfer_reg ==
    /\ Hit("arm_vfp_xfer_reg")
    /\ \E g \in Garbage : retval' = arm_vfp_xfer_reg(instr, ARM_decode_table[i].extra, ctx, g)

Call_arm_core_ldst ==
    /\ Hit("arm_core_ldst")
    /\ retval' = arm_core_ldst(instr, ctx)

Call_arm_core_ldstm ==
    /\ Hit("arm_core_ldstm")
    /\ retval' = arm_core_ldstm(instr, ARM_decode_table[i].extra, ctx)

Call_arm_core_ldstrh ==
    /\ Hit("arm_core_ldstrh")
    /\ \E g \in Garbage : retval' = arm_core_ldstrh(instr, ctx, g)

Call_arm_core_ldstrsb ==
    /\ Hit("arm_core_ldstrsb")
    /\ \E g \in Garbage : retval' = arm_core_ldstrsb(instr, ctx, g)

Call_arm_core_ldstsh ==
    /\ Hit("arm_core_ldstsh")
    /\ \E g \in Garbage : retval' = arm_core_ldstsh(instr, ctx, g)

Call_arm_core_ldstrd ==
    /\ Hit("arm_core_ldstrd")
    /\ retval' = arm_core_ldstrd(instr, ctx)

Call_arm_core_ldstrex ==
    /\ Hit("arm_core_ldstrex")
    /\ retval' = arm_core_ldstrex(instr, ARM_decode_table[i].extra, ctx)

Call_arm_core_status ==
    /\ Hit("arm_core_status")
    /\ \E g \in Garbage : retval' = arm_core_status(instr, ARM_decode_table[i].extra, ctx, g)

Call_arm_fp ==
    /\ Hit("arm_fp")
    /\ retval' = arm_fp(instr, ARM_decode_table[i].extra)

Call_arm_v_bits ==
    /\ Hit("arm_v_bits")
    /\ retval' = arm_v_bits(instr, ARM_decode_table[i].extra)

Call_arm_v_comp ==
    /\ Hit("arm_v_comp")
    /\ retval' = arm_v_comp(instr, ARM_decode_table[i].extra)

Call_arm_v_mac ==
    /\ Hit("arm_v_mac")
    /\ retval' = arm_v_mac(instr, ARM_decode_table[i].extra)

Call_arm_v_misc ==
    /\ Hit("arm_v_misc")
    /\ retval' = arm_v_misc(instr, ARM_decode_table[i].extra)

Call_arm_v_par ==
    /\ Hit("arm_v_par")
    /\ retval' = arm_v_par(instr, ARM_decode_table[i].extra)

Call_arm_v_shift ==
    /\ Hit("arm_v_shift")
    /\ retval' = arm_v_shift(instr, ARM_decode_table[i].extra)

Call_arm_vfp_ldst_elem ==
    /\ Hit("arm_vfp_ldst_elem")
    /\ retval' = arm_vfp_ldst_elem(instr, ARM_decode_table[i].extra)

Call_arm_vfp_ldst_ext ==
    /\ Hit("arm_vfp_ldst_ext")
    /\ retval' = arm_vfp_ldst_ext(instr, ARM_decode_table[i].extra, ctx)

(* The call has returned: the decoder is a function and stops here.        *)
Returned == done /\ UNCHANGED vars

Next ==
    \/ Miss
    \/ NoMatch
    \/ Call_arm_branch
    \/ Call_arm_mux
    \/ Call_arm_core_data_bit
    \/ Call_arm_core_data_std_r
    \/ Call_arm_core_data_std_sh
    \/ Call_arm_core_data_std_i
    \/ Call_arm_coproc
    \/ Call_arm_core_data_div
    \/ Call_arm_core_misc
    \/ Call_arm_core_data_mac
    \/ Call_arm_core_data_macd
    \/ Call_arm_core_data_sat
    \/ Call_arm_core_data_misc
    \/ Call_arm_core_data_pack
    \/ Call_arm_core_data_par
    \/ Call_arm_core_exc
    \/ Call_arm_vfp_xfer_reg
    \/ Call_arm_core_ldst
    \/ Call_arm_core_ldstm
    \/ Call_arm_core_ldstrh
    \/ Call_arm_core_ldstrsb
    \/ Call_arm_core_ldstsh
    \/ Call_arm_core_ldstrd
    \/ Call_arm_core_ldstrex
    \/ Call_arm_core_status
    \/ Call_arm_fp
    \/ Call_arm_v_bits
    \/ Call_arm_v_comp
    \/ Call_arm_v_mac
    \/ Call_arm_v_misc
    \/ Call_arm_v_par
    \/ Call_arm_v_shift
    \/ Call_arm_vfp_ldst_elem
    \/ Call_arm_vfp_ldst_ext
    \/ Returned

Spec == Init /\ [][Next]_vars /\ WF_vars(Next)

-----------------------------------------------------------------------------
TypeOK ==
    /\ instr \in InstrWord
    /\ ctx \in Context
    /\ i \in 1 .. instr_count + 1
    /\ retval \in Result
    /\ done \in BOOLEAN
=============================================================================
