------------------------------ MODULE ArmNextPC ------------------------------
(***************************************************************************)
(* What a decode call promises (spec sections 3, 4 and 8): given an        *)
(* instruction and a register snapshot that stay fixed, it decides    *)
(* one outcome, once, and the outcome reports the architectural next PC    *)
(* of that instruction (ArmSpec!Conforms).                                 *)
(***************************************************************************)
EXTENDS ArmSpec

VARIABLES op,        \* the instruction, as its architectural op
          ctx,       \* the register snapshot
          outcome    \* the decided outcome, Pending before

(* No outcome yet: an outcome-shaped value no builder produces.            *)
Pending == [address |-> 0, flag |-> "PENDING", unpred |-> FALSE]

(* Any instruction and snapshot; no outcome yet.                          *)
Init ==
    /\ ctx \in Context
    /\ outcome = Pending

Decide ==
    /\ outcome = Pending
    /\ outcome' \in Result
    /\ Conforms(outcome', ArchOutcome(op, ctx), ctx)
    /\ UNCHANGED <<op, ctx>>

(* The outcome is eventually decided (Decide is enabled until it is).     *)
Decided == outcome # Pending

Spec == Init /\ [][Decide]_<<op, ctx, outcome>> /\ <>Decided
=============================================================================
