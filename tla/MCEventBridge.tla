---------------------------- MODULE MCEventBridge ----------------------------
(***************************************************************************)
(* Small instances of EventBridge for TLC.                                 *)
(***************************************************************************)
EXTENDS EventBridge, TLC

CONSTANTS again, order, fact, plan, cycle1

\* A plan denied by the spend cap is retried, an operator has failed jobs redone,
\* and a fact wakes a cycle.
RecoveriesAndWake == again :> "retry" @@ order :> "redo" @@ fact :> "wake"
PlanAndCycle == again :> plan @@ order :> plan @@ fact :> cycle1

\* Bound: the plan's events and runs and the cycle's are not in one behaviour: they have
\* nothing in common.
PlanRests == outbox[again] = NoRow /\ outbox[order] = NoRow
CycleRests == outbox[fact] = NoRow /\ cycle1 \notin wanted /\ workflow[cycle1] = "none"
PlanOrCycle == PlanRests \/ CycleRests

Symmetry == Permutations(Workers)

=============================================================================
