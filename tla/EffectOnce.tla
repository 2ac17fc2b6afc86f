----------------------------- MODULE EffectOnce -----------------------------
(***************************************************************************)
(* What the Tool Gateway promises of every governed operation (ADR-020,    *)
(* ADR-022): its external effect is applied at most once, another attempt  *)
(* begins only once the previous one is known to have had no effect, and a *)
(* settled operation stays settled.  Rows, transactions, approvals and     *)
(* processes are left to the implementation.                               *)
(***************************************************************************)
EXTENDS Integers

CONSTANT Ops

VARIABLES
  phase,    \* where the operation stands
  applied   \* how many times its effect has been applied

Phases == {"open", "attempting", "unknown", "settled"}

Init == phase = [o \in Ops |-> "open"] /\ applied = [o \in Ops |-> 0]

\* An attempt begins only on an operation known to have had no effect.
Begin(o) ==
  /\ phase[o] = "open" /\ applied[o] = 0
  /\ phase' = [phase EXCEPT ![o] = "attempting"]
  /\ UNCHANGED applied

\* The effect lands while its attempt runs, or after the attempt was given up.
Apply(o) ==
  /\ phase[o] \in {"attempting", "unknown"} /\ applied[o] = 0
  /\ applied' = [applied EXCEPT ![o] = 1]
  /\ UNCHANGED phase

\* The outcome is established: by the attempt, or later by reconciliation.
Establish(o) ==
  /\ phase[o] \in {"attempting", "unknown"}
  /\ phase' = [phase EXCEPT ![o] = IF applied[o] = 1 THEN "settled" ELSE "open"]
  /\ UNCHANGED applied

\* The attempt ends without establishing it.
Doubt(o) ==
  /\ phase[o] = "attempting"
  /\ phase' = [phase EXCEPT ![o] = "unknown"]
  /\ UNCHANGED applied

Next == \E o \in Ops : Begin(o) \/ Apply(o) \/ Establish(o) \/ Doubt(o)

Spec == Init /\ [][Next]_<<phase, applied>>

=============================================================================
