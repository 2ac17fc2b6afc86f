----------------------------- MODULE BudgetOnce -----------------------------
(***************************************************************************)
(* What the period budget promises of the paid runs it admits              *)
(* (docs/15_AGENT_RUNTIME_AND_RESEARCHER.md, docs/16_AGENT_RUN_RECOVERY.md):*)
(* a run is admitted only while everything held, owed and spent leaves     *)
(* room for its reservation, and each reservation leaves the ledger once:  *)
(* into what the run cost, or into what it may have cost until an operator *)
(* learns it.  A replacement closes one run and admits another in a step.  *)
(***************************************************************************)
EXTENDS Integers

CONSTANTS
  Runs,      \* every run there may ever be
  Periods,   \* budget periods
  Reserve,   \* what is reserved for a run
  MaxCost,   \* what a period may cost
  Charges    \* what a run may turn out to have cost

VARIABLES
  stage,     \* where each run's money is, and in which period
  account    \* per period: held, owed (of unknown cost) and spent

Stages == [money : {"none", "held", "owed", "settled"}, period : Periods]

Init ==
  /\ \E p \in Periods : stage = [r \in Runs |-> [money |-> "none", period |-> p]]
  /\ account = [p \in Periods |-> [held |-> 0, owed |-> 0, spent |-> 0]]

\* What an admission, and each way a reservation leaves, make of an account.
Hold(a, p)      == [a EXCEPT ![p].held = @ + Reserve]
Settle(a, p, c) == [a EXCEPT ![p].held = @ - Reserve, ![p].spent = @ + c]
Defer(a, p)     == [a EXCEPT ![p].held = @ - Reserve, ![p].owed = @ + Reserve]
Clear(a, p, c)  == [a EXCEPT ![p].owed = @ - Reserve, ![p].spent = @ + c]

HasRoom(a, p) == a[p].held + a[p].owed + a[p].spent + Reserve <= MaxCost
At(r, m) == stage[r].money = m
Stage(m, p) == [money |-> m, period |-> p]

Admit(r, p) ==
  /\ At(r, "none")
  /\ stage' = [stage EXCEPT ![r] = Stage("held", p)]
  /\ HasRoom(account, p)
  /\ account' = Hold(account, p)

\* The cost of r is known.
Close(r) ==
  /\ At(r, "held")
  /\ stage' = [stage EXCEPT ![r].money = "settled"]
  /\ \E c \in Charges : account' = Settle(account, stage[r].period, c)

\* It is not, and is learnt later.
Doubt(r) ==
  /\ At(r, "held")
  /\ stage' = [stage EXCEPT ![r].money = "owed"]
  /\ account' = Defer(account, stage[r].period)

Learn(r) ==
  /\ At(r, "owed")
  /\ stage' = [stage EXCEPT ![r].money = "settled"]
  /\ \E c \in Charges : account' = Clear(account, stage[r].period, c)

\* s replaces r, which is closed in the same step.
Replace(r, s, p) ==
  /\ At(r, "held") /\ At(s, "none")
  /\ \E m \in {"settled", "owed"} :
       /\ stage' = [stage EXCEPT ![r].money = m, ![s] = Stage("held", p)]
       /\ \E c \in Charges :
            LET left == IF m = "owed" THEN Defer(account, stage[r].period)
                                      ELSE Settle(account, stage[r].period, c)
            IN  HasRoom(left, p) /\ account' = Hold(left, p)

Next ==
  \/ \E r \in Runs : Close(r) \/ Doubt(r) \/ Learn(r)
  \/ \E r \in Runs, p \in Periods : Admit(r, p)
  \/ \E r, s \in Runs, p \in Periods : Replace(r, s, p)

Spec == Init /\ [][Next]_<<stage, account>>

=============================================================================
