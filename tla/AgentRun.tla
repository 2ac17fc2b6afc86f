------------------------------ MODULE AgentRun ------------------------------
(***************************************************************************)
(* One agent's paid model runs: admitted under a period budget, carried by *)
(* a Temporal activity through at most two transport attempts of a single  *)
(* model call (agent_runtime/application.py), recorded with guarded        *)
(* updates (infrastructure/database/agent_runtime_repositories.py), and    *)
(* closed by an operator when their worker is gone (AgentRunRecoveryService*)
(* and docs/16_AGENT_RUN_RECOVERY.md).  A transaction is a step, except    *)
(* that what an admission reads before it locks the budget may be old when *)
(* it writes.                                                              *)
(***************************************************************************)
EXTENDS Integers, FiniteSets

CONSTANTS
  MaxRunId,      \* bound on the runs there ever are; ids are given in order
  Keys,          \* idempotency keys callers send
  ProductOf,     \* the product each key's request is about
  Callers,       \* concurrent admissions
  Workers,       \* activity slots
  MaxPeriod,     \* bound on the budget periods that pass
  Reserve,       \* run_budget_policy.max_cost
  MaxCost,       \* period_budget_policy.max_cost
  MaxAdmitted,   \* period_budget_policy.max_runs
  Bills,         \* what the provider may charge for an inference
  MaxCharge,     \* bound on what it charges for a run
  MaxTransport,  \* MAX_PROVIDER_TRANSPORT_ATTEMPTS
  MaxFaults,     \* bound on the workers that die
  None

Runs == 1..MaxRunId
Periods == 1..MaxPeriod
Products == {ProductOf[k] : k \in Keys}
Charges == 0..MaxCharge

ASSUME AgentRunAssumption ==
  /\ {MaxRunId, MaxPeriod, Reserve, MaxTransport} \subseteq Nat \ {0}
  /\ {MaxCost, MaxAdmitted, MaxFaults} \subseteq Nat
  /\ MaxCharge \in Nat /\ Bills \subseteq Charges \ {0} /\ DOMAIN ProductOf = Keys
  /\ None \notin Keys \cup Products \cup Runs

VARIABLES
  run,         \* agent_runtime.agent_runs
  attempt,     \* agent_runtime.model_attempts, one per run that was claimed
  ledger,      \* agent_runtime.agent_budget_usage, per period
  invoiced,    \* agent_runtime.model_cost_reconciliations: the runs that have one
  caller,      \* the key a caller found free and is about to write, or None
  worker,      \* the run each activity carries, and how far it is
  period,      \* the current budget period
  calls,       \* external: inferences the provider received for each run, and
  billed,      \* what it charges for them
  faults       \* bound: workers that died so far

rows == <<run, attempt, ledger, invoiced>>
provider == <<calls, billed>>
vars == <<rows, caller, worker, period, provider, faults>>

-----------------------------------------------------------------------------
(* Rows.                                                                   *)

Absent == [status |-> "NONE", key |-> None, product |-> None, period |-> 1,
           of |-> None, code |-> None, cost |-> 0]
Unclaimed == [status |-> "NONE", response |-> None, cost |-> 0, owed |-> 0]
Idle == [at |-> "idle", run |-> None, tries |-> 0, answer |-> None, bill |-> 0]

\* What the provider's answer to an inference can be; "unmetered" has no usage, "cut" is a
\* response that is returned and is not a result.
Answers == {"completed", "cut", "unmetered", "rejected", "ambiguous"}
Responses == {"completed", "cut", "unmetered"}

RunStatuses == {"NONE", "PENDING", "RUNNING", "SUCCEEDED", "FAILED"}
AttemptStatuses == {"NONE", "CLAIMED", "PROVIDER_STARTED", "RESPONSE_RECORDED", "SUCCEEDED",
                    "FAILED_RESPONSE", "FAILED_NO_RESPONSE", "UNKNOWN"}
StrandedCodes == {"STRANDED_BEFORE_PROVIDER", "STRANDED_PROVIDER_OUTCOME_UNKNOWN",
                  "STRANDED_RESPONSE_RECORDED"}
Codes == StrandedCodes \cup {"UNREADY", "REJECTED", "RETURNED", "INVALID"}

Active(r) == run[r].status \in {"PENDING", "RUNNING"}
Terminal(r) == run[r].status \in {"SUCCEEDED", "FAILED"}
Fresh(r) == run[r].status = "NONE" /\ \A s \in Runs : s < r => run[s].status # "NONE"

-----------------------------------------------------------------------------
(* The ledger.                                                             *)

\* Mutant: what runs of unknown cost may have cost is forgotten.
HasRoomBesideDoubt(l, p) ==
  /\ l[p].admitted + 1 <= MaxAdmitted
  /\ l[p].actual + l[p].reserved + Reserve <= MaxCost

HasRoom(l, p) ==
  /\ l[p].admitted + 1 <= MaxAdmitted
  /\ l[p].actual + l[p].reserved + l[p].unknown + Reserve <= MaxCost

Reserved(l, p) == [l EXCEPT ![p].admitted = @ + 1, ![p].reserved = @ + Reserve]

Settled(l, p, cost, unknown) ==
  [l EXCEPT ![p].reserved = @ - Reserve, ![p].actual = @ + cost, ![p].unknown = @ + unknown]

-----------------------------------------------------------------------------
(* Admission.                                                              *)

\* A repeated key is answered with its run, and a product with an active run with that one:
\* neither writes.  Only what is free goes on.
Request(c, k) ==
  /\ caller[c] = None
  /\ \A r \in Runs : run[r].key # k
  /\ \A r \in Runs : Active(r) => run[r].product # ProductOf[k]
  /\ caller' = [caller EXCEPT ![c] = k]
  /\ UNCHANGED <<rows, worker, period, provider, faults>>

\* The unique keys of agent_runs: INSERT ... ON CONFLICT DO NOTHING.
Unique(new, state) ==
  \A r \in Runs : state[r].status # "NONE" =>
    /\ state[r].key # new.key
    /\ state[r].status \in {"PENDING", "RUNNING"} => state[r].product # new.product
    /\ new.of # None => state[r].of # new.of

Pending(k, product, of) ==
  [Absent EXCEPT !.status = "PENDING", !.key = k, !.product = product, !.of = of,
                 !.period = period]

\* Under the period's advisory lock: reserve, insert, commit.
Admit(c, r) ==
  /\ caller[c] # None /\ Fresh(r)
  /\ HasRoom(ledger, period)
  /\ LET new == Pending(caller[c], ProductOf[caller[c]], None)
     IN  Unique(new, run) /\ run' = [run EXCEPT ![r] = new]
  /\ ledger' = Reserved(ledger, period)
  /\ caller' = [caller EXCEPT ![c] = None]
  /\ UNCHANGED <<attempt, invoiced, worker, period, provider, faults>>

\* No budget, a conflict, or a caller that went away: the transaction is rolled back.
GiveUp(c) ==
  /\ caller[c] # None
  /\ caller' = [caller EXCEPT ![c] = None]
  /\ UNCHANGED <<rows, worker, period, provider, faults>>

-----------------------------------------------------------------------------
(* Execution: AgentRuntime.execute, by a Temporal activity.                *)

\* An execution of a run that is not PENDING, or whose agent is not ACTIVE, ends without a
\* write.  (Nothing makes a run be claimed, or be run again, so the agent's status, which can
\* only forbid it, is not a variable.)
\* Mutant: an execution takes over a run that is RUNNING.
ClaimRunning(w, r) ==
  /\ worker[w].at = "idle" /\ Active(r)
  /\ run' = [run EXCEPT ![r].status = "RUNNING"]
  /\ attempt' = [attempt EXCEPT ![r].status = "CLAIMED"]
  /\ worker' = [worker EXCEPT ![w] = [Idle EXCEPT !.at = "claimed", !.run = r]]
  /\ UNCHANGED <<ledger, invoiced, caller, period, provider, faults>>

Claim(w, r) ==
  /\ worker[w].at = "idle" /\ run[r].status = "PENDING"
  /\ run' = [run EXCEPT ![r].status = "RUNNING"]
  /\ attempt' = [attempt EXCEPT ![r].status = "CLAIMED"]
  /\ worker' = [worker EXCEPT ![w] = [Idle EXCEPT !.at = "claimed", !.run = r]]
  /\ UNCHANGED <<ledger, invoiced, caller, period, provider, faults>>

\* Mutant: a write that does not look at the run's status, only at its attempt's.
OwnsAttempt(w, statuses) == attempt[worker[w].run].status \in statuses \cup {"UNKNOWN"}

\* The guard of every write a worker makes: its run and its attempt are still as it left them.
Owns(w, statuses) ==
  /\ run[worker[w].run].status = "RUNNING"
  /\ attempt[worker[w].run].status \in statuses

Goto(w, at) == worker' = [worker EXCEPT ![w].at = at, ![w].tries = 0]
Leave(w) == worker' = [worker EXCEPT ![w] = Idle]
Unpaid == <<caller, period, provider, faults>>

\* The provider's name, contract and schema are checked before it may be called.
RefuseInvocation(w) ==
  /\ worker[w].at = "claimed"
  /\ \E a \in {"rejected", "unready"} :
       worker' = [worker EXCEPT ![w].at = "failing", ![w].answer = a]
  /\ UNCHANGED <<rows, Unpaid>>

MarkProviderStarted(w) ==
  /\ worker[w].at = "claimed" /\ Owns(w, {"CLAIMED"})
  /\ attempt' = [attempt EXCEPT ![worker[w].run].status = "PROVIDER_STARTED"]
  /\ Goto(w, "started")
  /\ UNCHANGED <<run, ledger, invoiced, Unpaid>>

\* An inference leaves for the provider, which charges for it, or not, whatever becomes of
\* the answer.
CallProvider(w, bill) ==
  /\ worker[w].at = "started" /\ billed[worker[w].run] + bill <= MaxCharge
  /\ worker' = [worker EXCEPT ![w].at = "calling", ![w].tries = @ + 1, ![w].bill = bill]
  /\ calls' = [calls EXCEPT ![worker[w].run] = @ + 1]
  /\ billed' = [billed EXCEPT ![worker[w].run] = @ + bill]
  /\ UNCHANGED <<rows, caller, period, faults>>

\* What comes back: a response is charged for, a known rejection is not.
Answer(w, answer) ==
  /\ worker[w].at = "calling"
  /\ answer = "rejected" => worker[w].bill = 0
  /\ answer \in Responses => worker[w].bill # 0
  /\ worker' = [worker EXCEPT ![w].at = "answered", ![w].answer = answer]
  /\ UNCHANGED <<rows, Unpaid>>

\* Mutant: the transport is tried without a limit.
TryAgainForEver(w) ==
  /\ worker[w].at = "answered" /\ worker[w].answer \in {"rejected", "ambiguous"}
  /\ worker' = [worker EXCEPT ![w].at = "started", ![w].answer = None, ![w].bill = 0]
  /\ UNCHANGED <<rows, Unpaid>>

\* Timeouts, connection failures and rate limits are tried again; every other error, and the
\* last one, ends the call.
TryAgain(w) ==
  /\ worker[w].at = "answered" /\ worker[w].answer \in {"rejected", "ambiguous"}
  /\ worker[w].tries < MaxTransport
  /\ worker' = [worker EXCEPT ![w].at = "started", ![w].answer = None, ![w].bill = 0]
  /\ UNCHANGED <<rows, Unpaid>>

EndCall(w) ==
  /\ worker[w].at = "answered" /\ worker[w].answer \in {"rejected", "ambiguous"}
  /\ Goto(w, IF worker[w].answer = "rejected" THEN "failing" ELSE "doubting")
  /\ UNCHANGED <<rows, Unpaid>>

\* Both kinds of response are recorded before anything is made of them.
RecordResponse(w) ==
  /\ worker[w].at = "answered" /\ worker[w].answer \in Responses
  /\ Owns(w, {"PROVIDER_STARTED"})
  /\ attempt' = [attempt EXCEPT ![worker[w].run] =
       [@ EXCEPT !.status = "RESPONSE_RECORDED", !.response = worker[w].answer,
                 !.cost = IF worker[w].answer = "unmetered" THEN 0 ELSE worker[w].bill]]
  /\ Goto(w, "recorded")
  /\ UNCHANGED <<run, ledger, invoiced, Unpaid>>

\* The response is within its envelope and is a result of the agent's contract.
FinishSuccess(w) ==
  LET r == worker[w].run IN
  /\ worker[w].at = "recorded" /\ worker[w].answer = "completed"
  /\ worker[w].bill <= Reserve
  /\ Owns(w, {"RESPONSE_RECORDED"})
  /\ attempt' = [attempt EXCEPT ![r].status = "SUCCEEDED"]
  /\ run' = [run EXCEPT ![r].status = "SUCCEEDED", ![r].cost = worker[w].bill]
  /\ ledger' = Settled(ledger, run[r].period, worker[w].bill, 0)
  /\ Leave(w)
  /\ UNCHANGED <<invoiced, Unpaid>>

\* What finish_failure makes of an attempt, by what the worker holds of the provider.
FailedAttempt(answer) ==
  CASE answer = "completed" -> "SUCCEEDED"
    [] answer \in {"cut", "unmetered"} -> "FAILED_RESPONSE"
    [] OTHER -> "FAILED_NO_RESPONSE"

FailureCode(answer) ==
  CASE answer = "completed" -> "INVALID"
    [] answer \in {"cut", "unmetered"} -> "RETURNED"
    [] answer = "rejected" -> "REJECTED"
    [] OTHER -> "UNREADY"

FinishFailure(w) ==
  LET r == worker[w].run
      answer == worker[w].answer
      cost == IF answer \in {"completed", "cut"} THEN worker[w].bill ELSE 0
      owed == IF answer = "unmetered" THEN Reserve ELSE 0
  IN
  /\ worker[w].at \in {"recorded", "failing"}
  /\ Owns(w, IF worker[w].at = "recorded" THEN {"RESPONSE_RECORDED"}
                                          ELSE {"CLAIMED", "PROVIDER_STARTED"})
  /\ attempt' = [attempt EXCEPT ![r].status = FailedAttempt(answer), ![r].owed = owed]
  /\ run' = [run EXCEPT ![r].status = "FAILED", ![r].code = FailureCode(answer),
                        ![r].cost = cost]
  /\ ledger' = Settled(ledger, run[r].period, cost, owed)
  /\ Leave(w)
  /\ UNCHANGED <<invoiced, Unpaid>>

\* The run stays RUNNING: only an operator may close it.
MarkAttemptUnknown(w) ==
  /\ worker[w].at = "doubting" /\ Owns(w, {"PROVIDER_STARTED"})
  /\ attempt' = [attempt EXCEPT ![worker[w].run] =
                   [@ EXCEPT !.status = "UNKNOWN", !.owed = Reserve]]
  /\ Leave(w)
  /\ UNCHANGED <<run, ledger, invoiced, Unpaid>>

\* A write that finds its run or attempt changed raises AgentRunRecoveryConflict.
LateWorkerStops(w) ==
  /\ \/ worker[w].at = "claimed" /\ ~Owns(w, {"CLAIMED"})
     \/ worker[w].at = "answered" /\ worker[w].answer \in Responses
        /\ ~Owns(w, {"PROVIDER_STARTED"})
     \/ worker[w].at = "doubting" /\ ~Owns(w, {"PROVIDER_STARTED"})
     \/ worker[w].at = "recorded" /\ ~Owns(w, {"RESPONSE_RECORDED"})
     \/ worker[w].at = "failing" /\ ~Owns(w, {"CLAIMED", "PROVIDER_STARTED"})
  /\ Leave(w)
  /\ UNCHANGED <<rows, Unpaid>>

\* The process dies, or its activity is cancelled.
Crash(w) ==
  /\ worker[w].at # "idle" /\ faults < MaxFaults
  /\ faults' = faults + 1
  /\ Leave(w)
  /\ UNCHANGED <<rows, caller, period, provider>>

-----------------------------------------------------------------------------
(* Recovery: what a trusted operator does, one transaction each.           *)

\* get_stranded, FOR UPDATE.  A worker may take any time over any of its steps, so the lease
\* of a RUNNING run (MODEL_ATTEMPT_LEASE) may have expired wherever its worker is.
Stranded(r) ==
  /\ run[r].status = "RUNNING"
  /\ attempt[r].status \in {"CLAIMED", "PROVIDER_STARTED", "RESPONSE_RECORDED", "UNKNOWN"}

StrandedCode(r) ==
  CASE attempt[r].status = "CLAIMED" -> "STRANDED_BEFORE_PROVIDER"
    [] attempt[r].status = "RESPONSE_RECORDED" -> "STRANDED_RESPONSE_RECORDED"
    [] OTHER -> "STRANDED_PROVIDER_OUTCOME_UNKNOWN"

AbandonedAttempt(r) ==
  CASE attempt[r].status = "CLAIMED" -> "FAILED_NO_RESPONSE"
    [] attempt[r].status = "RESPONSE_RECORDED" -> "SUCCEEDED"
    [] OTHER -> "UNKNOWN"

AbandonedCost(r) == IF attempt[r].status = "RESPONSE_RECORDED" THEN attempt[r].cost ELSE 0
\* Mutant: only an attempt whose worker said so is of unknown cost.
AbandonedOwedIfMarked(r) == IF attempt[r].status = "UNKNOWN" THEN Reserve ELSE 0

AbandonedOwed(r) ==
  IF attempt[r].status \in {"PROVIDER_STARTED", "UNKNOWN"} THEN Reserve ELSE 0

\* The CHECK of model_attempts: only a completed response may end as SUCCEEDED.
Storable(status, response) == status = "SUCCEEDED" => response = "completed"

\* abandon_stranded: the attempt, the run and the ledger, or (the CHECK, the guarded updates)
\* nothing.
CanAbandon(r) ==
  /\ Stranded(r)
  /\ Storable(AbandonedAttempt(r), attempt[r].response)
  /\ ledger[run[r].period].reserved >= Reserve

AbandonAttempt(r) ==
  attempt' = [attempt EXCEPT ![r] =
    [@ EXCEPT !.status = AbandonedAttempt(r), !.owed = AbandonedOwed(r)]]

AbandonedRun(r) ==
  [run[r] EXCEPT !.status = "FAILED", !.code = StrandedCode(r), !.cost = AbandonedCost(r)]

\* Mutant: the unknown cost is not carried to the ledger.
AbandonedLedgerWithoutDoubt(r) == Settled(ledger, run[r].period, AbandonedCost(r), 0)

AbandonedLedger(r) == Settled(ledger, run[r].period, AbandonedCost(r), AbandonedOwed(r))

Abandon(r) ==
  /\ CanAbandon(r)
  /\ AbandonAttempt(r)
  /\ run' = [run EXCEPT ![r] = AbandonedRun(r)]
  /\ ledger' = AbandonedLedger(r)
  /\ UNCHANGED <<invoiced, caller, worker, period, provider, faults>>

\* get_known_failed_no_response: a rejection that cost nothing, and no successor yet.
KnownFailure(r) ==
  /\ run[r].status = "FAILED" /\ run[r].code = "REJECTED" /\ run[r].cost = 0
  /\ attempt[r].status = "FAILED_NO_RESPONSE" /\ attempt[r].owed = 0
  /\ r \notin invoiced
  /\ \A s \in Runs : run[s].of # r

RecoveryKey(r) == <<"recovery", r>>

\* rerun_as_new: one transaction closes the stranded run, reserves in the current period and
\* inserts the successor.
RerunStranded(r, s) ==
  /\ CanAbandon(r) /\ Fresh(s)
  /\ HasRoom(AbandonedLedger(r), period)
  /\ LET closed == [run EXCEPT ![r] = AbandonedRun(r)]
         new == Pending(RecoveryKey(r), run[r].product, r)
     IN  Unique(new, closed) /\ run' = [closed EXCEPT ![s] = new]
  /\ AbandonAttempt(r)
  /\ ledger' = Reserved(AbandonedLedger(r), period)
  /\ UNCHANGED <<invoiced, caller, worker, period, provider, faults>>

\* Mutant: a second operator's order is not compared with what the first one left.
RerunRegardless(r, s) ==
  /\ run[r].status = "FAILED" /\ run[r].code = "REJECTED" /\ Fresh(s)
  /\ HasRoom(ledger, period)
  /\ run' = [run EXCEPT ![s] = Pending(RecoveryKey(r), run[r].product, r)]
  /\ ledger' = Reserved(ledger, period)
  /\ UNCHANGED <<attempt, invoiced, caller, worker, period, provider, faults>>

RerunKnownFailure(r, s) ==
  /\ KnownFailure(r) /\ Fresh(s)
  /\ HasRoom(ledger, period)
  /\ LET new == Pending(RecoveryKey(r), run[r].product, r)
     IN  Unique(new, run) /\ run' = [run EXCEPT ![s] = new]
  /\ ledger' = Reserved(ledger, period)
  /\ UNCHANGED <<attempt, invoiced, caller, worker, period, provider, faults>>

\* The provider's invoice says what the run cost.
ReconcileUnknownCost(r) ==
  /\ run[r].status = "FAILED" /\ attempt[r].owed > 0 /\ r \notin invoiced
  /\ \/ attempt[r].status = "UNKNOWN" /\ run[r].code = "STRANDED_PROVIDER_OUTCOME_UNKNOWN"
     \/ attempt[r].status = "FAILED_RESPONSE"
  /\ ledger[run[r].period].unknown >= attempt[r].owed
  /\ invoiced' = invoiced \cup {r}
  /\ ledger' = [ledger EXCEPT ![run[r].period].unknown = @ - attempt[r].owed,
                              ![run[r].period].actual = @ + billed[r]]
  /\ UNCHANGED <<run, attempt, caller, worker, period, provider, faults>>

-----------------------------------------------------------------------------
(* Surroundings.                                                           *)

NextPeriod ==
  /\ period < MaxPeriod
  /\ period' = period + 1
  /\ UNCHANGED <<rows, caller, worker, provider, faults>>

Init ==
  /\ run = [r \in Runs |-> Absent]
  /\ attempt = [r \in Runs |-> Unclaimed]
  /\ ledger = [p \in Periods |-> [admitted |-> 0, reserved |-> 0, actual |-> 0, unknown |-> 0]]
  /\ invoiced = {}
  /\ caller = [c \in Callers |-> None]
  /\ worker = [w \in Workers |-> Idle]
  /\ period = 1 /\ faults = 0
  /\ calls = [r \in Runs |-> 0]
  /\ billed = [r \in Runs |-> 0]

Admission ==
  \/ \E c \in Callers, k \in Keys : Request(c, k)
  \/ \E c \in Callers, r \in Runs : Admit(c, r)
  \/ \E c \in Callers : GiveUp(c)

\* What the code of a worker does, and its calls to the provider, which time out.
Execute(w) ==
  \/ RefuseInvocation(w) \/ MarkProviderStarted(w)
  \/ \E b \in Bills \cup {0} : CallProvider(w, b)
  \/ \E a \in Answers : Answer(w, a)
  \/ TryAgain(w) \/ EndCall(w) \/ RecordResponse(w)
  \/ FinishSuccess(w) \/ FinishFailure(w) \/ MarkAttemptUnknown(w) \/ LateWorkerStops(w)

Recovery(r) ==
  \/ Abandon(r) \/ ReconcileUnknownCost(r)
  \/ \E s \in Runs : RerunStranded(r, s) \/ RerunKnownFailure(r, s)

Next ==
  \/ Admission
  \/ \E w \in Workers, r \in Runs : Claim(w, r)
  \/ \E w \in Workers : Execute(w) \/ Crash(w)
  \/ \E r \in Runs : Recovery(r)
  \/ NextPeriod

Spec == Init /\ [][Next]_vars

-----------------------------------------------------------------------------
(* Properties.                                                             *)

TypeOK ==
  /\ run \in [Runs -> [status : RunStatuses,
                       key : Keys \cup {RecoveryKey(r) : r \in Runs} \cup {None},
                       product : Products \cup {None}, period : Periods,
                       of : Runs \cup {None}, code : Codes \cup {None}, cost : Charges]]
  /\ attempt \in [Runs -> [status : AttemptStatuses,
                           response : Responses \cup {None}, cost : Charges, owed : {0, Reserve}]]
  /\ ledger \in [Periods -> [admitted : Nat, reserved : Int, actual : Nat, unknown : Int]]
  /\ invoiced \subseteq Runs
  /\ caller \in [Callers -> Keys \cup {None}]
  /\ worker \in [Workers -> [at : {"idle", "claimed", "started", "calling", "answered",
                                   "recorded", "failing", "doubting"},
                             run : Runs \cup {None}, tries : 0..MaxTransport,
                             answer : Answers \cup {None, "unready"}, bill : Bills \cup {0}]]
  /\ period \in Periods /\ faults \in 0..MaxFaults
  /\ calls \in [Runs -> Nat] /\ billed \in [Runs -> Charges]

\* The runs a period admitted, and those of them that may have cost their reservation.
InDoubt(r) == Terminal(r) /\ attempt[r].owed > 0 /\ r \notin invoiced
In(p) == {r \in Runs : run[r].status # "NONE" /\ run[r].period = p}

\* The counters of a budget period, which five transactions update with deltas, are what its
\* runs, attempts and reconciliations say: each reservation left it once (_settle_budget,
\* abandon_stranded, reconcile_unknown_cost).
LedgerMatchesRuns ==
  \A p \in Periods :
    /\ ledger[p].admitted = Cardinality(In(p))
    /\ ledger[p].reserved = Reserve * Cardinality({r \in In(p) : Active(r)})
    /\ ledger[p].unknown = Reserve * Cardinality({r \in In(p) : InDoubt(r)})

\* Only the worker that claimed a run ever calls the provider for it, only after saying so
\* in the row, and at most MAX_PROVIDER_TRANSPORT_ATTEMPTS times: neither a lapsed lease nor
\* a recovery makes anyone else repeat its inference.
OneCaller ==
  /\ \A r \in Runs : calls[r] <= MaxTransport
  /\ \A r \in Runs : calls[r] > 0 => attempt[r].status \notin {"NONE", "CLAIMED"}
  /\ \A v, w \in Workers : worker[v].run = worker[w].run /\ worker[v].run # None => v = w

\* What is settled for an inference that was sent once is what the provider charged for it;
\* a run that is closed without a charge, by its worker or by an operator who found it
\* stranded, was never charged.
ChargesAreTrue ==
  \A r \in Runs : Terminal(r) /\ calls[r] <= 1 =>
    \/ attempt[r].status \in {"SUCCEEDED", "FAILED_RESPONSE"} /\ attempt[r].owed = 0
       /\ run[r].cost = billed[r]
    \/ attempt[r].status = "FAILED_NO_RESPONSE" /\ billed[r] = 0
    \/ attempt[r].owed = Reserve

\* A run has one successor, which replaces a closed run that has no result.
SuccessorsFollowClosedRuns ==
  \A s \in Runs : run[s].of # None =>
    /\ run[run[s].of].status = "FAILED"
    /\ run[run[s].of].code \in StrandedCodes \cup {"REJECTED"}
    /\ \A t \in Runs : run[t].of = run[s].of => s = t

\* A closed run stays as it was closed, whoever wakes up late: its worker, whose answer comes
\* after an operator gave the run up, or a second operator.
ClosedRunsRest ==
  [][\A r \in Runs : Terminal(r) => run'[r] = run[r] /\ attempt'[r] = attempt[r]]_vars

\* The money of the runs, as BudgetOnce sees it.
Money(r) ==
  CASE run[r].status = "NONE" -> "none"
    [] Active(r) -> "held"
    [] OTHER -> IF attempt[r].owed > 0 /\ r \notin invoiced THEN "owed" ELSE "settled"

absStage == [r \in Runs |-> [money |-> Money(r), period |-> run[r].period]]
absAccount == [p \in Periods |-> [held |-> ledger[p].reserved, owed |-> ledger[p].unknown,
                                  spent |-> ledger[p].actual]]

Budget == INSTANCE BudgetOnce WITH stage <- absStage, account <- absAccount

\* Whatever workers, callers and operators do at the same time, a reservation is made only
\* when there is room for it and leaves the ledger once (BudgetOnce).
ImplementsBudgetOnce == Budget!Spec

=============================================================================
