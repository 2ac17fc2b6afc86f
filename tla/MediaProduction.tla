--------------------------- MODULE MediaProduction ---------------------------
(***************************************************************************)
(* Producing the media of one approved ProductionPlan: the plan's          *)
(* MediaProductionWorkflow runs its GenerationJobs one after the other     *)
(* (infrastructure/temporal/workflows.py), an activity carries each one    *)
(* through the Tool Gateway to a paid provider (production/execution.py),  *)
(* the job's row is the truth about it and about the money it may have     *)
(* cost (infrastructure/database/production_authority.py), and an operator *)
(* recovers what was left behind (production/service.py).                  *)
(*                                                                         *)
(* The gateway is taken at its promise (EffectOnce): it attempts an        *)
(* operation again only after an attempt known to have had no effect.  The *)
(* outbox is taken at its promise too: an event is handled until a handler *)
(* succeeds, and may be handled again.  A database transaction is a step.  *)
(***************************************************************************)
EXTENDS Integers, Sequences, FiniteSets, FiniteSetsExt

CONSTANTS
  Order,         \* the jobs of the plan, images first (DatabaseProductionJobSetResolver)
  Images,        \* the jobs that are images; the others are videos
  Reserved,      \* the reservation of a job, which is what its provider charges
  Workers,       \* activity slots of the worker processes
  InitialCap,    \* LIVE_E2E_MAX_USD, and
  HigherCaps,    \* what it may be raised to
  MaxOther,      \* bound on what other plans of the product commit
  MaxTries,      \* attempts of an activity (GENERATION_RETRY_POLICY)
  MaxPolls,      \* bound on the polls of a task that find it running
  MaxOrders,     \* bound on what operators order
  MaxFaults,     \* bound on crashes, exceptions, time-outs and repeated deliveries
  Patient,       \* no attempt to start a video outlives its time-out
  Expires        \* whether the three days of a run pass

Jobs == {Order[i] : i \in DOMAIN Order}

ASSUME MediaAssumption ==
  /\ Order \in Seq(Jobs) /\ Order # <<>> /\ Images \subseteq Jobs
  /\ Reserved \in [Jobs -> Nat \ {0}]
  /\ {InitialCap, MaxOther, MaxPolls, MaxOrders, MaxFaults} \subseteq Nat /\ HigherCaps \subseteq Nat
  /\ MaxTries \in Nat \ {0}
  /\ {Patient, Expires} \subseteq BOOLEAN

VARIABLES
  job,        \* production.generation_jobs
  tasks,      \* external: the creates that left for the providers, per job
  closed,     \* the operation ids the gateway will not attempt (any more)
  flow,       \* the plan's workflow in Temporal
  act,        \* the activity attempt each worker is at
  requests,   \* events of the outbox that ask for a run
  sent,       \* ids of the events appended so far (pk_outbox_events)
  order,      \* what an operator decided on what the resolver showed
  cap,        \* LIVE_E2E_MAX_USD
  other,      \* committed by other plans of the product
  accepted,   \* history: how often a duplicate of a job was accepted
  polls,      \* bound: polls of each job that found its task running
  orders,     \* bound: orders so far
  faults      \* bound: faults so far

office == <<requests, sent, order, cap, other, accepted, orders>>
vars == <<job, tasks, closed, flow, act, polls, faults, office>>

-----------------------------------------------------------------------------
(* The row of a job.                                                       *)

Statuses == {"READY", "BLOCKED_SPEND_CAP", "STARTING", "PROCESSING", "IMPORTING",
             "SUCCEEDED", "FAILED", "OUTCOME_UNKNOWN"}
Executable == {"READY", "STARTING", "PROCESSING", "IMPORTING"}
Codes == {"none", "cap_reached", "cap_retry", "risk_accepted", "failure_retry",
          "stranded", "confirmed", "rejected"}

FreshRow == [status |-> "READY", ref |-> 0, unknown |-> 0, code |-> "none",
             identity |-> "nobody", updated_at |-> 0]

\* GenerationJob.transition, as far as the workers use it.
Allowed(from, to) ==
  \/ from = "READY"      /\ to \in {"STARTING", "BLOCKED_SPEND_CAP"}
  \/ from = "STARTING"   /\ to \in {"PROCESSING", "IMPORTING", "FAILED", "OUTCOME_UNKNOWN"}
  \/ from = "PROCESSING" /\ to \in {"PROCESSING", "IMPORTING", "FAILED"}
  \/ from = "IMPORTING"  /\ to \in {"SUCCEEDED", "FAILED"}

\* The row a worker's transition leaves behind.  ref is the index of the
\* provider's task among those of the job, 0 for none.
Changed(j, to, ref, code) ==
  [job[j] EXCEPT
    !.status     = to,
    !.ref        = IF ref = 0 THEN @ ELSE ref,
    !.unknown    = IF to = "OUTCOME_UNKNOWN" THEN @ + Reserved[j] ELSE @,
    !.code       = code,
    !.identity   = "both",
    !.updated_at = @ + 1]

\* ck_generation_jobs_execution_identity: a READY row names no executing
\* workload, any other names it and the user it works for.
SatisfiesCheck(row) ==
  IF row.status = "READY" THEN row.identity = "nobody" ELSE row.identity = "both"

\* product_media_spend_requirement.  Actual costs are those of successes: a
\* failure is recorded with none, so the history of attempts adds nothing.
Counted(j) ==
  IF job[j].status \in {"FAILED", "OUTCOME_UNKNOWN"} THEN job[j].unknown
                                                     ELSE Reserved[j] + job[j].unknown
Committed == MapThenSumSet(Counted, Jobs) + other

\* Mutant: the cap is compared with what this job reserves.
OverCapAlone(j) == job[j].status = "READY" /\ Reserved[j] > cap

\* SqlAlchemyGenerationAuthority.prepare, on the row as it is now.
OverCap(j)  == job[j].status = "READY" /\ Committed > cap
Prepares(j) == job[j].status \in Executable /\ ~ OverCap(j)

Unspent(j) == job[j].ref = 0 /\ job[j].unknown = 0

-----------------------------------------------------------------------------
(* The workflow and its activity attempts.                                 *)

Resting == [pc |-> "idle", job |-> Order[1], seen |-> FreshRow, ref |-> 0, live |-> FALSE]

Init ==
  /\ job = [j \in Jobs |-> FreshRow] /\ tasks = [j \in Jobs |-> <<>>]
  /\ closed = {}
  /\ flow = [state |-> "missing", run |-> 0, at |-> 1, try |-> 1, worker |-> {},
             late |-> FALSE]
  /\ act = [w \in Workers |-> Resting]
  /\ requests = {[kind |-> "approve", jobs |-> {}]} /\ sent = {}
  /\ order = {} /\ cap = InitialCap /\ other = 0
  /\ accepted = [j \in Jobs |-> 0] /\ polls = [j \in Jobs |-> 0]
  /\ orders = 0 /\ faults = 0

NextJob  == [flow EXCEPT !.at = @ + 1, !.try = 1, !.worker = {}]
SameJob  == [flow EXCEPT !.try = 1, !.worker = {}]
RunOver  == [flow EXCEPT !.state = "completed", !.worker = {}]
LastJob  == flow.at = Len(Order)
UnderWay(j, status) == j \notin Images /\ status \in {"PROCESSING", "IMPORTING"}

\* Mutant: a run that is late goes on polling.
AdvancedForEver(j, status) ==
  CASE status = "SUCCEEDED" /\ ~ LastJob -> NextJob
    [] UnderWay(j, status)               -> SameJob
    [] OTHER                             -> RunOver

\* MediaProductionWorkflow.run: what the result of a job makes of the run.
\* Only videos are polled; any other result ends the run, without an error.
Advanced(j, status) ==
  CASE status = "SUCCEEDED" /\ ~ LastJob   -> NextJob
    [] UnderWay(j, status) /\ ~ flow.late -> SameJob
    [] OTHER                              -> RunOver

GivenUp == [flow EXCEPT !.state = "failed", !.worker = {}]

\* Mutant: one attempt too many.
RetriedOnceMore == IF flow.try <= MaxTries THEN [flow EXCEPT !.try = @ + 1, !.worker = {}] ELSE GivenUp

Retried == IF flow.try < MaxTries THEN [flow EXCEPT !.try = @ + 1, !.worker = {}] ELSE GivenUp

\* The attempt returns a status, or raises.  Nobody hears of an attempt that
\* has been given up.
Returns(w, status) ==
  /\ act' = [act EXCEPT ![w] = Resting]
  /\ IF act[w].live THEN flow' = Advanced(act[w].job, status) ELSE flow' = flow
Raises(w, next) ==
  /\ act' = [act EXCEPT ![w] = Resting]
  /\ flow' = IF act[w].live THEN next ELSE flow

Goes(w, pc) == act' = [act EXCEPT ![w].pc = pc]
At(w, pc)   == act[w].pc = pc
Write(j, row) == job' = [job EXCEPT ![j] = row]

\* GovernedProductionJobExecutor.execute reads the job ...
Begin(w) ==
  /\ flow.state = "running" /\ flow.worker = {} /\ At(w, "idle")
  /\ LET j == Order[flow.at] IN
       IF job[j].status \in Executable
       THEN /\ act' = [act EXCEPT ![w] = [pc |-> "prepare", job |-> j, seen |-> job[j],
                                          ref |-> 0, live |-> TRUE]]
            /\ flow' = [flow EXCEPT !.worker = {w}]
       ELSE act' = act /\ flow' = Advanced(j, job[j].status)
  /\ UNCHANGED <<job, tasks, closed, polls, faults, office>>

\* ... prepares it in a second transaction, and decides on the row read first
\* what is to be done.
CanInvoke(j, seen) ==
  \/ seen.status = "READY"
  \/ seen.status \in {"PROCESSING", "IMPORTING"} /\ j \notin Images
LostStart(seen) == seen.status = "STARTING" /\ seen.ref = 0

Prepare(w) ==
  LET j == act[w].job  seen == act[w].seen IN
  /\ At(w, "prepare")
  /\ CASE job[j].status \notin Executable -> Raises(w, Retried)
       [] OverCap(j)                      -> Goes(w, "capped") /\ UNCHANGED flow
       [] Prepares(j) /\ LostStart(seen)  -> Goes(w, "lost") /\ UNCHANGED flow
       [] Prepares(j) /\ CanInvoke(j, seen) -> Goes(w, "invoke") /\ UNCHANGED flow
       [] OTHER                           -> Raises(w, Retried)
  /\ UNCHANGED <<job, tasks, closed, polls, faults, office>>

\* A denial by the cap keeps a READY row whose exposure is unknown; otherwise
\* spend_cap_blocked writes the block, with the workload and without the user.
CapDenied(w) ==
  LET j == act[w].job
      row == [job[j] EXCEPT !.status = "BLOCKED_SPEND_CAP", !.code = "cap_reached",
                            !.identity = "worker", !.updated_at = @ + 1]
  IN
  /\ At(w, "capped")
  /\ CASE job[j].status = "BLOCKED_SPEND_CAP"           -> Raises(w, GivenUp) /\ UNCHANGED job
       [] job[j].status = "READY" /\ job[j].ref = 0 /\ job[j].unknown > 0
                                                        -> Returns(w, "READY") /\ UNCHANGED job
       [] job[j].status = "READY" /\ Unspent(j) /\ SatisfiesCheck(row)
                                                        -> Write(j, row) /\ Raises(w, GivenUp)
       [] OTHER                                         -> Raises(w, Retried) /\ UNCHANGED job
  /\ UNCHANGED <<tasks, closed, polls, faults, office>>

\* Mutant: a start without a reference is taken for one that never left.
ConvergeByRetry(w) ==
  LET j == act[w].job IN
  /\ At(w, "lost")
  /\ IF job[j].status = "STARTING"
     THEN Write(j, [job[j] EXCEPT !.status = "READY", !.identity = "nobody", !.updated_at = @ + 1])
     ELSE UNCHANGED job
  /\ Raises(w, Retried)
  /\ UNCHANGED <<tasks, closed, polls, faults, office>>

\* STARTING without a reference: whether a task exists is unknown.
ConvergeLostStart(w) ==
  LET j == act[w].job IN
  /\ At(w, "lost")
  /\ IF Allowed(job[j].status, "OUTCOME_UNKNOWN")
     THEN Write(j, Changed(j, "OUTCOME_UNKNOWN", 0, "none")) /\ Returns(w, "OUTCOME_UNKNOWN")
     ELSE UNCHANGED job /\ Raises(w, Retried)
  /\ UNCHANGED <<tasks, closed, polls, faults, office>>

-----------------------------------------------------------------------------
(* Behind the gateway.  The operation id is a digest of the job and of the *)
(* status and time of the row read first.  An operation that is under way, *)
(* ambiguous or settled is not executed; the executor's exceptions leave   *)
(* it ambiguous, a PreEffectFailure opens it again.                        *)

OpOf(w) == <<act[w].job, act[w].seen.updated_at>>

Invoke(w) ==
  /\ At(w, "invoke")
  /\ closed' = closed \cup {OpOf(w)}
  /\ Goes(w, IF OpOf(w) \in closed THEN "report" ELSE "execute")
  /\ UNCHANGED <<job, tasks, flow, polls, faults, office>>

\* The executors prepare the job once more.
Execute(w) ==
  LET j == act[w].job  starts == act[w].seen.status = "READY" IN
  /\ At(w, "execute")
  /\ IF Prepares(j) /\ (starts \/ job[j].ref # 0)
     THEN act' = [act EXCEPT ![w].pc = IF starts THEN "start"
                                       ELSE IF act[w].seen.status = "PROCESSING" THEN "poll" ELSE "import",
                             ![w].ref = job[j].ref]
     ELSE Goes(w, "report")
  /\ closed' = IF Prepares(j) /\ ~ starts /\ job[j].ref = 0 THEN closed \ {OpOf(w)} ELSE closed
  /\ UNCHANGED <<job, tasks, flow, polls, faults, office>>

\* _transition within an executor: when it is refused, the operation stays
\* ambiguous and the attempt reports the row.
Records(w, to, ref, code, next) ==
  LET j == act[w].job IN
  IF Allowed(job[j].status, to)
  THEN Write(j, Changed(j, to, ref, code)) /\ Goes(w, next)
  ELSE UNCHANGED job /\ Goes(w, "report")

\* STARTING is committed before the request leaves.
Start(w) ==
  /\ At(w, "start")
  /\ Records(w, "STARTING", 0, "none", "create")
  /\ UNCHANGED <<tasks, closed, flow, polls, faults, office>>

Create(w) ==
  LET j == act[w].job IN
  /\ At(w, "create")
  /\ tasks' = [tasks EXCEPT ![j] = Append(@, "sent")]
  /\ act' = [act EXCEPT ![w].pc = "answer", ![w].ref = Len(tasks[j]) + 1]
  /\ UNCHANGED <<job, closed, flow, polls, faults, office>>

Become(w, state) == tasks' = [tasks EXCEPT ![act[w].job][act[w].ref] = state]

Accepted(w) ==
  /\ At(w, "answer")
  /\ IF act[w].job \in Images
     THEN Become(w, "done") /\ Records(w, "IMPORTING", 0, "none", "store")
     ELSE Become(w, "running") /\ Records(w, "PROCESSING", act[w].ref, "none", "report")
  /\ UNCHANGED <<closed, flow, polls, faults, office>>

\* MediaProviderError: the provider refused, or what it made of an image, and
\* charges for, cannot be read.
Refused(w) ==
  LET j == act[w].job IN
  /\ At(w, "answer")
  /\ \/ Become(w, "refused")
     \/ j \in Images /\ Become(w, "done")
  /\ Records(w, "FAILED", 0, "rejected", "report")
  /\ closed' = IF Allowed(job[j].status, "FAILED") THEN closed \ {OpOf(w)} ELSE closed
  /\ UNCHANGED <<flow, polls, faults, office>>

\* MediaProviderOutcomeUnknown: the answer is lost, whatever it was.
AnswerLost(w) ==
  /\ At(w, "answer")
  /\ \E state \in {"running", "done", "refused"} : Become(w, state)
  /\ Records(w, "OUTCOME_UNKNOWN", 0, "none", "report")
  /\ UNCHANGED <<closed, flow, polls, faults, office>>

StoreImage(w) ==
  /\ At(w, "store")
  /\ Records(w, "SUCCEEDED", 0, "none", "report")
  /\ UNCHANGED <<tasks, closed, flow, polls, faults, office>>

\* Mutant: a task that is still running is taken for a failed one.
PollImpatient(w) ==
  LET j == act[w].job  state == tasks[j][act[w].ref] IN
  /\ At(w, "poll")
  /\ \/ state = "done" /\ Records(w, "IMPORTING", 0, "none", "report")
     \/ state # "done" /\ Records(w, "FAILED", 0, "confirmed", "report")
  /\ UNCHANGED <<tasks, closed, flow, polls, faults, office>>

\* VideoStatusToolExecutor
Poll(w) ==
  LET j == act[w].job  state == tasks[j][act[w].ref] IN
  /\ At(w, "poll")
  /\ \/ state = "running" /\ polls[j] < MaxPolls
        /\ Records(w, "PROCESSING", 0, "none", "report")
     \/ state = "done" /\ Records(w, "IMPORTING", 0, "none", "report")
     \/ state = "dead" /\ Records(w, "FAILED", 0, "confirmed", "report")
  /\ polls' = [polls EXCEPT ![j] = IF state = "running" THEN @ + 1 ELSE @]
  /\ UNCHANGED <<tasks, closed, flow, faults, office>>

\* VideoImportToolExecutor
Import(w) ==
  LET j == act[w].job  done == tasks[j][act[w].ref] = "done" IN
  /\ At(w, "import")
  /\ IF done THEN Records(w, "SUCCEEDED", 0, "none", "report")
             ELSE Goes(w, "report") /\ UNCHANGED job
  /\ closed' = IF done THEN closed ELSE closed \ {OpOf(w)}
  /\ UNCHANGED <<tasks, flow, polls, faults, office>>

\* Mutant: a poll that fails fails the job.
PollFailureFailsJob(w) ==
  /\ act[w].pc \in {"poll", "import"} /\ faults < MaxFaults
  /\ Records(w, "FAILED", 0, "confirmed", "report") /\ faults' = faults + 1
  /\ UNCHANGED <<tasks, closed, flow, polls, office>>

\* A poll or a download fails: PreEffectFailure.
PollFails(w) ==
  /\ act[w].pc \in {"poll", "import"} /\ faults < MaxFaults
  /\ closed' = closed \ {OpOf(w)} /\ Goes(w, "report") /\ faults' = faults + 1
  /\ UNCHANGED <<job, tasks, flow, polls, office>>

\* The attempt answers with the row as it is now.
Report(w) ==
  /\ At(w, "report")
  /\ Returns(w, job[act[w].job].status)
  /\ UNCHANGED <<job, tasks, closed, polls, faults, office>>

-----------------------------------------------------------------------------
(* Faults.                                                                 *)

\* Any other exception: the database, the object store, an authority that is
\* no longer valid.  Inside an executor the gateway absorbs it.
Stumble(w) ==
  /\ faults < MaxFaults /\ faults' = faults + 1
  /\ \/ act[w].pc \in {"prepare", "capped", "lost", "invoke", "report"} /\ Raises(w, Retried)
     \/ act[w].pc \in {"execute", "start", "poll", "import", "store"}
        /\ Goes(w, "report") /\ UNCHANGED flow
  /\ UNCHANGED <<job, tasks, closed, polls, office>>

Crash(w) ==
  /\ ~ At(w, "idle") /\ faults < MaxFaults /\ faults' = faults + 1
  /\ act' = [act EXCEPT ![w] = Resting]
  /\ UNCHANGED <<job, tasks, closed, flow, polls, office>>

\* Mutant: no time-out for an attempt whose worker died.
GiveUpOnTheSlow(w) ==
  /\ flow.worker = {w} /\ act[w].live /\ ~ Patient
  /\ flow' \in {Retried, GivenUp}
  /\ faults < MaxFaults /\ faults' = faults + 1
  /\ act' = [act EXCEPT ![w].live = FALSE]
  /\ UNCHANGED <<job, tasks, closed, polls, office>>

\* start_to_close_timeout of an attempt whose worker died, or is slow and goes
\* on unheard; schedule_to_close_timeout may end the retries.
GiveUpOn(w) ==
  /\ flow.worker = {w}
  /\ flow' \in {Retried, GivenUp}
  /\ \/ ~ act[w].live /\ UNCHANGED <<act, faults>>
     \/ /\ act[w].live /\ faults < MaxFaults /\ faults' = faults + 1
        /\ Patient => act[w].seen.status # "READY" \/ act[w].job \in Images
        /\ act' = [act EXCEPT ![w].live = FALSE]
  /\ UNCHANGED <<job, tasks, closed, polls, office>>

\* The provider finishes a video.
TaskEnds(j, i, state) ==
  /\ tasks[j][i] = "running" /\ state \in {"done", "dead"}
  /\ tasks' = [tasks EXCEPT ![j][i] = state]
  /\ UNCHANGED <<job, closed, flow, act, polls, faults, office>>

\* The deadline of the run, three days after its images, passes.
DeadlinePasses ==
  /\ Expires /\ flow.state = "running" /\ Order[flow.at] \notin Images /\ ~ flow.late
  /\ flow' = [flow EXCEPT !.late = TRUE]
  /\ UNCHANGED <<job, tasks, closed, act, polls, faults, office>>

-----------------------------------------------------------------------------
(* The outbox's handler, and what operators do.                            *)

ReadyJobs == {j \in Jobs : job[j].status = "READY"}

\* StartMediaProductionWorkflow: the identity check on the READY jobs, then
\* ALLOW_DUPLICATE_FAILED_ONLY for approvals and cap retries, ALLOW_DUPLICATE
\* for recoveries, and no second run beside an active one.
SameJobs(r) ==
  CASE r.kind = "approve"      -> TRUE
    [] r.kind = "retry_failed" -> r.jobs \subseteq ReadyJobs
    [] OTHER                   -> r.jobs = ReadyJobs
Tolerates(r) == r.kind \in {"approve", "retry_capped"} /\ flow.state \in {"running", "completed"}

Deliver(r) ==
  /\ SameJobs(r)
  /\ Tolerates(r) \/ flow.state # "running"
  /\ flow' = IF Tolerates(r) THEN flow
             ELSE [state |-> "running", run |-> flow.run + 1, at |-> 1, try |-> 1, worker |-> {},
                   late |-> FALSE]
  /\ \/ requests' = requests \ {r} /\ faults' = faults
     \/ requests' = requests /\ faults < MaxFaults /\ faults' = faults + 1
  /\ UNCHANGED <<job, tasks, closed, act, polls, sent, order, cap, other, accepted, orders>>

\* SqlAlchemyCreativeCycleRepository.observe_pipeline and
\* PipelineStateService.resolve_next_action.
Some(status) == \E j \in Jobs : job[j].status = status
Stranded == {j \in Jobs : job[j].status = "STARTING" /\ job[j].ref = 0 /\ job[j].unknown = 0}
Ambiguous == {j \in Jobs : job[j].status = "OUTCOME_UNKNOWN" /\ job[j].ref = 0 /\ job[j].unknown > 0}
Failed == {j \in Jobs : job[j].status = "FAILED" /\ job[j].ref # 0 /\ job[j].code = "confirmed"}
Settled(S) == \A j \in Jobs \ S : job[j].status \in {"READY", "SUCCEEDED"}
MediaState ==
  CASE Some("OUTCOME_UNKNOWN")                                  -> "OUTCOME_UNKNOWN"
    [] ~ Some("OUTCOME_UNKNOWN") /\ Some("FAILED")              -> "FAILED"
    [] ~ Some("OUTCOME_UNKNOWN") /\ ~ Some("FAILED")
       /\ Some("BLOCKED_SPEND_CAP")                             -> "BLOCKED_SPEND_CAP"
    [] \A j \in Jobs : job[j].status = "SUCCEEDED"              -> "SUCCEEDED"
    [] Settled({}) /\ ReadyJobs # {} -> IF Committed > cap THEN "BLOCKED_SPEND_CAP" ELSE "READY"
    [] OTHER                                                    -> "RUNNING"
Quiet == flow.state # "running"

Offered(kind) ==
  CASE kind = "recover_stranded" -> MediaState = "RUNNING" /\ Stranded # {} /\ Quiet
    [] kind = "abandon_unknown"  -> MediaState = "OUTCOME_UNKNOWN" /\ Ambiguous # {}
    [] kind = "retry_failed"     -> MediaState = "FAILED" /\ Failed # {} /\ Quiet
    [] kind = "restart_ready"    -> MediaState = "READY" /\ Quiet
    [] kind = "retry_capped"     -> \/ MediaState = "BLOCKED_SPEND_CAP"
                                    \/ MediaState = "READY" /\ ~ Quiet
Kinds == {"recover_stranded", "abandon_unknown", "retry_failed", "restart_ready", "retry_capped"}
Chosen(kind) ==
  CASE kind = "recover_stranded" -> Stranded
    [] kind = "abandon_unknown"  -> Ambiguous
    [] kind = "retry_failed"     -> Failed
    [] OTHER                     -> ReadyJobs

\* PipelineActionExecutor.execute binds the transition id, and so the id of
\* the event, to the workflow's run for two kinds of order only.
TransitionId(kind) ==
  <<kind, IF kind \in {"retry_failed", "restart_ready"} THEN flow.run ELSE 0>>

Observe(kind) ==
  /\ order = {} /\ orders < MaxOrders
  /\ Offered(kind)
  /\ order' = {[kind |-> kind, jobs |-> Chosen(kind), id |-> TransitionId(kind)]}
  /\ orders' = orders + 1
  /\ UNCHANGED <<job, tasks, closed, flow, act, polls, faults, requests, sent, cap, other, accepted>>

\* What the operations of ProductionService demand of the rows.
Reservation(S) == MapThenSumSet(LAMBDA j : Reserved[j], S)
MayRecover(o) == o.jobs \subseteq Stranded
MayAbandon(o) == o.jobs \subseteq Ambiguous /\ Committed + Reservation(o.jobs) <= cap
MayRetryFailed(o) ==
  /\ o.jobs \subseteq Failed /\ Settled(o.jobs)
  /\ Committed + Reservation(o.jobs) <= cap
MayRestart(o) ==
  /\ o.jobs = ReadyJobs /\ ReadyJobs # {} /\ Settled({})
  /\ \A j \in ReadyJobs : /\ job[j].ref = 0
                          /\ IF job[j].unknown > 0 THEN job[j].code = "risk_accepted"
                             ELSE job[j].code \in {"none", "cap_retry"}
MayRetryCapped ==
  LET S == {j \in Jobs : job[j].status # "SUCCEEDED"} IN
  /\ S # {} /\ \A j \in S : /\ job[j].status \in {"READY", "BLOCKED_SPEND_CAP"}
                            /\ Unspent(j) /\ job[j].code \in {"none", "cap_reached"}
  /\ Committed <= cap
Admits(o) ==
  \/ o.kind = "recover_stranded" /\ MayRecover(o)
  \/ o.kind = "abandon_unknown"  /\ MayAbandon(o)
  \/ o.kind = "retry_failed"     /\ MayRetryFailed(o)
  \/ o.kind = "restart_ready"    /\ MayRestart(o)
  \/ o.kind = "retry_capped"     /\ MayRetryCapped

\* What they write: recover_stranded_starts, retry_unknown_media_jobs,
\* retry_confirmed_failed_media_jobs and requeue_spend_cap_jobs.
\* Mutant: a stranded start is recovered as if it had cost nothing.
RecoveredForFree(j) ==
  [job[j] EXCEPT !.status = "OUTCOME_UNKNOWN", !.code = "stranded", !.updated_at = @ + 1]

Recovered(j) ==
  [job[j] EXCEPT !.status = "OUTCOME_UNKNOWN", !.unknown = Reserved[j],
                 !.code = "stranded", !.updated_at = @ + 1]
Abandoned(j) ==
  [job[j] EXCEPT !.status = "READY", !.code = "risk_accepted", !.identity = "nobody",
                 !.updated_at = @ + 1]
RetriedRow(j) ==
  [job[j] EXCEPT !.status = "READY", !.ref = 0, !.code = "failure_retry", !.identity = "nobody",
                 !.updated_at = @ + 1]
Requeued(j) == [job[j] EXCEPT !.status = "READY", !.code = "cap_retry", !.updated_at = @ + 1]
Rows(o) ==
  [j \in Jobs |->
    CASE o.kind = "recover_stranded" /\ j \in o.jobs -> Recovered(j)
      [] o.kind = "abandon_unknown"  /\ j \in o.jobs -> Abandoned(j)
      [] o.kind = "retry_failed"     /\ j \in o.jobs -> RetriedRow(j)
      [] o.kind = "retry_capped" /\ job[j].status # "SUCCEEDED" -> Requeued(j)
      [] OTHER                                       -> job[j]]

\* append raises on an id it has seen, append_idempotent appends nothing.
Idempotent(o) == o.kind \in {"retry_failed", "restart_ready"}
EventOf(o, rows) ==
  [kind |-> o.kind, jobs |-> IF o.kind = "retry_capped"
                             THEN {j \in Jobs : rows[j].status = "READY"} ELSE o.jobs]
Commits(o) ==
  /\ Admits(o)
  /\ \A j \in Jobs : SatisfiesCheck(Rows(o)[j])
  /\ o.kind = "recover_stranded" \/ Idempotent(o) \/ o.id \notin sent

\* The rows and the event commit together; RECOVER_STRANDED has no event.
Carry(o) ==
  /\ order' = {}
  /\ IF Commits(o)
     THEN /\ job' = Rows(o)
          /\ accepted' = [j \in Jobs |-> IF o.kind = "abandon_unknown" /\ j \in o.jobs
                                         THEN accepted[j] + 1 ELSE accepted[j]]
          /\ IF o.kind = "recover_stranded" \/ o.id \in sent
             THEN UNCHANGED <<requests, sent>>
             ELSE requests' = requests \cup {EventOf(o, Rows(o))} /\ sent' = sent \cup {o.id}
     ELSE UNCHANGED <<job, accepted, requests, sent>>
  /\ UNCHANGED <<tasks, closed, flow, act, polls, faults, cap, other, orders>>

OthersCommit ==
  /\ other < MaxOther /\ other' = other + 1
  /\ UNCHANGED <<job, tasks, closed, flow, act, polls, faults, requests, sent, order, cap, accepted, orders>>

RaiseCap ==
  /\ \E c \in HigherCaps : cap < c /\ cap' = c
  /\ UNCHANGED <<job, tasks, closed, flow, act, polls, faults, requests, sent, order, other, accepted, orders>>

-----------------------------------------------------------------------------
Work(w) ==
  \/ Begin(w) \/ Prepare(w) \/ CapDenied(w) \/ ConvergeLostStart(w)
  \/ Invoke(w) \/ Execute(w) \/ Start(w) \/ Create(w)
  \/ Accepted(w) \/ Refused(w) \/ AnswerLost(w) \/ StoreImage(w)
  \/ Poll(w) \/ Import(w) \/ Report(w)
Fault(w) == PollFails(w) \/ Stumble(w) \/ Crash(w)
Provider == \E j \in Jobs : \E i \in DOMAIN tasks[j], state \in {"done", "dead"} : TaskEnds(j, i, state)
Office ==
  \/ \E kind \in Kinds : Observe(kind)
  \/ \E o \in order : Carry(o)
  \/ OthersCommit \/ RaiseCap

Next ==
  \/ \E w \in Workers : Work(w) \/ Fault(w) \/ GiveUpOn(w)
  \/ \E r \in requests : Deliver(r)
  \/ Provider \/ DeadlinePasses \/ Office
Spec == Init /\ [][Next]_vars

\* Workers go on, Temporal notices attempts that are lost, providers finish,
\* time passes, the outbox's events are handled.  Operators owe nothing.
Fairness ==
  /\ \A w \in Workers : WF_vars(Work(w)) /\ WF_vars(~ act[w].live /\ GiveUpOn(w))
  /\ WF_vars(Provider) /\ WF_vars(DeadlinePasses)
  /\ WF_vars(\E r \in requests : Deliver(r))
FairSpec == Spec /\ Fairness

-----------------------------------------------------------------------------
(* Properties.                                                             *)

JobRows == [status : Statuses, ref : Nat, unknown : Nat, code : Codes,
          identity : {"nobody", "worker", "both"}, updated_at : Nat]

\* Every variable has its type.
TypeOK ==
  /\ job \in [Jobs -> JobRows]
  /\ tasks \in [Jobs -> Seq({"sent", "running", "done", "dead", "refused"})]
  /\ closed \subseteq Jobs \X Nat
  /\ flow \in [state : {"missing", "running", "completed", "failed"}, run : Nat,
               at : DOMAIN Order, try : 1..MaxTries, worker : SUBSET Workers,
               late : BOOLEAN]
  /\ act \in [Workers -> [pc : {"idle", "prepare", "capped", "lost", "invoke", "execute", "start",
                                "create", "answer", "store", "poll", "import", "report"},
                          job : Jobs, seen : JobRows, ref : Nat, live : BOOLEAN]]
  /\ requests \subseteq [kind : Kinds \cup {"approve"}, jobs : SUBSET Jobs]
  /\ sent \subseteq Kinds \X Nat
  /\ order \subseteq [kind : Kinds, jobs : SUBSET Jobs, id : Kinds \X Nat]
  /\ {cap, other, orders, faults} \subseteq Nat
  /\ {accepted, polls} \subseteq [Jobs -> Nat]

\* What the providers may charge for a job: every create that left and is not
\* known to them as refused or dead.
LiveTasks(j) == {i \in DOMAIN tasks[j] : tasks[j][i] \notin {"refused", "dead"}}
Exposure(j)  == Cardinality(LiveTasks(j)) * Reserved[j]

\* The images recorded as failures, at no cost, although the provider delivered
\* (openai_images raises MediaProviderError for an answer it cannot read).
Delivered(j) == \E i \in DOMAIN tasks[j] : tasks[j][i] = "done"
WrittenOff == {j \in Images : job[j].status = "FAILED" /\ Delivered(j)}

\* The spend view is conservative (product_media_spend_requirement): whatever
\* workers lose, and whatever operators do about it, it never counts less for
\* a job than the providers may charge for it.  An image written off is the one
\* exception, and misses its reservation once, however often it was attempted.
SpendIsCounted ==
  \A j \in Jobs : Exposure(j) <= Counted(j) + (IF j \in WrittenOff THEN Reserved[j] ELSE 0)

\* What the providers may charge for the plan stays within LIVE_E2E_MAX_USD,
\* images written off included, although the cap is checked in one transaction
\* and the create leaves after another (_enforce_live_spend_cap,
\* provider_started).
WithinCap == MapThenSumSet(Exposure, Jobs) <= cap

\* A job is paid for a second time, while the provider may still charge for
\* the first, only when an operator accepted that duplicate
\* (abandon_unknown_media_and_retry): not by a retry of the activity, a second
\* run, a repeated delivery or a late worker.
DuplicatesAreAccepted == \A j \in Jobs : Cardinality(LiveTasks(j)) <= 1 + accepted[j]

\* A row that says how a job ended says what its provider knows: the task of a
\* video that succeeded is done, the one of a confirmed failure is dead.
OutcomesAreTrue ==
  \A j \in Jobs \ Images :
    /\ job[j].status = "SUCCEEDED" => job[j].ref # 0 /\ tasks[j][job[j].ref] = "done"
    /\ job[j].code = "confirmed"   => job[j].ref # 0 /\ tasks[j][job[j].ref] = "dead"

\* The reference of a task that may still be charged is never forgotten or
\* replaced: nothing else finds the task again.
TasksStayKnown ==
  [][\A j \in Jobs : job[j].ref # 0 /\ job'[j].ref # job[j].ref
                        => tasks[j][job[j].ref] = "dead"]_vars

\* A start left without a reference by a crash does not stay STARTING under a
\* run: it converges to what is known of it (ADR-054).
StartingConverges ==
  \A j \in Jobs : job[j].status = "STARTING" /\ job[j].ref = 0
                     ~> job[j].status # "STARTING" \/ flow.state # "running"

\* An approved plan's workflow comes to an end, with an answer for every job
\* it reached.
RunEnds == flow.state = "running" ~> flow.state # "running"

=============================================================================
