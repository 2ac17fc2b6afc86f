------------------------ MODULE MediaProductionProofs ------------------------
(***************************************************************************)
(* MediaProduction, for any plan, workers and bounds: types, and, while no *)
(* attempt to start a video outlives its time-out (Patient), what the rows *)
(* say of their tasks and of the money these may cost.  VideosFit is the   *)
(* inductive invariant of the former; RowsMove, OpsMove, TasksMove and     *)
(* AttemptMoves bound what a step of one attempt does to the others, and   *)
(* AttemptStep combines them.  Of the latter, Load is what the providers   *)
(* may charge a job for beside the task its row follows, Moves lists what  *)
(* a step may do to a job, and LoadIsCounted, LoadIsAccepted and CapIsHeld *)
(* follow from that list; InOrder, that a job is reached only after those  *)
(* before it, keeps an image that was written off from freeing its share.  *)
(***************************************************************************)
EXTENDS MediaProduction, SequenceTheorems, FiniteSetTheorems, WellFoundedInduction, TLAPS

TaskStates == {"sent", "running", "done", "dead", "refused"}
Pcs == {"idle", "prepare", "capped", "lost", "invoke", "execute", "start",
        "create", "answer", "store", "poll", "import", "report"}
Flows == [state : {"missing", "running", "completed", "failed"}, run : Nat,
          at : DOMAIN Order, try : 1..MaxTries, worker : SUBSET Workers, late : BOOLEAN]
Attempts == [pc : Pcs, job : Jobs, seen : JobRows, ref : Nat, live : BOOLEAN]

\* The jobs of a plan are the values of its order, which has a first one.
LEMMA OrderFacts ==
  /\ \A i \in DOMAIN Order : Order[i] \in Jobs
  /\ DOMAIN Order = 1..Len(Order) /\ Len(Order) \in Nat /\ 1 \in DOMAIN Order
  /\ MaxTries \in Nat /\ 1 \in 1..MaxTries
BY MediaAssumption DEF MediaAssumption, Jobs

\* A job that has not been started has the type of a row.
LEMMA FreshRowTyped == FreshRow \in JobRows
BY DEF FreshRow, JobRows, Statuses, Codes

\* A worker at rest has the type of an attempt.
LEMMA RestingTyped == Resting \in Attempts
<1>1. Order[1] \in Jobs
  BY OrderFacts
<1> QED BY <1>1, FreshRowTyped DEF Resting, Attempts, Pcs

\* What a transition leaves behind is a row (GenerationJob.transition).
LEMMA ChangedTyped ==
  ASSUME job \in [Jobs -> JobRows],
         NEW j \in Jobs, NEW to \in Statuses, NEW ref \in Nat, NEW code \in Codes
  PROVE  Changed(j, to, ref, code) \in JobRows
<1>1. job[j] \in JobRows /\ Reserved[j] \in Nat
  BY MediaAssumption DEF MediaAssumption
<1>2. job[j].unknown + Reserved[j] \in Nat /\ job[j].updated_at + 1 \in Nat
  BY <1>1 DEF JobRows
<1> DEFINE unknown == IF to = "OUTCOME_UNKNOWN" THEN job[j].unknown + Reserved[j] ELSE job[j].unknown
           known   == IF ref = 0 THEN job[j].ref ELSE ref
<1>3. unknown \in Nat /\ known \in Nat
  BY <1>1, <1>2 DEF JobRows
<1>4. Changed(j, to, ref, code) =
        [job[j] EXCEPT !.status = to, !.ref = known, !.unknown = unknown, !.code = code,
                       !.identity = "both", !.updated_at = job[j].updated_at + 1]
  BY DEF Changed
<1> HIDE DEF unknown, known
<1> QED BY ZenonT(60), <1>1, <1>2, <1>3, <1>4 DEF JobRows

\* Whatever a result makes of the run is a run (MediaProductionWorkflow).
LEMMA AdvancedTyped ==
  ASSUME flow \in Flows, NEW j, NEW status
  PROVE  Advanced(j, status) \in Flows
<1>1. RunOver \in Flows
  BY DEF Flows, RunOver
<1>2. ~ LastJob => NextJob \in Flows
  <2> SUFFICES ASSUME ~ LastJob PROVE NextJob \in Flows
    OBVIOUS
  <2>1. flow.at + 1 \in DOMAIN Order /\ 1 \in 1..MaxTries
    BY OrderFacts DEF LastJob, Flows
  <2> QED BY <2>1 DEF Flows, NextJob
<1>3. SameJob \in Flows
  <2>1. 1 \in 1..MaxTries
    BY OrderFacts
  <2> QED BY <2>1 DEF Flows, SameJob
<1> QED BY <1>1, <1>2, <1>3, Zenon DEF Advanced

\* A retry, or the last one, leaves a run (GENERATION_RETRY_POLICY).
LEMMA RetriedTyped ==
  ASSUME flow \in Flows
  PROVE  Retried \in Flows /\ GivenUp \in Flows
<1>1. GivenUp \in Flows
  BY DEF GivenUp, Flows
<1>2. flow.try < MaxTries => flow.try + 1 \in 1..MaxTries
  BY OrderFacts DEF Flows
<1>3. flow.try < MaxTries => [flow EXCEPT !.try = @ + 1, !.worker = {}] \in Flows
  BY <1>2 DEF Flows
<1> QED BY <1>1, <1>3 DEF Retried

-----------------------------------------------------------------------------
(* The operators the actions are made of.                                  *)

\* What the workers, the run and the providers keep.
WorkTyped ==
  /\ job \in [Jobs -> JobRows] /\ tasks \in [Jobs -> Seq(TaskStates)]
  /\ closed \subseteq Jobs \X Nat
  /\ flow \in Flows /\ act \in [Workers -> Attempts]
  /\ polls \in [Jobs -> Nat] /\ faults \in Nat

\* What the outbox and the operators keep.
OfficeTyped ==
  /\ requests \subseteq [kind : Kinds \cup {"approve"}, jobs : SUBSET Jobs]
  /\ sent \subseteq Kinds \X Nat
  /\ order \subseteq [kind : Kinds, jobs : SUBSET Jobs, id : Kinds \X Nat]
  /\ cap \in Nat /\ other \in Nat /\ orders \in Nat /\ accepted \in [Jobs -> Nat]

\* The type invariant in two parts, for the two kinds of step.
LEMMA TypeParts == TypeOK <=> WorkTyped /\ OfficeTyped
BY DEF TypeOK, WorkTyped, OfficeTyped, TaskStates, Pcs, Flows, Attempts

\* The same of the state a step leads to.
LEMMA TypePartsNext == WorkTyped' /\ OfficeTyped' => TypeOK'
BY TypeParts, PTL

\* A step of an attempt to another place, with or without a reference.
LEMMA GoesTyped ==
  ASSUME WorkTyped, NEW w \in Workers, NEW pc \in Pcs, Goes(w, pc)
  PROVE  act' \in [Workers -> Attempts]
BY DEF WorkTyped, Goes, Attempts

\* An attempt that answers.
LEMMA ReturnsTyped ==
  ASSUME WorkTyped, NEW w \in Workers, NEW status, Returns(w, status)
  PROVE  act' \in [Workers -> Attempts] /\ flow' \in Flows
<1>1. flow \in Flows /\ Advanced(act[w].job, status) \in Flows
  BY AdvancedTyped DEF WorkTyped
<1> QED BY <1>1, RestingTyped DEF WorkTyped, Returns

\* An attempt that raises.
LEMMA RaisesTyped ==
  ASSUME WorkTyped, NEW w \in Workers, NEW next \in Flows, Raises(w, next)
  PROVE  act' \in [Workers -> Attempts] /\ flow' \in Flows
BY RestingTyped DEF WorkTyped, Raises

\* A transition that an executor records, or fails to.
LEMMA RecordsTyped ==
  ASSUME WorkTyped, NEW w \in Workers, NEW to \in Statuses, NEW ref \in Nat,
         NEW code \in Codes, NEW next \in Pcs, Records(w, to, ref, code, next)
  PROVE  job' \in [Jobs -> JobRows] /\ act' \in [Workers -> Attempts]
<1>1. act[w].job \in Jobs /\ "report" \in Pcs
  BY DEF WorkTyped, Attempts, Pcs
<1>2. Changed(act[w].job, to, ref, code) \in JobRows
  BY <1>1, ChangedTyped DEF WorkTyped
<1>3. act' \in [Workers -> Attempts]
  BY <1>1, GoesTyped DEF Records
<1>4. job' \in [Jobs -> JobRows]
  BY <1>1, <1>2 DEF WorkTyped, Records, Write
<1> QED BY <1>3, <1>4

\* A task's state at its provider.
LEMMA BecomeTyped ==
  ASSUME WorkTyped, NEW w \in Workers, NEW state \in TaskStates, Become(w, state)
  PROVE  tasks' \in [Jobs -> Seq(TaskStates)]
<1> DEFINE j == act[w].job  i == act[w].ref
<1>1. j \in Jobs /\ i \in Nat /\ tasks[j] \in Seq(TaskStates)
  BY DEF WorkTyped, Attempts
<1>2. tasks' = [tasks EXCEPT ![j] = [tasks[j] EXCEPT ![i] = state]]
  BY DEF Become
<1> HIDE DEF i
<1>3. [tasks[j] EXCEPT ![i] = state] \in Seq(TaskStates)
  <2>1. CASE i \in 1..Len(tasks[j])
    BY <1>1, <2>1, ExceptSeq
  <2>2. CASE i \notin 1..Len(tasks[j])
    <3>1. [tasks[j] EXCEPT ![i] = state] = tasks[j]
      BY <1>1, <2>2
    <3> QED BY <1>1, <3>1
  <2> QED BY <2>1, <2>2
<1> QED BY <1>1, <1>2, <1>3 DEF WorkTyped

\* The operation id of an attempt.
LEMMA OpTyped ==
  ASSUME WorkTyped, NEW w \in Workers
  PROVE  OpOf(w) \in Jobs \X Nat
BY DEF WorkTyped, OpOf, Attempts, JobRows

-----------------------------------------------------------------------------
(* The steps of the workers, one lemma for each kind.                      *)

\* Reading the job, preparing it, and what a denial or a lost start leave.
LEMMA BeforeTheGateway ==
  ASSUME WorkTyped, NEW w \in Workers,
         Begin(w) \/ Prepare(w) \/ CapDenied(w) \/ ConvergeLostStart(w)
  PROVE  WorkTyped'
<1> DEFINE j == act[w].job
<1>1. j \in Jobs /\ job[j] \in JobRows
  BY DEF WorkTyped, Attempts
<1>2. Retried \in Flows /\ GivenUp \in Flows
  BY RetriedTyped DEF WorkTyped
<1>3. {"prepare", "capped", "lost", "invoke", "report"} \subseteq Pcs
  BY DEF Pcs
<1>4. CASE Begin(w)
  <2> DEFINE n == Order[flow.at]
  <2>1. n \in Jobs /\ flow.at \in DOMAIN Order
    BY OrderFacts DEF WorkTyped, Flows
  <2>2. job[n] \in JobRows
    BY <2>1 DEF WorkTyped
  <2>3. CASE job[n].status \in Executable
    <3>1. act' = [act EXCEPT ![w] = [pc |-> "prepare", job |-> n, seen |-> job[n],
                                     ref |-> 0, live |-> TRUE]]
          /\ flow' = [flow EXCEPT !.worker = {w}]
      BY <1>4, <2>3 DEF Begin
    <3>2. [pc |-> "prepare", job |-> n, seen |-> job[n], ref |-> 0, live |-> TRUE] \in Attempts
      BY <1>3, <2>1, <2>2 DEF Attempts
    <3>3. [flow EXCEPT !.worker = {w}] \in Flows
      BY DEF WorkTyped, Flows
    <3>4. UNCHANGED <<job, tasks, closed, polls, faults>>
      BY <1>4 DEF Begin
    <3> QED BY <3>1, <3>2, <3>3, <3>4 DEF WorkTyped
  <2>4. CASE job[n].status \notin Executable
    <3>1. act' = act /\ flow' = Advanced(n, job[n].status)
      BY <1>4, <2>4 DEF Begin
    <3>2. Advanced(n, job[n].status) \in Flows
      BY AdvancedTyped DEF WorkTyped
    <3>3. UNCHANGED <<job, tasks, closed, polls, faults>>
      BY <1>4 DEF Begin
    <3> QED BY <3>1, <3>2, <3>3 DEF WorkTyped
  <2> QED BY <2>3, <2>4
<1>5. CASE Prepare(w)
  <2>1. \/ Raises(w, Retried)
        \/ \E pc \in {"capped", "lost", "invoke"} : Goes(w, pc) /\ UNCHANGED flow
    BY <1>5 DEF Prepare
  <2>2. act' \in [Workers -> Attempts] /\ flow' \in Flows
    BY <1>2, <1>3, <2>1, RaisesTyped, GoesTyped DEF WorkTyped
  <2>3. UNCHANGED <<job, tasks, closed, polls, faults>>
    BY <1>5 DEF Prepare
  <2> QED BY <2>2, <2>3 DEF WorkTyped
<1>6. CASE CapDenied(w)
  <2> DEFINE row == [job[j] EXCEPT !.status = "BLOCKED_SPEND_CAP", !.code = "cap_reached",
                                   !.identity = "worker", !.updated_at = @ + 1]
  <2>1. row \in JobRows
    <3>1. "BLOCKED_SPEND_CAP" \in Statuses /\ "cap_reached" \in Codes
      BY DEF Statuses, Codes
    <3>2. job[j].updated_at + 1 \in Nat
      BY <1>1 DEF JobRows
    <3> QED BY <1>1, <3>1, <3>2 DEF JobRows
  <2>2. /\ Raises(w, GivenUp) \/ Raises(w, Retried) \/ Returns(w, "READY")
        /\ UNCHANGED job \/ Write(j, row)
    BY <1>6 DEF CapDenied
  <2> HIDE DEF row
  <2>3. act' \in [Workers -> Attempts] /\ flow' \in Flows
    BY <1>2, <2>2, RaisesTyped, ReturnsTyped
  <2>4. job' \in [Jobs -> JobRows]
    BY <1>1, <2>1, <2>2 DEF WorkTyped, Write
  <2>5. UNCHANGED <<tasks, closed, polls, faults>>
    BY <1>6 DEF CapDenied
  <2> QED BY <2>3, <2>4, <2>5 DEF WorkTyped
<1>7. CASE ConvergeLostStart(w)
  <2>1. Changed(j, "OUTCOME_UNKNOWN", 0, "none") \in JobRows
    BY <1>1, ChangedTyped DEF WorkTyped, Statuses, Codes
  <2>2. \/ Write(j, Changed(j, "OUTCOME_UNKNOWN", 0, "none")) /\ Returns(w, "OUTCOME_UNKNOWN")
        \/ UNCHANGED job /\ Raises(w, Retried)
    BY <1>7 DEF ConvergeLostStart
  <2>3. act' \in [Workers -> Attempts] /\ flow' \in Flows
    BY <1>2, <2>2, RaisesTyped, ReturnsTyped
  <2>4. job' \in [Jobs -> JobRows]
    BY <1>1, <2>1, <2>2 DEF WorkTyped, Write
  <2>5. UNCHANGED <<tasks, closed, polls, faults>>
    BY <1>7 DEF ConvergeLostStart
  <2> QED BY <2>3, <2>4, <2>5 DEF WorkTyped
<1> QED BY <1>4, <1>5, <1>6, <1>7

\* The gateway, the executor's own preparation, and the request that leaves.
LEMMA BehindTheGateway ==
  ASSUME WorkTyped, NEW w \in Workers,
         Invoke(w) \/ Execute(w) \/ Start(w) \/ Create(w) \/ Report(w)
  PROVE  WorkTyped'
<1> DEFINE j == act[w].job
<1>1. j \in Jobs /\ job[j] \in JobRows /\ job[j].ref \in Nat
  BY DEF WorkTyped, Attempts, JobRows
<1>2. OpOf(w) \in Jobs \X Nat
  BY OpTyped
<1>3. {"execute", "report", "start", "poll", "import", "create", "answer"} \subseteq Pcs
  BY DEF Pcs
<1>4. CASE Invoke(w)
  <2>1. act' \in [Workers -> Attempts]
    BY <1>3, <1>4, GoesTyped DEF Invoke
  <2> QED BY <1>2, <1>4, <2>1 DEF WorkTyped, Invoke
<1>5. CASE Execute(w)
  <2>1. \/ Goes(w, "report")
        \/ \E pc \in {"start", "poll", "import"} :
             act' = [act EXCEPT ![w].pc = pc, ![w].ref = job[j].ref]
    BY <1>5 DEF Execute
  <2>2. act' \in [Workers -> Attempts]
    <3>1. CASE Goes(w, "report")
      BY <1>3, <3>1, GoesTyped
    <3>2. CASE \E pc \in {"start", "poll", "import"} :
                 act' = [act EXCEPT ![w].pc = pc, ![w].ref = job[j].ref]
      <4> PICK pc \in {"start", "poll", "import"} :
                 act' = [act EXCEPT ![w].pc = pc, ![w].ref = job[j].ref]
        BY <3>2
      <4>1. pc \in Pcs
        BY <1>3
      <4> QED BY ZenonT(60), <1>1, <4>1 DEF WorkTyped, Attempts
    <3> QED BY <2>1, <3>1, <3>2
  <2>3. closed' \subseteq closed /\ UNCHANGED <<job, tasks, flow, polls, faults>>
    BY <1>5 DEF Execute
  <2> QED BY <2>2, <2>3 DEF WorkTyped
<1>6. CASE Start(w)
  <2>1. Records(w, "STARTING", 0, "none", "create")
    BY <1>6 DEF Start
  <2>2. job' \in [Jobs -> JobRows] /\ act' \in [Workers -> Attempts]
    BY <1>3, <2>1, RecordsTyped DEF Statuses, Codes
  <2> QED BY <1>6, <2>2 DEF WorkTyped, Start
<1>7. CASE Create(w)
  <2>1. tasks[j] \in Seq(TaskStates) /\ "sent" \in TaskStates
    BY <1>1 DEF WorkTyped, TaskStates
  <2>2. Append(tasks[j], "sent") \in Seq(TaskStates) /\ Len(tasks[j]) + 1 \in Nat
    BY <2>1, AppendProperties
  <2>3. tasks' = [tasks EXCEPT ![j] = Append(tasks[j], "sent")]
        /\ act' = [act EXCEPT ![w].pc = "answer", ![w].ref = Len(tasks[j]) + 1]
    BY <1>7 DEF Create
  <2>4. act' \in [Workers -> Attempts]
    BY ZenonT(60), <1>3, <2>2, <2>3 DEF WorkTyped, Attempts
  <2>5. tasks' \in [Jobs -> Seq(TaskStates)]
    BY <2>2, <2>3 DEF WorkTyped
  <2> QED BY <1>7, <2>4, <2>5 DEF WorkTyped, Create
<1>8. CASE Report(w)
  <2>1. act' \in [Workers -> Attempts] /\ flow' \in Flows
    BY <1>8, ReturnsTyped DEF Report
  <2> QED BY <1>8, <2>1 DEF WorkTyped, Report
<1> QED BY <1>4, <1>5, <1>6, <1>7, <1>8

\* What the provider makes of a request, and what is recorded of it.
LEMMA Answers ==
  ASSUME WorkTyped, NEW w \in Workers,
         Accepted(w) \/ Refused(w) \/ AnswerLost(w) \/ StoreImage(w)
  PROVE  WorkTyped'
<1>1. act[w].ref \in Nat /\ {"store", "report"} \subseteq Pcs
  BY DEF WorkTyped, Attempts, Pcs
<1>2. {"IMPORTING", "PROCESSING", "FAILED", "OUTCOME_UNKNOWN", "SUCCEEDED"} \subseteq Statuses
      /\ {"none", "rejected"} \subseteq Codes
  BY DEF Statuses, Codes
<1>3. {"running", "done", "refused"} \subseteq TaskStates
  BY DEF TaskStates
<1>4. CASE Accepted(w)
  <2>1. \/ Become(w, "done") /\ Records(w, "IMPORTING", 0, "none", "store")
        \/ Become(w, "running") /\ Records(w, "PROCESSING", act[w].ref, "none", "report")
    BY <1>4 DEF Accepted
  <2>2. job' \in [Jobs -> JobRows] /\ act' \in [Workers -> Attempts]
    BY <1>1, <1>2, <2>1, RecordsTyped
  <2>3. tasks' \in [Jobs -> Seq(TaskStates)]
    BY <1>3, <2>1, BecomeTyped
  <2> QED BY <1>4, <2>2, <2>3 DEF WorkTyped, Accepted
<1>5. CASE Refused(w)
  <2>1. (Become(w, "refused") \/ Become(w, "done")) /\ Records(w, "FAILED", 0, "rejected", "report")
    BY <1>5 DEF Refused
  <2>2. job' \in [Jobs -> JobRows] /\ act' \in [Workers -> Attempts]
    BY <1>1, <1>2, <2>1, RecordsTyped
  <2>3. tasks' \in [Jobs -> Seq(TaskStates)]
    BY <1>3, <2>1, BecomeTyped
  <2>4. closed' \subseteq closed /\ UNCHANGED <<flow, polls, faults>>
    BY <1>5 DEF Refused
  <2> QED BY <2>2, <2>3, <2>4 DEF WorkTyped
<1>6. CASE AnswerLost(w)
  <2>1. PICK state \in {"running", "done", "refused"} : Become(w, state)
    BY <1>6 DEF AnswerLost
  <2>2. Records(w, "OUTCOME_UNKNOWN", 0, "none", "report")
    BY <1>6 DEF AnswerLost
  <2>3. job' \in [Jobs -> JobRows] /\ act' \in [Workers -> Attempts]
    BY <1>1, <1>2, <2>2, RecordsTyped
  <2>4. tasks' \in [Jobs -> Seq(TaskStates)]
    BY <1>3, <2>1, BecomeTyped
  <2> QED BY <1>6, <2>3, <2>4 DEF WorkTyped, AnswerLost
<1>7. CASE StoreImage(w)
  <2>1. Records(w, "SUCCEEDED", 0, "none", "report")
    BY <1>7 DEF StoreImage
  <2>2. job' \in [Jobs -> JobRows] /\ act' \in [Workers -> Attempts]
    BY <1>1, <1>2, <2>1, RecordsTyped
  <2> QED BY <1>7, <2>2 DEF WorkTyped, StoreImage
<1> QED BY <1>4, <1>5, <1>6, <1>7

\* Polls and imports of videos, whether they succeed or fail.
LEMMA Polls ==
  ASSUME WorkTyped, NEW w \in Workers, Poll(w) \/ Import(w) \/ PollFails(w)
  PROVE  WorkTyped'
<1>1. act[w].job \in Jobs /\ "report" \in Pcs
  BY DEF WorkTyped, Attempts, Pcs
<1>2. {"IMPORTING", "PROCESSING", "FAILED", "SUCCEEDED"} \subseteq Statuses
      /\ {"none", "confirmed"} \subseteq Codes
  BY DEF Statuses, Codes
<1>3. CASE Poll(w)
  <2>1. \/ Records(w, "PROCESSING", 0, "none", "report")
        \/ Records(w, "IMPORTING", 0, "none", "report")
        \/ Records(w, "FAILED", 0, "confirmed", "report")
    BY <1>3 DEF Poll
  <2>2. job' \in [Jobs -> JobRows] /\ act' \in [Workers -> Attempts]
    BY <1>1, <1>2, <2>1, RecordsTyped
  <2>3. polls' \in [Jobs -> Nat]
    BY <1>1, <1>3 DEF WorkTyped, Poll
  <2> QED BY <1>3, <2>2, <2>3 DEF WorkTyped, Poll
<1>4. CASE Import(w)
  <2>1. Records(w, "SUCCEEDED", 0, "none", "report") \/ (Goes(w, "report") /\ UNCHANGED job)
    BY <1>4 DEF Import
  <2>2. job' \in [Jobs -> JobRows] /\ act' \in [Workers -> Attempts]
    BY <1>1, <1>2, <2>1, RecordsTyped, GoesTyped DEF WorkTyped
  <2>3. closed' \subseteq closed /\ UNCHANGED <<tasks, flow, polls, faults>>
    BY <1>4 DEF Import
  <2> QED BY <2>2, <2>3 DEF WorkTyped
<1>5. CASE PollFails(w)
  <2>1. act' \in [Workers -> Attempts]
    BY <1>1, <1>5, GoesTyped DEF PollFails
  <2> QED BY <1>5, <2>1 DEF WorkTyped, PollFails
<1> QED BY <1>3, <1>4, <1>5

\* Exceptions, crashes and time-outs.
LEMMA Faults ==
  ASSUME WorkTyped, NEW w \in Workers, Stumble(w) \/ Crash(w) \/ GiveUpOn(w)
  PROVE  WorkTyped'
<1>1. Retried \in Flows /\ GivenUp \in Flows /\ "report" \in Pcs
  BY RetriedTyped DEF WorkTyped, Pcs
<1>2. CASE Stumble(w)
  <2>1. Raises(w, Retried) \/ (Goes(w, "report") /\ UNCHANGED flow)
    BY <1>2 DEF Stumble
  <2>2. act' \in [Workers -> Attempts] /\ flow' \in Flows
    BY <1>1, <2>1, RaisesTyped, GoesTyped DEF WorkTyped
  <2> QED BY <1>2, <2>2 DEF WorkTyped, Stumble
<1>3. CASE Crash(w)
  BY <1>3, RestingTyped DEF WorkTyped, Crash
<1>4. CASE GiveUpOn(w)
  <2>1. flow' \in Flows
    BY <1>1, <1>4 DEF GiveUpOn
  <2>2. \/ UNCHANGED <<act, faults>>
        \/ faults' = faults + 1 /\ act' = [act EXCEPT ![w] = [act[w] EXCEPT !.live = FALSE]]
    BY <1>4 DEF GiveUpOn
  <2>3. act[w] \in Attempts /\ faults \in Nat
    BY DEF WorkTyped
  <2>4. [act[w] EXCEPT !.live = FALSE] \in Attempts
    BY <2>3 DEF Attempts
  <2>5. act' \in [Workers -> Attempts] /\ faults' \in Nat
    <3>1. CASE UNCHANGED <<act, faults>>
      BY <3>1 DEF WorkTyped
    <3>2. CASE faults' = faults + 1 /\ act' = [act EXCEPT ![w] = [act[w] EXCEPT !.live = FALSE]]
      <4>1. [act EXCEPT ![w] = [act[w] EXCEPT !.live = FALSE]] \in [Workers -> Attempts]
        BY <2>4 DEF WorkTyped
      <4> QED BY <2>3, <3>2, <4>1
    <3> QED BY <2>2, <3>1, <3>2
  <2> QED BY <1>4, <2>1, <2>5 DEF WorkTyped, GiveUpOn
<1> QED BY <1>2, <1>3, <1>4

\* The steps of the workers and their faults leave the office alone.
LEMMA WorkStep ==
  ASSUME TypeOK, NEW w \in Workers, Work(w) \/ Fault(w) \/ GiveUpOn(w)
  PROVE  TypeOK'
<1>1. WorkTyped /\ OfficeTyped
  BY TypeParts
<1>2. WorkTyped'
  BY <1>1, BeforeTheGateway, BehindTheGateway, Answers, Polls, Faults DEF Work, Fault
<1>3. UNCHANGED office
  BY DEF Work, Fault, Begin, Prepare, CapDenied, ConvergeLostStart, Invoke, Execute, Start,
     Create, Accepted, Refused, AnswerLost, StoreImage, Poll, Import, Report, PollFails,
     Stumble, Crash, GiveUpOn
<1>4. OfficeTyped'
  BY <1>1, <1>3 DEF OfficeTyped, office
<1> QED BY <1>2, <1>4, TypePartsNext

-----------------------------------------------------------------------------
(* The provider, the clock, the outbox and the operators.                  *)

\* A video that ends, the run's deadline, and a run that is asked for.
LEMMA ElsewhereStep ==
  ASSUME TypeOK,
         \/ Provider \/ DeadlinePasses
         \/ \E r \in requests : Deliver(r)
  PROVE  TypeOK'
<1>1. WorkTyped /\ OfficeTyped
  BY TypeParts
<1>2. CASE Provider
  <2> PICK j \in Jobs : \E i \in DOMAIN tasks[j], state \in {"done", "dead"} : TaskEnds(j, i, state)
    BY <1>2 DEF Provider
  <2>1. PICK i \in DOMAIN tasks[j], state \in {"done", "dead"} : TaskEnds(j, i, state)
    OBVIOUS
  <2>2. tasks[j] \in Seq(TaskStates) /\ state \in TaskStates
    BY <1>1 DEF WorkTyped, TaskStates
  <2>3. i \in 1..Len(tasks[j])
    BY <2>2
  <2>4. tasks' = [tasks EXCEPT ![j] = [tasks[j] EXCEPT ![i] = state]]
    BY <2>1 DEF TaskEnds
  <2>5. [tasks[j] EXCEPT ![i] = state] \in Seq(TaskStates)
    BY <2>2, <2>3, ExceptSeq
  <2>6. tasks' \in [Jobs -> Seq(TaskStates)]
    BY <1>1, <2>4, <2>5 DEF WorkTyped
  <2>7. UNCHANGED <<job, closed, flow, act, polls, faults, office>>
    BY <2>1 DEF TaskEnds
  <2>a. WorkTyped' /\ OfficeTyped'
    BY <1>1, <2>6, <2>7 DEF WorkTyped, OfficeTyped, office
  <2> QED BY <2>a, TypePartsNext
<1>3. CASE DeadlinePasses
  <2>1. flow' \in Flows
    BY <1>1, <1>3 DEF WorkTyped, Flows, DeadlinePasses
  <2>2. UNCHANGED <<job, tasks, closed, act, polls, faults, office>>
    BY <1>3 DEF DeadlinePasses
  <2>a. WorkTyped' /\ OfficeTyped'
    BY <1>1, <2>1, <2>2 DEF WorkTyped, OfficeTyped, office
  <2> QED BY <2>a, TypePartsNext
<1>4. CASE \E r \in requests : Deliver(r)
  <2>1. PICK r \in requests : Deliver(r)
    BY <1>4
  <2>2. [state |-> "running", run |-> flow.run + 1, at |-> 1, try |-> 1, worker |-> {},
         late |-> FALSE] \in Flows
    BY <1>1, OrderFacts DEF WorkTyped, Flows
  <2>3. flow' \in Flows
    BY <1>1, <2>1, <2>2 DEF WorkTyped, Deliver
  <2>4. requests' \subseteq requests /\ faults' \in Nat
    BY <1>1, <2>1 DEF WorkTyped, Deliver
  <2>5. UNCHANGED <<job, tasks, closed, act, polls, sent, order, cap, other, accepted, orders>>
    BY <2>1 DEF Deliver
  <2>a. WorkTyped' /\ OfficeTyped'
    BY <1>1, <2>3, <2>4, <2>5 DEF WorkTyped, OfficeTyped
  <2> QED BY <2>a, TypePartsNext
<1> QED BY <1>2, <1>3, <1>4

\* What a recovery writes is a row.
LEMMA RowsTyped ==
  ASSUME job \in [Jobs -> JobRows], NEW o
  PROVE  Rows(o) \in [Jobs -> JobRows]
<1> SUFFICES ASSUME NEW j \in Jobs PROVE Rows(o)[j] \in JobRows
  BY DEF Rows
<1>1. /\ job[j] \in JobRows /\ Reserved[j] \in Nat
      /\ {"OUTCOME_UNKNOWN", "READY"} \subseteq Statuses
      /\ {"stranded", "risk_accepted", "failure_retry", "cap_retry"} \subseteq Codes
  BY MediaAssumption DEF MediaAssumption, Statuses, Codes
<1>2. job[j].updated_at + 1 \in Nat
  BY <1>1 DEF JobRows
<1>3. Recovered(j) \in JobRows
  BY <1>1, <1>2 DEF Recovered, JobRows
<1>4. Abandoned(j) \in JobRows
  BY <1>1, <1>2 DEF Abandoned, JobRows
<1>5. RetriedRow(j) \in JobRows
  BY <1>1, <1>2 DEF RetriedRow, JobRows
<1>6. Requeued(j) \in JobRows
  BY <1>1, <1>2 DEF Requeued, JobRows
<1>7. Rows(o)[j] \in {Recovered(j), Abandoned(j), RetriedRow(j), Requeued(j), job[j]}
  BY DEF Rows
<1> QED BY <1>1, <1>3, <1>4, <1>5, <1>6, <1>7

\* An order that is given, carried out or refused, and the cap and the plans
\* beside this one.
LEMMA OfficeStep ==
  ASSUME TypeOK, Office
  PROVE  TypeOK'
<1>1. WorkTyped /\ OfficeTyped
  BY TypeParts
<1>2. CASE \E kind \in Kinds : Observe(kind)
  <2>1. PICK kind \in Kinds : Observe(kind)
    BY <1>2
  <2>2. Chosen(kind) \subseteq Jobs
    BY DEF Chosen, Stranded, Ambiguous, Failed, ReadyJobs
  <2>3. TransitionId(kind) \in Kinds \X Nat
    BY <1>1 DEF TransitionId, WorkTyped, Flows
  <2>4. order' = {[kind |-> kind, jobs |-> Chosen(kind), id |-> TransitionId(kind)]}
        /\ orders' = orders + 1
        /\ UNCHANGED <<job, tasks, closed, flow, act, polls, faults, requests, sent, cap,
                       other, accepted>>
    BY <2>1 DEF Observe
  <2>a. WorkTyped' /\ OfficeTyped'
    BY <1>1, <2>2, <2>3, <2>4 DEF WorkTyped, OfficeTyped
  <2> QED BY <2>a, TypePartsNext
<1>3. CASE \E o \in order : Carry(o)
  <2>1. PICK o \in order : Carry(o)
    BY <1>3
  <2>2. o.kind \in Kinds /\ o.jobs \subseteq Jobs /\ o.id \in Kinds \X Nat
    BY <1>1 DEF OfficeTyped
  <2>3. job' \in [Jobs -> JobRows]
    BY <1>1, <2>1, RowsTyped DEF WorkTyped, Carry
  <2>4. EventOf(o, Rows(o)) \in [kind : Kinds \cup {"approve"}, jobs : SUBSET Jobs]
    BY <2>2 DEF EventOf
  <2>5. requests' \subseteq requests \cup {EventOf(o, Rows(o))} /\ sent' \subseteq sent \cup {o.id}
    BY <2>1 DEF Carry
  <2>6. accepted' \in [Jobs -> Nat]
    BY <1>1, <2>1 DEF OfficeTyped, Carry
  <2>7. order' = {} /\ UNCHANGED <<tasks, closed, flow, act, polls, faults, cap, other, orders>>
    BY <2>1 DEF Carry
  <2>8. WorkTyped'
    BY <1>1, <2>3, <2>7 DEF WorkTyped
  <2>9. OfficeTyped'
    BY <1>1, <2>2, <2>4, <2>5, <2>6, <2>7 DEF OfficeTyped
  <2> QED BY <2>8, <2>9, TypePartsNext
<1>4. CASE OthersCommit \/ RaiseCap
  <2>1. other' \in Nat /\ cap' \in Nat
    <3>1. HigherCaps \subseteq Nat
      BY MediaAssumption DEF MediaAssumption
    <3> QED BY <1>1, <1>4, <3>1 DEF OfficeTyped, OthersCommit, RaiseCap
  <2>2. UNCHANGED <<job, tasks, closed, flow, act, polls, faults, requests, sent, order,
                    accepted, orders>>
    BY <1>4 DEF OthersCommit, RaiseCap
  <2>a. WorkTyped' /\ OfficeTyped'
    BY <1>1, <2>1, <2>2 DEF WorkTyped, OfficeTyped
  <2> QED BY <2>a, TypePartsNext
<1> QED BY <1>2, <1>3, <1>4 DEF Office

\* The initial state is typed.
LEMMA InitTyped == Init => TypeOK
<1> SUFFICES ASSUME Init PROVE TypeOK
  OBVIOUS
<1>1. WorkTyped
  <2>1. job \in [Jobs -> JobRows] /\ act \in [Workers -> Attempts]
    BY FreshRowTyped, RestingTyped DEF Init
  <2>2. tasks \in [Jobs -> Seq(TaskStates)]
    BY EmptySeq DEF Init
  <2>3. flow \in Flows
    BY OrderFacts DEF Init, Flows
  <2> QED BY <2>1, <2>2, <2>3 DEF Init, WorkTyped
<1>2. OfficeTyped
  BY MediaAssumption DEF MediaAssumption, Init, OfficeTyped
<1> QED BY <1>1, <1>2, TypeParts

\* Every step keeps the types.
LEMMA TypeStep ==
  ASSUME TypeOK, [Next]_vars
  PROVE  TypeOK'
<1>1. CASE \E w \in Workers : Work(w) \/ Fault(w) \/ GiveUpOn(w)
  BY <1>1, WorkStep
<1>2. CASE Provider \/ DeadlinePasses \/ \E r \in requests : Deliver(r)
  BY <1>2, ElsewhereStep
<1>3. CASE Office
  BY <1>3, OfficeStep
<1>4. CASE UNCHANGED vars
  <2>1. WorkTyped /\ OfficeTyped
    BY TypeParts
  <2>a. WorkTyped' /\ OfficeTyped'
    BY <1>4, <2>1 DEF vars, office, WorkTyped, OfficeTyped
  <2> QED BY <2>a, TypePartsNext
<1> QED BY <1>1, <1>2, <1>3, <1>4 DEF Next

\* Every reachable state is typed: rows have a status, a reference, an exposure
\* and an identity of the domain (GenerationJob), the run is at a job of the
\* plan and within its attempts (GENERATION_RETRY_POLICY), orders and events
\* name jobs of the plan.
THEOREM MediaTypeCorrect == Spec => []TypeOK
<1>1. Init => TypeOK
  BY InitTyped
<1>2. TypeOK /\ [Next]_vars => TypeOK'
  BY TypeStep
<1> QED BY <1>1, <1>2, PTL DEF Spec
-----------------------------------------------------------------------------
(* What is known of a video, of its row and of those who work at it.       *)

Following == {"PROCESSING", "IMPORTING"}
Videos == Jobs \ Images
Busy(w) == ~ At(w, "idle") /\ act[w].job \in Videos
Starts(w) == Busy(w) /\ act[w].seen.status = "READY"
Follows(w) == Busy(w) /\ act[w].seen.status \in Following
Owns(w) == Busy(w) /\ act[w].pc \in {"execute", "start", "create", "answer", "poll", "import"}

\* The attempt that Temporal waits for is the only one of the run.
HeardIsAlone ==
  \A w \in Workers : act[w].live => flow.state = "running" /\ flow.worker = {w}

\* A reference is that of a task its provider knows, and the status says what
\* became of it.
RowFits(j) ==
  LET r == job[j].ref IN
  /\ job[j].status \in {"READY", "STARTING", "OUTCOME_UNKNOWN", "BLOCKED_SPEND_CAP"} => r = 0
  /\ job[j].status \in {"PROCESSING", "IMPORTING", "SUCCEEDED"} => r # 0
  /\ r # 0 => r \in DOMAIN tasks[j] /\ tasks[j][r] \in {"running", "done", "dead"}
  /\ job[j].status \in {"IMPORTING", "SUCCEEDED"} => tasks[j][r] = "done"
  /\ job[j].code = "confirmed" => job[j].status = "FAILED" /\ r # 0 /\ tasks[j][r] = "dead"

\* The row an attempt has read is an earlier one, or the one there is; what two
\* have read of the same time is the same.
ReadsRows(w) ==
  LET row == job[act[w].job]  seen == act[w].seen IN
  Busy(w) => /\ seen.updated_at <= row.updated_at
             /\ seen.updated_at = row.updated_at => seen = row
             /\ \A x \in Workers : Busy(x) /\ OpOf(x) = OpOf(w) => act[x].seen = seen

\* One that starts a video is heard, and no task is followed meanwhile; one
\* that follows a task has the row to itself until its operation is settled or
\* opened again.
AttemptFits(w) ==
  LET j == act[w].job  seen == act[w].seen IN
  /\ Starts(w) => act[w].live
  /\ Starts(w) /\ act[w].pc \in {"prepare", "invoke", "execute", "start", "create", "answer"} =>
       job[j].status \notin Following
  /\ Busy(w) /\ act[w].pc \in {"start", "create", "answer"} => seen.status = "READY"
  /\ Busy(w) /\ act[w].pc \in {"invoke", "execute"} => Starts(w) \/ Follows(w)
  /\ Busy(w) => act[w].pc # "store"
  /\ Busy(w) /\ At(w, "poll") => seen.status = "PROCESSING" /\ act[w].ref = job[j].ref
  /\ Busy(w) /\ At(w, "import") => seen.status = "IMPORTING" /\ act[w].ref = job[j].ref
  /\ Busy(w) /\ At(w, "answer") => act[w].ref \in DOMAIN tasks[j] /\ tasks[j][act[w].ref] = "sent"
  /\ Owns(w) => OpOf(w) \in closed
  /\ Follows(w) /\ Owns(w) => job[j] = seen
  /\ Follows(w) /\ act[w].pc \in {"prepare", "invoke"} => job[j] = seen \/ OpOf(w) \in closed

\* An operation of the gateway has one executor.
OwnersAreAlone == \A w, x \in Workers : Owns(w) /\ Owns(x) /\ OpOf(w) = OpOf(x) => w = x

VideosFit ==
  /\ HeardIsAlone
  /\ \A j \in Videos : RowFits(j)
  /\ \A w \in Workers : ReadsRows(w) /\ AttemptFits(w)
  /\ OwnersAreAlone

\* What one step of an attempt may do to the rows of videos: change one that no
\* task is followed for, or the one the attempt follows.
RowsMove(w) ==
  \A j \in Videos :
    \/ job'[j] = job[j]
    \/ /\ job'[j].updated_at > job[j].updated_at
       /\ \/ /\ job[j].status \notin Following
             /\ job'[j].status \in Following => Starts(w) /\ act[w].job = j
          \/ Follows(w) /\ Owns(w) /\ act[w].job = j /\ OpOf(w) \in closed'
\* To the operations of the gateway: open its own again.
OpsMove(w) ==
  \A op \in closed : op \in closed' \/ op[1] \notin Videos \/ (Owns(w) /\ op = OpOf(w))
\* To tasks: add one, or say what became of the one it waits for.
TasksMove(w) ==
  \A j \in Videos : \A i \in DOMAIN tasks[j] :
    /\ i \in DOMAIN tasks'[j]
    /\ tasks'[j][i] = tasks[j][i] \/ (Busy(w) /\ At(w, "answer") /\ j = act[w].job)
\* To the attempt: begin with the row there is, go on with what it has read, or end.
AttemptMoves(w) ==
  /\ \A x \in Workers \ {w} : act'[x] = act[x]
  /\ \/ ~ Busy(w)'
     \/ Busy(w) /\ act'[w].job = act[w].job /\ act'[w].seen = act[w].seen
     \/ ~ Busy(w) /\ ~ Owns(w)' /\ job' = job /\ act'[w].seen = job[act'[w].job]
  /\ Owns(w)' => Owns(w) \/ OpOf(w)' \notin closed

\* An operation names the job it is on.
LEMMA OpJob == \A w : OpOf(w)[1] = act[w].job
BY DEF OpOf

\* Owners either start a video or follow its task.
LEMMA OwnersStartOrFollow ==
  ASSUME NEW w \in Workers, AttemptFits(w), Owns(w)
  PROVE  Starts(w) \/ Follows(w)
BY DEF AttemptFits, Owns, Busy, Starts, Follows, Following, At

\* A heard attempt has no other beside it.
LEMMA OnlyStarter ==
  ASSUME VideosFit, NEW w \in Workers, NEW x \in Workers, Starts(w), Starts(x)
  PROVE  w = x
BY DEF VideosFit, HeardIsAlone, AttemptFits

\* The reading of rows survives a step.
LEMMA ReadingSurvives ==
  ASSUME WorkTyped, WorkTyped', VideosFit, NEW w \in Workers, RowsMove(w), AttemptMoves(w),
         NEW x \in Workers
  PROVE  ReadsRows(x)'
<1> SUFFICES ASSUME Busy(x)'
             PROVE  /\ act'[x].seen.updated_at <= job'[act'[x].job].updated_at
                    /\ act'[x].seen.updated_at = job'[act'[x].job].updated_at
                         => act'[x].seen = job'[act'[x].job]
                    /\ \A y \in Workers : Busy(y)' /\ OpOf(y)' = OpOf(x)' => act'[y].seen = act'[x].seen
  BY DEF ReadsRows
<1>1. ASSUME NEW y \in Workers, Busy(y)', Busy(y), act'[y].job = act[y].job, act'[y].seen = act[y].seen
      PROVE  /\ act'[y].seen.updated_at <= job'[act'[y].job].updated_at
             /\ act'[y].seen.updated_at = job'[act'[y].job].updated_at
                  => act'[y].seen = job'[act'[y].job]
  <2> DEFINE j == act[y].job
  <2>1. /\ act[y].seen.updated_at <= job[j].updated_at
        /\ act[y].seen.updated_at = job[j].updated_at => act[y].seen = job[j]
        /\ j \in Videos /\ act[y].seen.updated_at \in Nat /\ job[j].updated_at \in Nat
        /\ job'[j].updated_at \in Nat
    BY <1>1 DEF VideosFit, ReadsRows, Busy, Videos, WorkTyped, Attempts, JobRows
  <2>2. job'[j] = job[j] \/ job'[j].updated_at > job[j].updated_at
    BY <2>1 DEF RowsMove
  <2>3. CASE job'[j] = job[j]
    BY <1>1, <2>1, <2>3
  <2>4. CASE job'[j].updated_at > job[j].updated_at
    BY <1>1, <2>1, <2>4
  <2> QED BY <2>2, <2>3, <2>4
<1>2. ASSUME NEW y \in Workers, Busy(y)'
      PROVE  \/ Busy(y) /\ act'[y].job = act[y].job /\ act'[y].seen = act[y].seen
             \/ y = w /\ ~ Busy(w) /\ job' = job /\ act'[w].seen = job[act'[w].job]
  BY <1>2 DEF AttemptMoves, Busy, At
<1>3. ASSUME NEW y \in Workers, NEW z \in Workers, y # z, Busy(y)', Busy(z)', OpOf(y)' = OpOf(z)',
             Busy(y), act'[y].job = act[y].job, act'[y].seen = act[y].seen
      PROVE  act'[y].seen = act'[z].seen
  <2>1. act'[y].job = act'[z].job /\ act'[y].seen.updated_at = act'[z].seen.updated_at
    BY <1>3 DEF OpOf
  <2>2. CASE Busy(z) /\ act'[z].job = act[z].job /\ act'[z].seen = act[z].seen
    <3>1. OpOf(y) = OpOf(z)
      BY <1>3, <2>1, <2>2 DEF OpOf
    <3> QED BY <1>3, <2>2, <3>1 DEF VideosFit, ReadsRows
  <2>3. CASE job' = job /\ act'[z].seen = job[act'[z].job]
    BY <1>1, <1>3, <2>1, <2>3
  <2> QED BY <1>2, <1>3, <2>2, <2>3
<1>4. ASSUME NEW y \in Workers, Busy(y)', OpOf(y)' = OpOf(x)' PROVE act'[y].seen = act'[x].seen
  <2>1. CASE y = x
    BY <2>1
  <2>2. CASE y # x
    BY <1>2, <1>3, <1>4, <2>2
  <2> QED BY <2>1, <2>2
<1>5. CASE Busy(x) /\ act'[x].job = act[x].job /\ act'[x].seen = act[x].seen
  BY <1>1, <1>4, <1>5
<1>6. CASE job' = job /\ act'[x].seen = job[act'[x].job]
  <2>1. act'[x].job \in Jobs
    BY DEF Busy, Videos
  <2>2. job[act'[x].job].updated_at \in Nat
    BY <2>1 DEF WorkTyped, JobRows
  <2> QED BY <1>4, <1>6, <2>2
<1> QED BY <1>2, <1>5, <1>6

\* An attempt that does not move is as it was.
LEMMA OthersFit ==
  ASSUME WorkTyped, VideosFit, NEW w \in Workers, RowsMove(w), OpsMove(w), TasksMove(w),
         NEW x \in Workers, x # w, act'[x] = act[x]
  PROVE  AttemptFits(x)'
<1> DEFINE j == act[x].job
<1>1. CASE ~ Busy(x)
  BY <1>1 DEF AttemptFits, Busy, Starts, Follows, Owns, At
<1>2. CASE Busy(x)
  <2>1. j \in Videos /\ AttemptFits(x) /\ AttemptFits(w) /\ OpOf(x) = <<j, act[x].seen.updated_at>>
    BY <1>2 DEF Busy, VideosFit, OpOf
  <2>2. \/ job'[j] = job[j]
        \/ /\ job[j].status \notin Following
           /\ job'[j].status \in Following => Starts(w)
        \/ Follows(w) /\ Owns(w) /\ act[w].job = j /\ OpOf(w) \in closed'
    BY <2>1 DEF RowsMove
  <2>3. ASSUME Follows(w), Owns(w), act[w].job = j, job[j] = act[x].seen PROVE OpOf(w) = OpOf(x)
    BY <2>1, <2>3 DEF AttemptFits, OpOf
  <2>4. ASSUME Owns(w), OpOf(x) = OpOf(w), Follows(x) PROVE Follows(w) /\ job[j] = act[x].seen
    <3>1. act[w].seen = act[x].seen /\ act[w].job = j
      BY <1>2, <2>4 DEF VideosFit, ReadsRows, Owns, OpOf
    <3>2. Follows(w)
      BY <2>4, <3>1 DEF Follows, Owns
    <3> QED BY <2>1, <2>4, <3>1, <3>2 DEF AttemptFits
  <2>5. OpOf(x) \in closed => OpOf(x) \in closed' \/ (Owns(w) /\ OpOf(x) = OpOf(w))
    BY <2>1, OpJob DEF OpsMove
  <2>6. Follows(x) /\ Owns(x) => job'[j] = job[j]
    <3> SUFFICES ASSUME Follows(x), Owns(x) PROVE job'[j] = job[j]
      OBVIOUS
    <3>1. job[j] = act[x].seen /\ job[j].status \in Following
      BY <2>1 DEF AttemptFits, Follows
    <3>2. ~ (Follows(w) /\ Owns(w) /\ act[w].job = j)
      BY <2>3, <3>1 DEF VideosFit, OwnersAreAlone
    <3> QED BY <2>2, <3>1, <3>2
  <2>7. Owns(x) => OpOf(x) \in closed'
    BY <2>1, <2>5 DEF AttemptFits, VideosFit, OwnersAreAlone
  <2>8. ASSUME Follows(x), act[x].pc \in {"prepare", "invoke"}
        PROVE  job'[j] = act[x].seen \/ OpOf(x) \in closed'
    <3>1. CASE job[j] = act[x].seen
      <4>1. job[j].status \in Following
        BY <2>8, <3>1 DEF Follows
      <4> QED BY <2>2, <2>3, <3>1, <4>1
    <3>2. CASE job[j] # act[x].seen
      <4>1. OpOf(x) \in closed
        BY <2>1, <2>8, <3>2 DEF AttemptFits
      <4> QED BY <2>4, <2>5, <2>8, <3>2, <4>1
    <3> QED BY <3>1, <3>2
  <2>9. Starts(x) /\ act[x].pc \in {"prepare", "invoke", "execute", "start", "create", "answer"}
          => job'[j].status \notin Following
    <3> SUFFICES ASSUME Starts(x), act[x].pc \in {"prepare", "invoke", "execute", "start", "create", "answer"}
                 PROVE  job'[j].status \notin Following
      OBVIOUS
    <3>1. job[j].status \notin Following
      BY <2>1 DEF AttemptFits
    <3>2. ~ Starts(w)
      BY OnlyStarter
    <3>3. ~ (Follows(w) /\ Owns(w) /\ act[w].job = j)
      BY <2>1, <3>1 DEF AttemptFits, Follows
    <3> QED BY <2>2, <3>1, <3>2, <3>3
  <2>10. Busy(x) /\ At(x, "answer") => act[x].ref \in DOMAIN tasks'[j] /\ tasks'[j][act[x].ref] = "sent"
    <3> SUFFICES ASSUME At(x, "answer")
                 PROVE  act[x].ref \in DOMAIN tasks'[j] /\ tasks'[j][act[x].ref] = "sent"
      OBVIOUS
    <3>1. Starts(x) /\ act[x].ref \in DOMAIN tasks[j] /\ tasks[j][act[x].ref] = "sent"
      BY <1>2, <2>1 DEF AttemptFits, Starts, At
    <3>2. ~ (Busy(w) /\ At(w, "answer"))
      BY <2>1, <3>1, OnlyStarter DEF AttemptFits, Starts, At
    <3> QED BY <2>1, <3>1, <3>2 DEF TasksMove
  <2>11. Busy(x) /\ act[x].pc \in {"poll", "import"} => Follows(x) /\ Owns(x)
    BY <2>1 DEF AttemptFits, At, Follows, Following, Owns
  <2>12. /\ (Busy(x)' <=> Busy(x)) /\ (Starts(x)' <=> Starts(x)) /\ (Follows(x)' <=> Follows(x))
         /\ (Owns(x)' <=> Owns(x)) /\ OpOf(x)' = OpOf(x) /\ \A pc : At(x, pc)' <=> At(x, pc)
    BY DEF Busy, Starts, Follows, Owns, OpOf, At
  <2> QED BY <2>1, <2>6, <2>7, <2>8, <2>9, <2>10, <2>11, <2>12 DEF AttemptFits, At
<1> QED BY <1>1, <1>2

\* Owners stay alone.
LEMMA OwnersStayAlone ==
  ASSUME VideosFit, NEW w \in Workers, AttemptMoves(w)
  PROVE  OwnersAreAlone'
<1>1. ASSUME NEW x \in Workers, NEW y \in Workers, Owns(x)', Owns(y)', OpOf(x)' = OpOf(y)', x # w, x # y
      PROVE  FALSE
  <2>1. act'[x] = act[x] /\ Owns(x) /\ OpOf(x)' = OpOf(x) /\ OpOf(x) \in closed
    <3>1. act'[x] = act[x]
      BY <1>1 DEF AttemptMoves
    <3>2. Owns(x) /\ OpOf(x)' = OpOf(x)
      BY <1>1, <3>1 DEF Owns, Busy, At, OpOf
    <3> QED BY <3>1, <3>2 DEF VideosFit, AttemptFits
  <2>2. CASE y # w
    <3>1. act'[y] = act[y]
      BY <2>2 DEF AttemptMoves
    <3>2. Owns(y) /\ OpOf(y)' = OpOf(y)
      BY <1>1, <3>1 DEF Owns, Busy, At, OpOf
    <3> QED BY <1>1, <2>1, <3>2 DEF VideosFit, OwnersAreAlone
  <2>3. CASE y = w
    <3>1. Owns(w)
      BY <1>1, <2>1, <2>3 DEF AttemptMoves
    <3>2. OpOf(w)' = OpOf(w)
      BY <1>1, <2>3, <3>1 DEF AttemptMoves, Owns, OpOf
    <3> QED BY <1>1, <2>1, <2>3, <3>1, <3>2 DEF VideosFit, OwnersAreAlone
  <2> QED BY <2>2, <2>3
<1> QED BY <1>1 DEF OwnersAreAlone

\* Together: a step of an attempt keeps what is known of videos.
LEMMA AttemptStep ==
  ASSUME WorkTyped, WorkTyped', VideosFit, NEW w \in Workers, RowsMove(w), OpsMove(w), TasksMove(w),
         AttemptMoves(w), AttemptFits(w)', HeardIsAlone', \A j \in Videos : RowFits(j)'
  PROVE  VideosFit'
<1>1. \A x \in Workers : ReadsRows(x)'
  BY ReadingSurvives
<1>2. ASSUME NEW x \in Workers, x # w PROVE AttemptFits(x)'
  <2>1. act'[x] = act[x]
    BY <1>2 DEF AttemptMoves
  <2> QED BY <1>2, <2>1, OthersFit
<1>3. OwnersAreAlone'
  BY OwnersStayAlone
<1> QED BY <1>1, <1>2, <1>3 DEF VideosFit

\* What a worker does, it does to its own attempt.
LEMMA GoesFacts ==
  ASSUME WorkTyped, NEW w \in Workers, NEW pc, Goes(w, pc)
  PROVE  /\ \A x \in Workers \ {w} : act'[x] = act[x]
         /\ act'[w].pc = pc /\ act'[w].job = act[w].job /\ act'[w].seen = act[w].seen
         /\ act'[w].ref = act[w].ref /\ act'[w].live = act[w].live
BY DEF WorkTyped, Goes, Attempts

LEMMA EndFacts ==
  ASSUME WorkTyped, NEW w \in Workers, act' = [act EXCEPT ![w] = Resting]
  PROVE  /\ \A x \in Workers \ {w} : act'[x] = act[x]
         /\ act'[w].pc = "idle" /\ ~ act'[w].live
BY DEF WorkTyped, Resting

\* The attempt that is heard stays alone when another one moves unheard, and
\* when the run goes on without it.
LEMMA HeardStays ==
  ASSUME HeardIsAlone, NEW w \in Workers, \A x \in Workers \ {w} : act'[x] = act[x],
         \/ flow' = flow /\ (act'[w].live => act[w].live)
         \/ ~ act'[w].live /\ (act[w].live \/ flow.worker = {w} \/ flow.worker = {})
  PROVE  HeardIsAlone'
<1>1. ASSUME NEW x \in Workers, act'[x].live PROVE flow'.state = "running" /\ flow'.worker = {x}
  <2>1. CASE flow' = flow /\ (act'[w].live => act[w].live)
    BY <1>1, <2>1 DEF HeardIsAlone
  <2>2. CASE ~ act'[w].live /\ (act[w].live \/ flow.worker = {w} \/ flow.worker = {})
    <3>1. x # w /\ act[x].live
      BY <1>1, <2>2
    <3>2. flow.worker = {x} /\ (act[w].live => flow.worker = {w})
      BY <3>1 DEF HeardIsAlone
    <3> QED BY <2>2, <3>1, <3>2
  <2> QED BY <2>1, <2>2
<1> QED BY <1>1 DEF HeardIsAlone

LEMMA AnswerIsHeard ==
  ASSUME WorkTyped, HeardIsAlone, NEW w \in Workers, NEW n,
         Returns(w, n) \/ Raises(w, n)
  PROVE  HeardIsAlone' /\ act' = [act EXCEPT ![w] = Resting]
<1>1. act' = [act EXCEPT ![w] = Resting] /\ (act[w].live \/ flow' = flow)
  BY DEF Returns, Raises
<1>2. \A x \in Workers \ {w} : act'[x] = act[x]
  BY <1>1, EndFacts
<1>3. ~ act'[w].live
  BY <1>1, EndFacts
<1> QED BY <1>1, <1>2, <1>3, HeardStays

LEMMA GoingIsHeard ==
  ASSUME WorkTyped, HeardIsAlone, NEW w \in Workers, NEW pc, Goes(w, pc), UNCHANGED flow
  PROVE  HeardIsAlone'
BY GoesFacts, HeardStays

\* A transition that a worker records.
LEMMA RecordsFacts ==
  ASSUME WorkTyped, NEW w \in Workers, NEW to, NEW ref, NEW code, NEW next,
         Records(w, to, ref, code, next)
  PROVE  LET j == act[w].job IN
         /\ \/ job' = job /\ Goes(w, "report") /\ ~ Allowed(job[j].status, to)
            \/ /\ Allowed(job[j].status, to) /\ Goes(w, next)
               /\ job'[j].status = to /\ job'[j].code = code
               /\ job'[j].ref = IF ref = 0 THEN job[j].ref ELSE ref
               /\ job'[j].updated_at > job[j].updated_at
         /\ \A i \in Jobs \ {j} : job'[i] = job[i]
         /\ \E pc : Goes(w, pc)
<1> DEFINE j == act[w].job
<1>1. j \in Jobs /\ job[j] \in JobRows /\ job \in [Jobs -> JobRows]
  BY DEF WorkTyped, Attempts
<1>2. CASE Allowed(job[j].status, to)
  <2>1. job' = [job EXCEPT ![j] = Changed(j, to, ref, code)] /\ Goes(w, next)
    BY <1>2 DEF Records, Write
  <2>2. job'[j] = Changed(j, to, ref, code) /\ \A i \in Jobs \ {j} : job'[i] = job[i]
    BY <1>1, <2>1
  <2>3. /\ Changed(j, to, ref, code).status = to /\ Changed(j, to, ref, code).code = code
        /\ Changed(j, to, ref, code).ref = IF ref = 0 THEN job[j].ref ELSE ref
        /\ Changed(j, to, ref, code).updated_at = job[j].updated_at + 1
    <3> DEFINE unknown == IF to = "OUTCOME_UNKNOWN" THEN job[j].unknown + Reserved[j] ELSE job[j].unknown
               known   == IF ref = 0 THEN job[j].ref ELSE ref
    <3>1. Changed(j, to, ref, code) =
            [job[j] EXCEPT !.status = to, !.ref = known, !.unknown = unknown, !.code = code,
                           !.identity = "both", !.updated_at = job[j].updated_at + 1]
      BY DEF Changed
    <3> HIDE DEF unknown
    <3> QED BY <1>1, <3>1 DEF JobRows
  <2>4. job'[j].updated_at > job[j].updated_at
    BY <1>1, <2>2, <2>3 DEF JobRows
  <2> QED BY <1>2, <2>1, <2>2, <2>3, <2>4
<1>3. CASE ~ Allowed(job[j].status, to)
  BY <1>3 DEF Records
<1> QED BY <1>2, <1>3

\* Who begins, ends, fails and goes on: the run keeps at most one that is heard.
LEMMA HeardStep ==
  ASSUME WorkTyped, HeardIsAlone, NEW w \in Workers, Work(w) \/ Fault(w) \/ GiveUpOn(w)
  PROVE  HeardIsAlone' /\ \A x \in Workers \ {w} : act'[x] = act[x]
<1>1. ASSUME NEW n, Returns(w, n) \/ Raises(w, n)
      PROVE  HeardIsAlone' /\ \A x \in Workers \ {w} : act'[x] = act[x]
  BY <1>1, AnswerIsHeard, EndFacts
<1>2. ASSUME NEW pc, Goes(w, pc), UNCHANGED flow
      PROVE  HeardIsAlone' /\ \A x \in Workers \ {w} : act'[x] = act[x]
  BY <1>2, GoingIsHeard, GoesFacts
<1>3. ASSUME NEW to, NEW ref, NEW code, NEW next, Records(w, to, ref, code, next), UNCHANGED flow
      PROVE  HeardIsAlone' /\ \A x \in Workers \ {w} : act'[x] = act[x]
  BY <1>2, <1>3, RecordsFacts
<1>4. CASE Begin(w)
  <2>1. flow.worker = {}
    BY <1>4 DEF Begin
  <2>2. \A x \in Workers : ~ act[x].live
    BY <2>1 DEF HeardIsAlone
  <2>3. CASE job[Order[flow.at]].status \in Executable
    <3>1. /\ flow' = [flow EXCEPT !.worker = {w}] /\ flow.state = "running" /\ flow \in Flows
          /\ act' = [act EXCEPT ![w] = [pc |-> "prepare", job |-> Order[flow.at],
                                        seen |-> job[Order[flow.at]], ref |-> 0, live |-> TRUE]]
      BY <1>4, <2>3 DEF Begin, WorkTyped
    <3>2. \A x \in Workers \ {w} : act'[x] = act[x]
      BY <3>1 DEF WorkTyped
    <3>3. flow'.worker = {w} /\ flow'.state = "running"
      BY <3>1 DEF Flows
    <3> QED BY <2>2, <3>2, <3>3 DEF HeardIsAlone
  <2>4. CASE job[Order[flow.at]].status \notin Executable
    <3>1. act' = act
      BY <1>4, <2>4 DEF Begin
    <3> QED BY <2>2, <3>1 DEF HeardIsAlone
  <2> QED BY <2>3, <2>4
<1>5. CASE Prepare(w) \/ CapDenied(w) \/ ConvergeLostStart(w) \/ Report(w)
  <2>1. CASE Prepare(w)
    BY <1>1, <1>2, <2>1, Zenon DEF Prepare
  <2>2. CASE CapDenied(w)
    BY <1>1, <2>2, Zenon DEF CapDenied
  <2>3. CASE ConvergeLostStart(w)
    BY <1>1, <2>3, Zenon DEF ConvergeLostStart
  <2>4. CASE Report(w)
    BY <1>1, <2>4, Zenon DEF Report
  <2> QED BY <1>5, <2>1, <2>2, <2>3, <2>4
<1>6. CASE Execute(w)
  <2>1. CASE \E pc : Goes(w, pc)
    BY <1>2, <1>6, <2>1 DEF Execute
  <2>2. CASE \E pc, ref : act' = [act EXCEPT ![w].pc = pc, ![w].ref = ref]
    <3>1. act'[w].live = act[w].live /\ \A x \in Workers \ {w} : act'[x] = act[x]
      BY <2>2 DEF WorkTyped, Attempts
    <3> QED BY <1>6, <3>1, HeardStays DEF Execute
  <2> QED BY <1>6, <2>1, <2>2 DEF Execute
<1>7. CASE Create(w)
  <2>1. act'[w].live = act[w].live /\ \A x \in Workers \ {w} : act'[x] = act[x]
    BY <1>7 DEF Create, WorkTyped, Attempts
  <2> QED BY <1>7, <2>1, HeardStays DEF Create
<1>8. CASE Invoke(w) \/ Start(w) \/ Accepted(w) \/ Refused(w) \/ AnswerLost(w) \/ StoreImage(w)
           \/ Poll(w) \/ Import(w)
  <2>1. CASE Invoke(w)
    BY <1>2, <2>1 DEF Invoke
  <2>2. CASE Start(w) \/ StoreImage(w) \/ Poll(w)
    BY <1>3, <2>2 DEF Start, StoreImage, Poll
  <2>3. CASE Accepted(w)
    BY <1>3, <2>3 DEF Accepted
  <2>4. CASE Refused(w) \/ AnswerLost(w)
    BY <1>3, <2>4 DEF Refused, AnswerLost
  <2>5. CASE Import(w)
    BY <1>2, <1>3, <2>5 DEF Import
  <2> QED BY <1>8, <2>1, <2>2, <2>3, <2>4, <2>5
<1>9. CASE Fault(w)
  <2>1. CASE PollFails(w)
    BY <1>2, <2>1 DEF PollFails
  <2>2. CASE Stumble(w)
    BY <1>1, <1>2, <2>2 DEF Stumble
  <2>3. CASE Crash(w)
    <3>1. act' = [act EXCEPT ![w] = Resting] /\ flow' = flow
      BY <2>3 DEF Crash
    <3>2. (\A x \in Workers \ {w} : act'[x] = act[x]) /\ ~ act'[w].live
      BY <3>1, EndFacts
    <3> QED BY <3>1, <3>2, HeardStays
  <2> QED BY <1>9, <2>1, <2>2, <2>3 DEF Fault
<1>10. CASE GiveUpOn(w)
  <2>1. flow.worker = {w}
    BY <1>10 DEF GiveUpOn
  <2>2. (\A x \in Workers \ {w} : act'[x] = act[x]) /\ ~ act'[w].live
    BY <1>10 DEF GiveUpOn, WorkTyped, Attempts
  <2> QED BY <2>1, <2>2, HeardStays
<1> QED BY <1>4, <1>5, <1>6, <1>7, <1>8, <1>9, <1>10 DEF Work

\* A worker changes the row, the tasks and the operation of the job it is at.
LEMMA OwnWork ==
  ASSUME WorkTyped, NEW w \in Workers, Work(w) \/ Fault(w), ~ Begin(w)
  PROVE  /\ ~ At(w, "idle")
         /\ \A i \in Jobs \ {act[w].job} : job'[i] = job[i] /\ tasks'[i] = tasks[i]
         /\ \A op \in closed : op \in closed' \/ op = OpOf(w)
         /\ act'[w].pc = "idle" \/ (act'[w].job = act[w].job /\ act'[w].seen = act[w].seen)
<1>1. ASSUME NEW n, Returns(w, n) \/ Raises(w, n) PROVE act'[w].pc = "idle"
  <2>1. act' = [act EXCEPT ![w] = Resting]
    BY <1>1 DEF Returns, Raises
  <2> QED BY <2>1, EndFacts
<1>2. ASSUME NEW pc, Goes(w, pc) PROVE act'[w].job = act[w].job /\ act'[w].seen = act[w].seen
  BY <1>2, GoesFacts
<1>3. ASSUME NEW to, NEW ref, NEW code, NEW next, Records(w, to, ref, code, next)
      PROVE  /\ \A i \in Jobs \ {act[w].job} : job'[i] = job[i]
             /\ act'[w].job = act[w].job /\ act'[w].seen = act[w].seen
  BY <1>2, <1>3, RecordsFacts
<1>4. ASSUME NEW state, Become(w, state)
      PROVE  \A i \in Jobs \ {act[w].job} : tasks'[i] = tasks[i]
  BY <1>4 DEF Become, WorkTyped
<1>5. ASSUME NEW row, Write(act[w].job, row)
      PROVE  \A i \in Jobs \ {act[w].job} : job'[i] = job[i]
  BY <1>5 DEF Write, WorkTyped
<1>6. CASE Prepare(w)
  <2>1. act'[w].pc = "idle" \/ (act'[w].job = act[w].job /\ act'[w].seen = act[w].seen)
    BY <1>1, <1>2, <1>6, Zenon DEF Prepare
  <2> QED BY <1>6, <2>1 DEF Prepare, At
<1>7. CASE CapDenied(w)
  <2>1. act'[w].pc = "idle"
    BY <1>1, <1>7, Zenon DEF CapDenied
  <2>2. \A i \in Jobs \ {act[w].job} : job'[i] = job[i]
    BY <1>5, <1>7, Zenon DEF CapDenied
  <2> QED BY <1>7, <2>1, <2>2 DEF CapDenied, At
<1>8. CASE ConvergeLostStart(w)
  <2>1. act'[w].pc = "idle"
    BY <1>1, <1>8, Zenon DEF ConvergeLostStart
  <2>2. \A i \in Jobs \ {act[w].job} : job'[i] = job[i]
    BY <1>5, <1>8, Zenon DEF ConvergeLostStart
  <2> QED BY <1>8, <2>1, <2>2 DEF ConvergeLostStart, At
<1>9. CASE Invoke(w)
  BY <1>2, <1>9 DEF Invoke, At
<1>10. CASE Execute(w)
  <2>1. act'[w].job = act[w].job /\ act'[w].seen = act[w].seen
    <3>1. CASE \E pc : Goes(w, pc)
      BY <1>2, <3>1
    <3>2. CASE \E pc, ref : act' = [act EXCEPT ![w].pc = pc, ![w].ref = ref]
      BY <3>2 DEF WorkTyped, Attempts
    <3> QED BY <1>10, <3>1, <3>2 DEF Execute
  <2>2. \A op \in closed : op \in closed' \/ op = OpOf(w)
    BY <1>10 DEF Execute
  <2> QED BY <1>10, <2>1, <2>2 DEF Execute, At
<1>11. CASE Create(w)
  <2>1. act'[w].job = act[w].job /\ act'[w].seen = act[w].seen
    BY <1>11 DEF Create, WorkTyped, Attempts
  <2>2. \A i \in Jobs \ {act[w].job} : tasks'[i] = tasks[i]
    BY <1>11 DEF Create, WorkTyped
  <2> QED BY <1>11, <2>1, <2>2 DEF Create, At
<1>12. CASE Start(w) \/ StoreImage(w) \/ Poll(w)
  BY <1>3, <1>12 DEF Start, StoreImage, Poll, At
<1>13. CASE Accepted(w) \/ AnswerLost(w)
  BY <1>3, <1>4, <1>13 DEF Accepted, AnswerLost, At
<1>14. CASE Refused(w)
  <2>1. \A op \in closed : op \in closed' \/ op = OpOf(w)
    BY <1>14 DEF Refused
  <2>2. \A i \in Jobs \ {act[w].job} : tasks'[i] = tasks[i]
    BY <1>4, <1>14 DEF Refused
  <2>3. Records(w, "FAILED", 0, "rejected", "report") /\ At(w, "answer")
    BY <1>14 DEF Refused
  <2> QED BY <1>3, <2>1, <2>2, <2>3 DEF At
<1>15. CASE Import(w)
  <2>1. \A op \in closed : op \in closed' \/ op = OpOf(w)
    BY <1>15 DEF Import
  <2>2. Records(w, "SUCCEEDED", 0, "none", "report") \/ (Goes(w, "report") /\ job' = job)
    BY <1>15 DEF Import
  <2>3. tasks' = tasks /\ At(w, "import")
    BY <1>15 DEF Import
  <2> QED BY <1>2, <1>3, <2>1, <2>2, <2>3 DEF At
<1>16. CASE Report(w)
  BY <1>1, <1>16 DEF Report, At
<1>17. CASE PollFails(w)
  BY <1>2, <1>17 DEF PollFails, At
<1>18. CASE Stumble(w)
  BY <1>1, <1>2, <1>18 DEF Stumble, At
<1>19. CASE Crash(w)
  BY <1>19, EndFacts DEF Crash
<1> QED BY <1>6, <1>7, <1>8, <1>9, <1>10, <1>11, <1>12, <1>13, <1>14, <1>15, <1>16, <1>17, <1>18, <1>19
        DEF Work, Fault

\* A row whose job and tasks are left alone fits as before.
LEMMA RowRests ==
  ASSUME NEW j, RowFits(j), job'[j] = job[j], tasks'[j] = tasks[j]
  PROVE  RowFits(j)'
BY DEF RowFits

\* A row fits when nothing becomes of its task, or its provider finishes it.
LEMMA RowStays ==
  ASSUME NEW j, RowFits(j), job'[j] = job[j],
         \A i \in DOMAIN tasks[j] :
           /\ i \in DOMAIN tasks'[j]
           /\ \/ tasks'[j][i] = tasks[j][i] \/ tasks[j][i] = "sent"
              \/ tasks[j][i] = "running" /\ tasks'[j][i] \in {"done", "dead"}
  PROVE  RowFits(j)'
BY DEF RowFits

\* An attempt that is over, or at an image, has nothing to keep.
LEMMA RestFits ==
  ASSUME NEW w, ~ Busy(w)'
  PROVE  AttemptFits(w)'
BY DEF AttemptFits, Busy, Starts, Follows, Owns, At

\* The work at images leaves the videos alone.
LEMMA ImageWork ==
  ASSUME WorkTyped, WorkTyped', VideosFit, NEW w \in Workers, Work(w) \/ Fault(w), ~ Begin(w),
         ~ Busy(w)
  PROVE  VideosFit'
<1>1. act[w].job \notin Videos
  BY OwnWork DEF Busy
<1>2. ~ Busy(w)'
  BY <1>1, OwnWork DEF Busy, At
<1>3. \A j \in Videos : job'[j] = job[j] /\ tasks'[j] = tasks[j]
  BY <1>1, OwnWork DEF Videos
<1>4. RowsMove(w) /\ TasksMove(w)
  BY <1>3 DEF RowsMove, TasksMove
<1>5. OpsMove(w)
  BY <1>1, OwnWork, OpJob DEF OpsMove
<1>6. HeardIsAlone' /\ \A x \in Workers \ {w} : act'[x] = act[x]
  BY HeardStep DEF VideosFit
<1>7. AttemptMoves(w)
  BY <1>2, <1>6 DEF AttemptMoves, Owns
<1>8. \A j \in Videos : RowFits(j)'
  BY <1>3, RowRests DEF VideosFit
<1> QED BY <1>2, <1>4, <1>5, <1>6, <1>7, <1>8, RestFits, AttemptStep

\* What is left to show of a step at a video.
LEMMA VideoWork ==
  ASSUME WorkTyped, WorkTyped', VideosFit, NEW w \in Workers, Work(w) \/ Fault(w), ~ Begin(w),
         Busy(w), NEW j, j = act[w].job,
         \/ job'[j] = job[j]
         \/ /\ job'[j].updated_at > job[j].updated_at
            /\ \/ job[j].status \notin Following /\ (job'[j].status \in Following => Starts(w))
               \/ Follows(w) /\ Owns(w) /\ OpOf(w) \in closed',
         OpOf(w) \in closed => OpOf(w) \in closed' \/ Owns(w),
         \A i \in DOMAIN tasks[j] : i \in DOMAIN tasks'[j]
                                    /\ (tasks'[j][i] = tasks[j][i] \/ At(w, "answer")),
         Owns(w)' => Owns(w) \/ OpOf(w) \notin closed,
         AttemptFits(w)', RowFits(j)'
  PROVE  VideosFit'
<1>1. \A i \in Videos \ {j} : job'[i] = job[i] /\ tasks'[i] = tasks[i]
  BY OwnWork DEF Videos
<1>2. RowsMove(w)
  BY <1>1 DEF RowsMove
<1>3. TasksMove(w)
  BY <1>1 DEF TasksMove
<1>4. OpsMove(w)
  BY OwnWork DEF OpsMove
<1>5. HeardIsAlone' /\ \A x \in Workers \ {w} : act'[x] = act[x]
  BY HeardStep DEF VideosFit
<1>6. \/ ~ Busy(w)'
      \/ act'[w].job = act[w].job /\ act'[w].seen = act[w].seen /\ OpOf(w)' = OpOf(w)
  BY OwnWork DEF Busy, At, OpOf
<1>7. AttemptMoves(w)
  BY <1>5, <1>6 DEF AttemptMoves, Owns
<1>8. \A i \in Videos : RowFits(i)'
  BY <1>1, RowRests DEF VideosFit
<1> QED BY <1>2, <1>3, <1>4, <1>5, <1>7, <1>8, AttemptStep

\* A step after which the attempt is over, or has only the row to report.
LEMMA VideoEnds ==
  ASSUME WorkTyped, WorkTyped', VideosFit, NEW w \in Workers, Work(w) \/ Fault(w), ~ Begin(w),
         Busy(w), NEW j, j = act[w].job,
         \/ act' = [act EXCEPT ![w] = Resting]
         \/ \E pc \in {"capped", "lost", "report"} : Goes(w, pc),
         \/ job'[j] = job[j]
         \/ /\ job'[j].updated_at > job[j].updated_at
            /\ \/ job[j].status \notin Following /\ (job'[j].status \in Following => Starts(w))
               \/ Follows(w) /\ Owns(w) /\ OpOf(w) \in closed',
         OpOf(w) \in closed => OpOf(w) \in closed' \/ Owns(w),
         \A i \in DOMAIN tasks[j] : i \in DOMAIN tasks'[j]
                                    /\ (tasks'[j][i] = tasks[j][i] \/ At(w, "answer")),
         RowFits(j)'
  PROVE  VideosFit'
<1>1. CASE act' = [act EXCEPT ![w] = Resting]
  <2>1. ~ Busy(w)'
    BY <1>1, EndFacts DEF Busy, At
  <2>2. AttemptFits(w)' /\ ~ Owns(w)'
    BY <2>1, RestFits DEF Owns
  <2> QED BY <2>2, VideoWork
<1>2. CASE \E pc \in {"capped", "lost", "report"} : Goes(w, pc)
  <2>1. /\ act'[w].pc \in {"capped", "lost", "report"}
        /\ act'[w].seen = act[w].seen /\ act'[w].job = act[w].job /\ act'[w].live = act[w].live
    BY <1>2, GoesFacts
  <2>2. Starts(w) => act[w].live
    BY DEF VideosFit, AttemptFits
  <2>3. AttemptFits(w)' /\ ~ Owns(w)'
    BY <2>1, <2>2 DEF AttemptFits, Starts, Busy, Owns, Follows, At
  <2> QED BY <2>3, VideoWork
<1> QED BY <1>1, <1>2

\* What a provider's answer makes of the tasks of a job.
LEMMA BecomeFacts ==
  ASSUME WorkTyped, NEW w \in Workers, NEW state, Become(w, state),
         act[w].ref \in DOMAIN tasks[act[w].job]
  PROVE  /\ tasks'[act[w].job][act[w].ref] = state
         /\ \A i \in DOMAIN tasks[act[w].job] :
              /\ i \in DOMAIN tasks'[act[w].job]
              /\ i # act[w].ref => tasks'[act[w].job][i] = tasks[act[w].job][i]
<1>1. act[w].job \in Jobs /\ tasks \in [Jobs -> Seq(TaskStates)]
  BY DEF WorkTyped, Attempts
<1>2. tasks'[act[w].job] = [tasks[act[w].job] EXCEPT ![act[w].ref] = state]
  BY <1>1 DEF Become
<1> QED BY <1>2

\* Preparing a video: it is invoked only to be started or to be followed.
LEMMA PrepareKeeps ==
  ASSUME WorkTyped, WorkTyped', VideosFit, NEW w \in Workers, Busy(w), Prepare(w)
  PROVE  VideosFit'
<1> PICK j : j = act[w].job
  OBVIOUS
<1>1. job' = job /\ tasks' = tasks /\ closed' = closed /\ At(w, "prepare")
  BY DEF Prepare
<1>2. RowFits(j) /\ j \in Videos
  BY DEF VideosFit, Busy
<1>3. RowFits(j)'
  BY <1>1, <1>2, RowRests
<1>4. ~ Begin(w) /\ Work(w)
  BY <1>1 DEF Begin, At, Work
<1>5. \/ Raises(w, Retried)
      \/ \E pc \in {"capped", "lost"} : Goes(w, pc)
      \/ Goes(w, "invoke") /\ CanInvoke(j, act[w].seen)
  BY DEF Prepare
<1>6. CASE Raises(w, Retried) \/ \E pc \in {"capped", "lost"} : Goes(w, pc)
  <2>1. \/ act' = [act EXCEPT ![w] = Resting]
        \/ \E pc \in {"capped", "lost", "report"} : Goes(w, pc)
    BY <1>6 DEF Raises
  <2> QED BY <1>1, <1>3, <1>4, <2>1, VideoEnds
<1>7. CASE Goes(w, "invoke") /\ CanInvoke(j, act[w].seen)
  <2>1. /\ act'[w].pc = "invoke" /\ act'[w].live = act[w].live
        /\ act'[w].seen = act[w].seen /\ act'[w].job = act[w].job
    BY <1>7, GoesFacts
  <2>2. /\ Busy(w)' /\ (Starts(w)' <=> Starts(w)) /\ (Follows(w)' <=> Follows(w))
        /\ ~ Owns(w)' /\ OpOf(w)' = OpOf(w)
    BY <1>2, <2>1 DEF Busy, Starts, Follows, Owns, OpOf, At
  <2>3. Starts(w) \/ Follows(w)
    BY <1>7 DEF CanInvoke, Starts, Follows, Following
  <2>4. AttemptFits(w)'
    BY <1>1, <2>1, <2>2, <2>3 DEF AttemptFits, At, VideosFit
  <2> QED BY <1>1, <1>3, <1>4, <2>2, <2>4, VideoWork
<1> QED BY <1>5, <1>6, <1>7

\* A denial by the cap blocks a row that has not been started; a lost start
\* becomes an unknown outcome.
LEMMA DenialsKeep ==
  ASSUME WorkTyped, WorkTyped', VideosFit, NEW w \in Workers, Busy(w),
         CapDenied(w) \/ ConvergeLostStart(w)
  PROVE  VideosFit'
<1> PICK j : j = act[w].job
  OBVIOUS
<1>1. /\ tasks' = tasks /\ closed' = closed /\ act[w].pc \in {"capped", "lost"}
      /\ act' = [act EXCEPT ![w] = Resting]
  BY DEF CapDenied, ConvergeLostStart, Raises, Returns, At
<1>2. RowFits(j) /\ j \in Videos /\ j \in Jobs /\ job[j] \in JobRows /\ job[j].updated_at \in Nat
  BY DEF VideosFit, Busy, Videos, WorkTyped, JobRows
<1>3. ~ Begin(w) /\ Work(w)
  BY <1>1 DEF Begin, At, Work
<1>4. \/ job' = job
      \/ /\ job[j].status \notin Following /\ job'[j].status \in {"BLOCKED_SPEND_CAP", "OUTCOME_UNKNOWN"}
         /\ job[j].ref = 0 /\ job'[j].ref = 0 /\ job'[j].code # "confirmed"
         /\ job'[j].updated_at > job[j].updated_at
  <2>1. CASE CapDenied(w)
    <3>1. CASE job[j].status = "READY" /\ Unspent(j)
               /\ job' = [job EXCEPT ![j] = [job[j] EXCEPT !.status = "BLOCKED_SPEND_CAP",
                           !.code = "cap_reached", !.identity = "worker", !.updated_at = @ + 1]]
      <4>1. job'[j] = [job[j] EXCEPT !.status = "BLOCKED_SPEND_CAP", !.code = "cap_reached",
                                     !.identity = "worker", !.updated_at = @ + 1]
        BY <1>2, <3>1 DEF WorkTyped
      <4>2. /\ job'[j].status = "BLOCKED_SPEND_CAP" /\ job'[j].code = "cap_reached"
            /\ job'[j].ref = job[j].ref /\ job'[j].updated_at = job[j].updated_at + 1
        BY <1>2, <4>1 DEF JobRows
      <4> QED BY <1>2, <3>1, <4>2 DEF Unspent, Following
    <3>2. CASE job' = job
      BY <3>2
    <3> QED BY <2>1, <3>1, <3>2 DEF CapDenied, Write
  <2>2. CASE ConvergeLostStart(w)
    <3>1. CASE Allowed(job[j].status, "OUTCOME_UNKNOWN") /\ Write(j, Changed(j, "OUTCOME_UNKNOWN", 0, "none"))
      <4>1. job[j].status = "STARTING" /\ job[j].ref = 0
        BY <1>2, <3>1 DEF Allowed, RowFits
      <4>2. job'[j] = Changed(j, "OUTCOME_UNKNOWN", 0, "none")
        BY <1>2, <3>1 DEF Write, WorkTyped
      <4>3. /\ job'[j].status = "OUTCOME_UNKNOWN" /\ job'[j].ref = job[j].ref /\ job'[j].code = "none"
            /\ job'[j].updated_at = job[j].updated_at + 1
        BY <1>2, <4>2 DEF Changed, JobRows
      <4> QED BY <1>2, <4>1, <4>3 DEF Following
    <3>2. CASE job' = job
      BY <3>2
    <3> QED BY <2>2, <3>1, <3>2 DEF ConvergeLostStart
  <2> QED BY <2>1, <2>2
<1>5. RowFits(j)'
  BY <1>1, <1>2, <1>4 DEF RowFits
<1>6. job'[j] = job[j] \/ (/\ job'[j].updated_at > job[j].updated_at
                           /\ job[j].status \notin Following /\ job'[j].status \notin Following)
  BY <1>4 DEF Following
<1> QED BY <1>1, <1>3, <1>5, <1>6, VideoEnds

\* The gateway executes an operation it has not executed, and the row is the
\* one the operation was named after.
LEMMA InvokeKeeps ==
  ASSUME WorkTyped, WorkTyped', VideosFit, NEW w \in Workers, Busy(w), Invoke(w)
  PROVE  VideosFit'
<1> PICK j : j = act[w].job
  OBVIOUS
<1>1. job' = job /\ tasks' = tasks /\ At(w, "invoke") /\ closed' = closed \cup {OpOf(w)}
  BY DEF Invoke
<1>2. RowFits(j) /\ j \in Videos /\ AttemptFits(w)
  BY DEF VideosFit, Busy
<1>3. RowFits(j)'
  BY <1>1, <1>2, RowRests
<1>4. ~ Begin(w) /\ Work(w)
  BY <1>1 DEF Begin, At, Work
<1>5. CASE OpOf(w) \in closed
  <2>1. Goes(w, "report")
    BY <1>5 DEF Invoke
  <2> QED BY <1>1, <1>3, <1>4, <2>1, VideoEnds
<1>6. CASE OpOf(w) \notin closed
  <2>1. /\ act'[w].pc = "execute" /\ act'[w].live = act[w].live
        /\ act'[w].seen = act[w].seen /\ act'[w].job = act[w].job
    BY <1>6, GoesFacts DEF Invoke
  <2>2. /\ Busy(w)' /\ (Starts(w)' <=> Starts(w)) /\ (Follows(w)' <=> Follows(w))
        /\ OpOf(w)' = OpOf(w)
    BY <1>2, <2>1 DEF Busy, Starts, Follows, OpOf, At
  <2>3. /\ Starts(w) \/ Follows(w)
        /\ Starts(w) => act[w].live /\ job[j].status \notin Following
        /\ Follows(w) => job[j] = act[w].seen
    <3>1. Starts(w) \/ Follows(w)
      BY <1>1, <1>2 DEF AttemptFits, At
    <3>2. Follows(w) => job[j] = act[w].seen
      BY <1>1, <1>2, <1>6 DEF AttemptFits, At
    <3>3. Starts(w) => act[w].live /\ job[j].status \notin Following
      BY <1>1, <1>2 DEF AttemptFits, At
    <3> QED BY <3>1, <3>2, <3>3
  <2>4. AttemptFits(w)'
    BY <1>1, <2>1, <2>2, <2>3 DEF AttemptFits, At, Owns
  <2> QED BY <1>1, <1>3, <1>4, <1>6, <2>4, VideoWork
<1> QED BY <1>5, <1>6

\* The executor starts what was READY and follows the task the row refers to.
LEMMA ExecuteKeeps ==
  ASSUME WorkTyped, WorkTyped', VideosFit, NEW w \in Workers, Busy(w), Execute(w)
  PROVE  VideosFit'
<1> PICK j : j = act[w].job
  OBVIOUS
<1>1. job' = job /\ tasks' = tasks /\ At(w, "execute") /\ closed' \subseteq closed
  BY DEF Execute
<1>2. RowFits(j) /\ j \in Videos /\ AttemptFits(w) /\ Owns(w)
  BY <1>1 DEF VideosFit, Busy, Owns, At
<1>3. RowFits(j)'
  BY <1>1, <1>2, RowRests
<1>4. ~ Begin(w) /\ Work(w)
  BY <1>1 DEF Begin, At, Work
<1>5. CASE Goes(w, "report")
  BY <1>1, <1>2, <1>3, <1>4, <1>5, VideoEnds
<1>6. CASE ~ Goes(w, "report")
  <2> PICK pc : pc = IF act[w].seen.status = "READY" THEN "start"
                     ELSE IF act[w].seen.status = "PROCESSING" THEN "poll" ELSE "import"
    OBVIOUS
  <2>1. /\ act' = [act EXCEPT ![w].pc = pc, ![w].ref = job[j].ref]
        /\ act[w].seen.status = "READY" \/ job[j].ref # 0
    BY <1>6 DEF Execute
  <2>2. closed' = closed
    BY <1>6, <2>1 DEF Execute
  <2>3. /\ act'[w].pc = pc /\ act'[w].live = act[w].live /\ act'[w].ref = job[j].ref
        /\ act'[w].seen = act[w].seen /\ act'[w].job = act[w].job
    BY <2>1 DEF WorkTyped, Attempts
  <2>4. /\ Busy(w)' /\ (Starts(w)' <=> Starts(w)) /\ (Follows(w)' <=> Follows(w))
        /\ OpOf(w)' = OpOf(w)
    BY <1>2, <2>3 DEF Busy, Starts, Follows, OpOf, At
  <2>5. /\ OpOf(w) \in closed /\ (Starts(w) \/ Follows(w))
        /\ Starts(w) => act[w].live /\ job[j].status \notin Following
        /\ Follows(w) => job[j] = act[w].seen
    BY <1>1, <1>2 DEF AttemptFits, Busy, At
  <2>6. /\ Starts(w) => pc = "start"
        /\ Follows(w) => \/ pc = "poll" /\ act[w].seen.status = "PROCESSING"
                         \/ pc = "import" /\ act[w].seen.status = "IMPORTING"
    BY DEF Starts, Follows, Following
  <2>7. AttemptFits(w)'
    BY <1>1, <1>2, <2>2, <2>3, <2>4, <2>5, <2>6 DEF AttemptFits, At, Owns, Starts, Follows, Following
  <2> QED BY <1>1, <1>2, <1>3, <1>4, <2>2, <2>7, VideoWork
<1> QED BY <1>5, <1>6

\* STARTING is no status that is followed, and the request that leaves adds a
\* task nobody refers to.
LEMMA StartKeeps ==
  ASSUME WorkTyped, WorkTyped', VideosFit, NEW w \in Workers, Busy(w), Start(w) \/ Create(w)
  PROVE  VideosFit'
<1> PICK j : j = act[w].job
  OBVIOUS
<1>1. closed' = closed /\ act[w].pc \in {"start", "create"}
  BY DEF Start, Create, At
<1>2. RowFits(j) /\ j \in Videos /\ j \in Jobs /\ AttemptFits(w) /\ Owns(w) /\ Starts(w)
      /\ act[w].live /\ job[j].status \notin Following /\ OpOf(w) \in closed
  BY <1>1 DEF VideosFit, Busy, Videos, Owns, Starts, At, AttemptFits
<1>3. ~ Begin(w) /\ Work(w)
  BY <1>1 DEF Begin, At, Work
<1>4. CASE Start(w)
  <2>1. Records(w, "STARTING", 0, "none", "create") /\ tasks' = tasks
    BY <1>4 DEF Start
  <2>2. CASE Allowed(job[j].status, "STARTING") /\ Goes(w, "create")
    <3>1. /\ job[j].status = "READY" /\ job'[j].status = "STARTING" /\ job'[j].code = "none"
          /\ job'[j].ref = job[j].ref /\ job'[j].updated_at > job[j].updated_at
      BY <2>1, <2>2, RecordsFacts DEF Allowed
    <3>2. RowFits(j)'
      BY <1>2, <2>1, <3>1 DEF RowFits
    <3>3. /\ act'[w].pc = "create" /\ act'[w].live = act[w].live
          /\ act'[w].seen = act[w].seen /\ act'[w].job = act[w].job
      BY <2>2, GoesFacts
    <3>4. Busy(w)' /\ Starts(w)' /\ ~ Follows(w)' /\ OpOf(w)' = OpOf(w)
      BY <1>2, <3>3 DEF Busy, Starts, Follows, Following, OpOf, At
    <3>5. AttemptFits(w)'
      BY <1>1, <1>2, <3>1, <3>3, <3>4 DEF AttemptFits, At, Owns, Starts, Following
    <3> QED BY <1>1, <1>2, <1>3, <2>1, <3>1, <3>2, <3>5, VideoWork DEF Following
  <2>3. CASE job' = job /\ Goes(w, "report")
    <3>1. RowFits(j)'
      BY <1>2, <2>1, <2>3, RowRests
    <3> QED BY <1>1, <1>2, <1>3, <2>1, <2>3, <3>1, VideoEnds
  <2> QED BY <2>1, <2>2, <2>3, RecordsFacts
<1>5. CASE Create(w)
  <2>1. tasks[j] \in Seq(TaskStates) /\ "sent" \in TaskStates
    BY <1>2 DEF WorkTyped, TaskStates
  <2>2. /\ job' = job /\ tasks'[j] = Append(tasks[j], "sent")
        /\ act' = [act EXCEPT ![w].pc = "answer", ![w].ref = Len(tasks[j]) + 1]
    BY <1>2, <1>5 DEF Create, WorkTyped
  <2>3. /\ \A i \in DOMAIN tasks[j] : i \in DOMAIN tasks'[j] /\ tasks'[j][i] = tasks[j][i]
        /\ Len(tasks[j]) + 1 \in DOMAIN tasks'[j] /\ tasks'[j][Len(tasks[j]) + 1] = "sent"
    BY <2>1, <2>2, AppendProperties
  <2>4. RowFits(j)'
    BY <1>2, <2>2, <2>3, RowStays
  <2>5. /\ act'[w].pc = "answer" /\ act'[w].live = act[w].live /\ act'[w].ref = Len(tasks[j]) + 1
        /\ act'[w].seen = act[w].seen /\ act'[w].job = act[w].job
    BY <2>2 DEF WorkTyped, Attempts
  <2>6. Busy(w)' /\ Starts(w)' /\ ~ Follows(w)' /\ OpOf(w)' = OpOf(w)
    BY <1>2, <2>5 DEF Busy, Starts, Follows, Following, OpOf, At
  <2>7. AttemptFits(w)'
    BY <1>1, <1>2, <2>2, <2>3, <2>5, <2>6 DEF AttemptFits, At, Owns, Starts
  <2> QED BY <1>1, <1>2, <1>3, <2>2, <2>3, <2>4, <2>7, VideoWork
<1> QED BY <1>4, <1>5

\* The provider's answer is recorded over STARTING only, for the task it is of.
LEMMA AnswerKeeps ==
  ASSUME WorkTyped, WorkTyped', VideosFit, NEW w \in Workers, Busy(w),
         Accepted(w) \/ Refused(w) \/ AnswerLost(w) \/ StoreImage(w)
  PROVE  VideosFit'
<1> PICK j : j = act[w].job
  OBVIOUS
<1> PICK r : r = act[w].ref
  OBVIOUS
<1>1. At(w, "answer") /\ j \in Videos /\ j \in Jobs /\ AttemptFits(w) /\ RowFits(j)
  BY DEF Accepted, Refused, AnswerLost, StoreImage, AttemptFits, VideosFit, Busy, Videos, At
<1>2. /\ Owns(w) /\ Starts(w) /\ job[j].status \notin Following
      /\ r \in DOMAIN tasks[j] /\ tasks[j][r] = "sent" /\ r # 0
  <2>1. Owns(w) /\ Starts(w)
    BY <1>1 DEF AttemptFits, Owns, Starts, At
  <2>2. job[j].status \notin Following /\ r \in DOMAIN tasks[j] /\ tasks[j][r] = "sent"
    BY <1>1, <2>1 DEF AttemptFits, At
  <2>3. tasks[j] \in Seq(TaskStates)
    BY <1>1 DEF WorkTyped
  <2> QED BY <2>1, <2>2, <2>3
<1>3. ~ Begin(w) /\ Work(w)
  BY <1>1 DEF Begin, At, Work, StoreImage
<1>4. /\ \E state : Become(w, state)
      /\ \/ Become(w, "running") /\ Records(w, "PROCESSING", r, "none", "report")
         \/ Records(w, "FAILED", 0, "rejected", "report")
         \/ Records(w, "OUTCOME_UNKNOWN", 0, "none", "report")
  BY <1>1 DEF Accepted, Refused, AnswerLost, StoreImage, At, Videos
<1>5. \A i \in DOMAIN tasks[j] : /\ i \in DOMAIN tasks'[j]
                                 /\ tasks'[j][i] = tasks[j][i] \/ tasks[j][i] = "sent"
  BY <1>2, <1>4, BecomeFacts
<1>6. \E pc \in {"capped", "lost", "report"} : Goes(w, pc)
  BY <1>4, RecordsFacts
<1>7. /\ RowFits(j)'
      /\ job'[j] = job[j] \/ job'[j].updated_at > job[j].updated_at
  <2>1. CASE Become(w, "running") /\ Records(w, "PROCESSING", r, "none", "report")
    <3>1. CASE job' = job
      BY <1>1, <1>5, <3>1, RowStays
    <3>2. CASE job' # job
      <4>1. /\ job'[j].status = "PROCESSING" /\ job'[j].code = "none" /\ job'[j].ref = r
            /\ job'[j].updated_at > job[j].updated_at
        BY <1>2, <2>1, <3>2, RecordsFacts
      <4>2. tasks'[j][r] = "running" /\ r \in DOMAIN tasks'[j]
        BY <1>2, <2>1, BecomeFacts
      <4> QED BY <1>2, <4>1, <4>2 DEF RowFits
    <3> QED BY <3>1, <3>2
  <2>2. ASSUME NEW to \in {"FAILED", "OUTCOME_UNKNOWN"}, NEW code \in {"none", "rejected"},
               Records(w, to, 0, code, "report")
        PROVE  RowFits(j)' /\ (job'[j] = job[j] \/ job'[j].updated_at > job[j].updated_at)
    <3>1. CASE job' = job
      BY <1>1, <1>5, <3>1, RowStays
    <3>2. CASE job' # job
      <4>1. /\ job'[j].status = to /\ job'[j].code = code /\ job'[j].ref = job[j].ref
            /\ job'[j].updated_at > job[j].updated_at /\ Allowed(job[j].status, to)
        BY <2>2, <3>2, RecordsFacts
      <4>2. job[j].ref = 0
        BY <1>1, <1>2, <2>2, <4>1 DEF Allowed, Following, RowFits
      <4> QED BY <2>2, <4>1, <4>2 DEF RowFits
    <3> QED BY <3>1, <3>2
  <2> QED BY <1>4, <2>1, <2>2
<1>8. OpOf(w) \in closed => OpOf(w) \in closed' \/ Owns(w)
  BY <1>2
<1> QED BY <1>1, <1>2, <1>3, <1>5, <1>6, <1>7, <1>8, VideoEnds

\* A poll or an import records what the provider says of the row's own task.
LEMMA PollKeeps ==
  ASSUME WorkTyped, WorkTyped', VideosFit, NEW w \in Workers, Busy(w),
         Poll(w) \/ Import(w) \/ PollFails(w)
  PROVE  VideosFit'
<1> PICK j : j = act[w].job
  OBVIOUS
<1> PICK r : r = act[w].ref
  OBVIOUS
<1>1. /\ act[w].pc \in {"poll", "import"} /\ j \in Videos /\ j \in Jobs /\ AttemptFits(w) /\ RowFits(j)
      /\ tasks' = tasks
  BY DEF Poll, Import, PollFails, VideosFit, Busy, Videos, At
<1>2. /\ Owns(w) /\ Follows(w) /\ job[j] = act[w].seen /\ r = job[j].ref /\ OpOf(w) \in closed
      /\ job[j].status \in Following
  <2>1. Owns(w) /\ Follows(w)
    BY <1>1 DEF AttemptFits, Owns, Follows, Following, At
  <2>2. job[j] = act[w].seen /\ OpOf(w) \in closed
    BY <1>1, <2>1 DEF AttemptFits
  <2>3. r = job[j].ref
    BY <1>1 DEF AttemptFits, At
  <2> QED BY <2>1, <2>2, <2>3 DEF Follows
<1>3. ~ Begin(w) /\ (Work(w) \/ Fault(w))
  BY <1>1 DEF Begin, At, Work, Fault
<1>4. \/ closed' = closed /\ tasks[j][r] = "done" /\ Records(w, "IMPORTING", 0, "none", "report")
      \/ closed' = closed /\ Records(w, "PROCESSING", 0, "none", "report")
      \/ closed' = closed /\ tasks[j][r] = "dead" /\ Records(w, "FAILED", 0, "confirmed", "report")
      \/ closed' = closed /\ tasks[j][r] = "done" /\ Records(w, "SUCCEEDED", 0, "none", "report")
      \/ job' = job /\ Goes(w, "report")
  BY DEF Poll, Import, PollFails
<1>5. \E pc \in {"capped", "lost", "report"} : Goes(w, pc)
  BY <1>4, RecordsFacts
<1>6. CASE job' = job
  <2>1. RowFits(j)'
    BY <1>1, <1>6, RowRests
  <2> QED BY <1>1, <1>2, <1>3, <1>5, <1>6, <2>1, VideoEnds
<1>7. CASE job' # job
  <2>1. /\ job'[j].ref = job[j].ref /\ job'[j].updated_at > job[j].updated_at /\ closed' = closed
        /\ \/ job'[j].status = "IMPORTING" /\ job'[j].code = "none" /\ tasks[j][r] = "done"
           \/ job'[j].status = "PROCESSING" /\ job'[j].code = "none" /\ job[j].status # "IMPORTING"
           \/ job'[j].status = "FAILED" /\ job'[j].code = "confirmed" /\ tasks[j][r] = "dead"
           \/ job'[j].status = "SUCCEEDED" /\ job'[j].code = "none" /\ tasks[j][r] = "done"
    <3>1. CASE closed' = closed /\ tasks[j][r] = "done" /\ Records(w, "IMPORTING", 0, "none", "report")
      BY <1>7, <3>1, RecordsFacts
    <3>2. CASE closed' = closed /\ Records(w, "PROCESSING", 0, "none", "report")
      BY <1>7, <3>2, RecordsFacts DEF Allowed
    <3>3. CASE closed' = closed /\ tasks[j][r] = "dead" /\ Records(w, "FAILED", 0, "confirmed", "report")
      BY <1>7, <3>3, RecordsFacts
    <3>4. CASE closed' = closed /\ tasks[j][r] = "done" /\ Records(w, "SUCCEEDED", 0, "none", "report")
      BY <1>7, <3>4, RecordsFacts
    <3> QED BY <1>4, <1>7, <3>1, <3>2, <3>3, <3>4
  <2>2. r # 0 /\ r \in DOMAIN tasks[j] /\ tasks[j][r] \in {"running", "done", "dead"}
    BY <1>1, <1>2 DEF RowFits, Following
  <2>3. RowFits(j)'
    BY <1>1, <1>2, <2>1, <2>2 DEF RowFits
  <2> QED BY <1>1, <1>2, <1>3, <1>5, <2>1, <2>3, VideoEnds
<1> QED BY <1>6, <1>7

\* An attempt that answers, fails or dies leaves the row and the operation.
LEMMA EndingKeeps ==
  ASSUME WorkTyped, WorkTyped', VideosFit, NEW w \in Workers, Busy(w),
         Report(w) \/ Stumble(w) \/ Crash(w)
  PROVE  VideosFit'
<1> PICK j : j = act[w].job
  OBVIOUS
<1>1. job' = job /\ tasks' = tasks /\ closed' = closed /\ ~ At(w, "idle")
  BY DEF Report, Stumble, Crash, At
<1>2. \/ act' = [act EXCEPT ![w] = Resting]
      \/ \E pc \in {"capped", "lost", "report"} : Goes(w, pc)
  BY DEF Report, Stumble, Crash, Raises, Returns
<1>3. ~ Begin(w) /\ (Work(w) \/ Fault(w))
  BY <1>1 DEF Begin, Work, Fault
<1>4. RowFits(j)'
  BY <1>1, RowRests DEF VideosFit, Busy
<1> QED BY <1>1, <1>2, <1>3, <1>4, VideoEnds

\* An attempt begins with the row there is; a video that is to be started is
\* heard from the beginning.
LEMMA BeginKeeps ==
  ASSUME WorkTyped, WorkTyped', VideosFit, NEW w \in Workers, Begin(w)
  PROVE  VideosFit'
<1> PICK j : j = Order[flow.at]
  OBVIOUS
<1>1. job' = job /\ tasks' = tasks /\ closed' = closed /\ At(w, "idle")
  BY DEF Begin
<1>2. ~ Busy(w)
  BY <1>1 DEF Busy
<1>3. \/ act' = act
      \/ act' = [act EXCEPT ![w] = [pc |-> "prepare", job |-> j, seen |-> job[j],
                                    ref |-> 0, live |-> TRUE]]
  BY DEF Begin
<1>4. \/ ~ Busy(w)'
      \/ /\ act'[w].pc = "prepare" /\ act'[w].job = j /\ act'[w].seen = job[j] /\ act'[w].live
  BY <1>2, <1>3 DEF WorkTyped, Busy, At
<1>5. HeardIsAlone' /\ \A x \in Workers \ {w} : act'[x] = act[x]
  BY HeardStep DEF VideosFit, Work
<1>6. RowsMove(w) /\ OpsMove(w) /\ TasksMove(w)
  BY <1>1 DEF RowsMove, OpsMove, TasksMove
<1>7. ~ Owns(w)'
  BY <1>4 DEF Owns
<1>8. AttemptMoves(w)
  BY <1>1, <1>2, <1>4, <1>5, <1>7 DEF AttemptMoves
<1>9. AttemptFits(w)'
  <2>1. CASE ~ Busy(w)'
    BY <2>1, RestFits
  <2>2. CASE /\ act'[w].pc = "prepare" /\ act'[w].job = j /\ act'[w].seen = job[j] /\ act'[w].live
    <3>1. Starts(w)' => job'[j].status \notin Following
      BY <1>1, <2>2 DEF Starts, Following
    <3>2. Follows(w)' => job'[j] = act'[w].seen
      BY <1>1, <2>2
    <3> QED BY <1>7, <2>2, <3>1, <3>2 DEF AttemptFits, At
  <2> QED BY <1>4, <2>1, <2>2
<1>10. \A i \in Videos : RowFits(i)'
  BY <1>1, RowRests DEF VideosFit
<1> QED BY <1>5, <1>6, <1>8, <1>9, <1>10, AttemptStep

\* Temporal gives up on an attempt that is lost or slow: an attempt to start a
\* video is neither slow (Patient) nor given up before it is over.
LEMMA GivingUpKeeps ==
  ASSUME WorkTyped, WorkTyped', VideosFit, Patient, NEW w \in Workers, GiveUpOn(w)
  PROVE  VideosFit'
<1>1. job' = job /\ tasks' = tasks /\ closed' = closed
  BY DEF GiveUpOn
<1>2. /\ act'[w].pc = act[w].pc /\ act'[w].job = act[w].job /\ act'[w].seen = act[w].seen
      /\ act'[w].ref = act[w].ref
      /\ act'[w].live = act[w].live \/ act[w].seen.status # "READY" \/ act[w].job \in Images
  BY DEF GiveUpOn, WorkTyped, Attempts
<1>3. HeardIsAlone' /\ \A x \in Workers \ {w} : act'[x] = act[x]
  BY HeardStep DEF VideosFit
<1>4. RowsMove(w) /\ OpsMove(w) /\ TasksMove(w)
  BY <1>1 DEF RowsMove, OpsMove, TasksMove
<1>5. /\ (Busy(w)' <=> Busy(w)) /\ (Starts(w)' <=> Starts(w)) /\ (Follows(w)' <=> Follows(w))
      /\ (Owns(w)' <=> Owns(w)) /\ OpOf(w)' = OpOf(w) /\ \A pc : At(w, pc)' <=> At(w, pc)
  BY <1>2 DEF Busy, Starts, Follows, Owns, OpOf, At
<1>6. AttemptMoves(w)
  BY <1>2, <1>3, <1>5 DEF AttemptMoves
<1>7. Starts(w) => act'[w].live
  BY <1>2 DEF VideosFit, AttemptFits, Starts, Busy, Videos
<1>8. AttemptFits(w)'
  BY <1>1, <1>2, <1>5, <1>7 DEF VideosFit, AttemptFits
<1>9. \A i \in Videos : RowFits(i)'
  BY <1>1, RowRests DEF VideosFit
<1> QED BY <1>3, <1>4, <1>6, <1>8, <1>9, AttemptStep

\* Whatever a worker does.
LEMMA WorkKeeps ==
  ASSUME WorkTyped, WorkTyped', VideosFit, Patient, NEW w \in Workers,
         Work(w) \/ Fault(w) \/ GiveUpOn(w)
  PROVE  VideosFit'
<1>1. CASE Begin(w)
  BY <1>1, BeginKeeps
<1>2. CASE GiveUpOn(w)
  BY <1>2, GivingUpKeeps
<1>3. CASE ~ Begin(w) /\ ~ Busy(w) /\ (Work(w) \/ Fault(w))
  BY <1>3, ImageWork
<1>4. CASE Busy(w) /\ (Work(w) \/ Fault(w)) /\ ~ Begin(w)
  BY <1>4, PrepareKeeps, DenialsKeep, InvokeKeeps, ExecuteKeeps, StartKeeps, AnswerKeeps,
     PollKeeps, EndingKeeps DEF Work, Fault
<1> QED BY <1>1, <1>2, <1>3, <1>4

-----------------------------------------------------------------------------
(* The provider, the outbox and the operators.                             *)

\* What nobody at a video has a hand in: the attempts and operations stay, and
\* rows that change are not followed, before or after.
LEMMA ElsewhereKeeps ==
  ASSUME WorkTyped, WorkTyped', VideosFit, act' = act, closed' = closed, HeardIsAlone',
         \A j \in Videos :
           /\ RowFits(j)'
           /\ \/ job'[j] = job[j]
              \/ /\ job'[j].updated_at > job[j].updated_at
                 /\ job[j].status \notin Following /\ job'[j].status \notin Following
           /\ \A i \in DOMAIN tasks[j] : /\ i \in DOMAIN tasks'[j]
                                         /\ tasks[j][i] = "sent" => tasks'[j][i] = "sent"
  PROVE  VideosFit'
<1>1. \A w \in Workers :
        /\ (Busy(w)' <=> Busy(w)) /\ (Starts(w)' <=> Starts(w)) /\ (Follows(w)' <=> Follows(w))
        /\ (Owns(w)' <=> Owns(w)) /\ OpOf(w)' = OpOf(w) /\ \A pc : At(w, pc)' <=> At(w, pc)
  BY DEF Busy, Starts, Follows, Owns, OpOf, At
<1>2. ASSUME NEW w \in Workers PROVE ReadsRows(w)'
  <2>1. CASE ~ Busy(w)
    BY <1>1, <2>1 DEF ReadsRows
  <2>2. CASE Busy(w)
    <3> PICK j : j = act[w].job
      OBVIOUS
    <3>1. /\ j \in Videos /\ act[w].seen.updated_at \in Nat /\ job[j].updated_at \in Nat
          /\ job'[j].updated_at \in Nat
      BY <2>2 DEF Busy, Videos, WorkTyped, Attempts, JobRows
    <3>2. /\ act[w].seen.updated_at <= job[j].updated_at
          /\ act[w].seen.updated_at = job[j].updated_at => act[w].seen = job[j]
          /\ \A x \in Workers : Busy(x) /\ OpOf(x) = OpOf(w) => act[x].seen = act[w].seen
      BY <2>2 DEF VideosFit, ReadsRows
    <3>3. /\ act[w].seen.updated_at <= job'[j].updated_at
          /\ act[w].seen.updated_at = job'[j].updated_at => act[w].seen = job'[j]
      BY <3>1, <3>2
    <3> QED BY <1>1, <3>2, <3>3 DEF ReadsRows
  <2> QED BY <2>1, <2>2
<1>3. ASSUME NEW w \in Workers PROVE AttemptFits(w)'
  <2>1. CASE ~ Busy(w)
    BY <1>1, <2>1, RestFits
  <2>2. CASE Busy(w)
    <3> PICK j : j = act[w].job
      OBVIOUS
    <3>1. AttemptFits(w) /\ j \in Videos
      BY <2>2 DEF Busy, VideosFit
    <3>2. Follows(w) /\ job[j] = act[w].seen => job'[j] = job[j]
      BY <3>1 DEF Follows
    <3>3. job[j].status \notin Following => job'[j].status \notin Following
      BY <3>1
    <3>4. (At(w, "poll") \/ At(w, "import")) => Follows(w) /\ Owns(w)
      BY <2>2, <3>1 DEF AttemptFits, Follows, Following, Owns, At
    <3>5. At(w, "answer") => act[w].ref \in DOMAIN tasks'[j] /\ tasks'[j][act[w].ref] = "sent"
      BY <2>2, <3>1 DEF AttemptFits
    <3> QED BY <1>1, <3>1, <3>2, <3>3, <3>4, <3>5 DEF AttemptFits
  <2> QED BY <2>1, <2>2
<1>4. OwnersAreAlone'
  BY <1>1 DEF VideosFit, OwnersAreAlone
<1> QED BY <1>2, <1>3, <1>4 DEF VideosFit

\* What a recovery makes of a row: READY or an unknown outcome without a
\* reference, of one that had none or whose task is confirmed dead.
LEMMA RowsMoved ==
  ASSUME WorkTyped, NEW o, Commits(o), NEW j \in Jobs, Rows(o)[j] # job[j]
  PROVE  /\ Rows(o)[j].status \in {"READY", "OUTCOME_UNKNOWN"} /\ Rows(o)[j].ref = 0
         /\ Rows(o)[j].code # "confirmed" /\ Rows(o)[j].updated_at > job[j].updated_at
         /\ job[j].status \notin Following
         /\ job[j].ref = 0 \/ job[j].code = "confirmed"
<1>1. job[j] \in JobRows /\ job[j].updated_at \in Nat /\ Admits(o)
  BY DEF WorkTyped, JobRows, Commits
<1>2. \/ o.kind = "recover_stranded" /\ j \in o.jobs /\ Rows(o)[j] = Recovered(j)
      \/ o.kind = "abandon_unknown" /\ j \in o.jobs /\ Rows(o)[j] = Abandoned(j)
      \/ o.kind = "retry_failed" /\ j \in o.jobs /\ Rows(o)[j] = RetriedRow(j)
      \/ o.kind = "retry_capped" /\ job[j].status # "SUCCEEDED" /\ Rows(o)[j] = Requeued(j)
  BY DEF Rows
<1>3. CASE o.kind = "recover_stranded" /\ j \in o.jobs /\ Rows(o)[j] = Recovered(j)
  <2>1. job[j].status = "STARTING" /\ job[j].ref = 0
    BY <1>1, <1>3 DEF Admits, MayRecover, Stranded
  <2>2. /\ Recovered(j).status = "OUTCOME_UNKNOWN" /\ Recovered(j).ref = job[j].ref
        /\ Recovered(j).code = "stranded" /\ Recovered(j).updated_at = job[j].updated_at + 1
    BY <1>1 DEF Recovered, JobRows
  <2> QED BY <1>1, <1>3, <2>1, <2>2 DEF Following
<1>4. CASE o.kind = "abandon_unknown" /\ j \in o.jobs /\ Rows(o)[j] = Abandoned(j)
  <2>1. job[j].status = "OUTCOME_UNKNOWN" /\ job[j].ref = 0
    BY <1>1, <1>4 DEF Admits, MayAbandon, Ambiguous
  <2>2. /\ Abandoned(j).status = "READY" /\ Abandoned(j).ref = job[j].ref
        /\ Abandoned(j).code = "risk_accepted" /\ Abandoned(j).updated_at = job[j].updated_at + 1
    BY <1>1 DEF Abandoned, JobRows
  <2> QED BY <1>1, <1>4, <2>1, <2>2 DEF Following
<1>5. CASE o.kind = "retry_failed" /\ j \in o.jobs /\ Rows(o)[j] = RetriedRow(j)
  <2>1. job[j].status = "FAILED" /\ job[j].code = "confirmed"
    BY <1>1, <1>5 DEF Admits, MayRetryFailed, Failed
  <2>2. /\ RetriedRow(j).status = "READY" /\ RetriedRow(j).ref = 0
        /\ RetriedRow(j).code = "failure_retry" /\ RetriedRow(j).updated_at = job[j].updated_at + 1
    BY <1>1 DEF RetriedRow, JobRows
  <2> QED BY <1>1, <1>5, <2>1, <2>2 DEF Following
<1>6. CASE o.kind = "retry_capped" /\ job[j].status # "SUCCEEDED" /\ Rows(o)[j] = Requeued(j)
  <2>1. job[j].status \in {"READY", "BLOCKED_SPEND_CAP"} /\ job[j].ref = 0
    BY <1>1, <1>6 DEF Admits, MayRetryCapped, Unspent
  <2>2. /\ Requeued(j).status = "READY" /\ Requeued(j).ref = job[j].ref
        /\ Requeued(j).code = "cap_retry" /\ Requeued(j).updated_at = job[j].updated_at + 1
    BY <1>1 DEF Requeued, JobRows
  <2> QED BY <1>1, <1>6, <2>1, <2>2 DEF Following
<1> QED BY <1>2, <1>3, <1>4, <1>5, <1>6

\* A provider that finishes a video, a deadline, a run that is asked for.
LEMMA ProviderKeeps ==
  ASSUME WorkTyped, WorkTyped', VideosFit, Provider
  PROVE  VideosFit'
<1> PICK k \in Jobs : \E n \in DOMAIN tasks[k], state \in {"done", "dead"} : TaskEnds(k, n, state)
  BY DEF Provider
<1> PICK n \in DOMAIN tasks[k], state \in {"done", "dead"} : TaskEnds(k, n, state)
  OBVIOUS
<1>1. /\ job' = job /\ act' = act /\ closed' = closed /\ flow' = flow
      /\ tasks[k][n] = "running" /\ tasks' = [tasks EXCEPT ![k] = [tasks[k] EXCEPT ![n] = state]]
  BY DEF TaskEnds
<1>2. HeardIsAlone'
  BY <1>1 DEF VideosFit, HeardIsAlone
<1>3. ASSUME NEW j \in Videos, NEW i \in DOMAIN tasks[j]
      PROVE  /\ i \in DOMAIN tasks'[j]
             /\ \/ tasks'[j][i] = tasks[j][i]
                \/ tasks[j][i] = "running" /\ tasks'[j][i] \in {"done", "dead"}
  <2>1. j \in Jobs /\ tasks[j] \in Seq(TaskStates) /\ tasks \in [Jobs -> Seq(TaskStates)]
    BY DEF Videos, WorkTyped
  <2>2. CASE j # k
    BY <1>1, <2>1, <2>2
  <2>3. CASE j = k
    <3>1. tasks'[j] = [tasks[j] EXCEPT ![n] = state]
      BY <1>1, <2>1, <2>3
    <3> QED BY <1>1, <2>1, <2>3, <3>1
  <2> QED BY <2>2, <2>3
<1>4. \A j \in Videos : RowFits(j)'
  BY <1>1, <1>3, RowStays DEF VideosFit
<1> QED BY <1>1, <1>2, <1>3, <1>4, ElsewhereKeeps

LEMMA FlowKeeps ==
  ASSUME WorkTyped, WorkTyped', VideosFit, DeadlinePasses \/ \E r \in requests : Deliver(r)
  PROVE  VideosFit'
<1>1. job' = job /\ tasks' = tasks /\ act' = act /\ closed' = closed
  BY DEF DeadlinePasses, Deliver
<1>2. HeardIsAlone'
  <2>1. CASE DeadlinePasses
    <3>1. flow'.state = flow.state /\ flow'.worker = flow.worker
      BY <2>1 DEF DeadlinePasses, WorkTyped, Flows
    <3> QED BY <1>1, <3>1 DEF VideosFit, HeardIsAlone
  <2>2. CASE \E r \in requests : Deliver(r)
    <3>1. flow' = flow \/ flow.state # "running"
      BY <2>2 DEF Deliver
    <3> QED BY <1>1, <3>1 DEF VideosFit, HeardIsAlone
  <2> QED BY <2>1, <2>2
<1>3. \A j \in Videos : RowFits(j)'
  BY <1>1, RowRests DEF VideosFit
<1> QED BY <1>1, <1>2, <1>3, ElsewhereKeeps

\* An operator's order, carried out or not, and what leaves this plan alone.
LEMMA OfficeKeeps ==
  ASSUME WorkTyped, WorkTyped', VideosFit, Office \/ UNCHANGED vars
  PROVE  VideosFit'
<1>1. tasks' = tasks /\ act' = act /\ closed' = closed /\ flow' = flow
  BY DEF Office, Observe, Carry, OthersCommit, RaiseCap, vars
<1>2. job' = job \/ \E o : Commits(o) /\ job' = Rows(o)
  BY DEF Office, Observe, Carry, OthersCommit, RaiseCap, vars
<1>3. HeardIsAlone'
  BY <1>1 DEF VideosFit, HeardIsAlone
<1>4. ASSUME NEW j \in Videos
      PROVE  /\ RowFits(j)'
             /\ \/ job'[j] = job[j]
                \/ /\ job'[j].updated_at > job[j].updated_at
                   /\ job[j].status \notin Following /\ job'[j].status \notin Following
  <2>1. CASE job'[j] = job[j]
    BY <1>1, <2>1, RowRests DEF VideosFit
  <2>2. CASE job'[j] # job[j]
    <3>1. PICK o : Commits(o) /\ job' = Rows(o)
      BY <1>2, <2>2
    <3>2. /\ job'[j].status \in {"READY", "OUTCOME_UNKNOWN"} /\ job'[j].ref = 0
          /\ job'[j].code # "confirmed" /\ job'[j].updated_at > job[j].updated_at
          /\ job[j].status \notin Following
      BY <2>2, <3>1, RowsMoved DEF Videos
    <3> QED BY <3>2 DEF RowFits, Following
  <2> QED BY <2>1, <2>2
<1> QED BY <1>1, <1>3, <1>4, ElsewhereKeeps

\* Every step, when attempts to start a video do not outlive their time-out.
LEMMA VideosKeepFitting ==
  ASSUME Patient, TypeOK, VideosFit, [Next]_vars
  PROVE  VideosFit'
<1>1. WorkTyped
  BY TypeParts
<1>2. WorkTyped'
  <2>1. TypeOK'
    BY TypeStep
  <2> QED BY <2>1, TypeParts, PTL
<1>3. CASE \E w \in Workers : Work(w) \/ Fault(w) \/ GiveUpOn(w)
  BY <1>1, <1>2, <1>3, WorkKeeps
<1>4. CASE Provider
  BY <1>1, <1>2, <1>4, ProviderKeeps
<1>5. CASE DeadlinePasses \/ \E r \in requests : Deliver(r)
  BY <1>1, <1>2, <1>5, FlowKeeps
<1>6. CASE Office \/ UNCHANGED vars
  BY <1>1, <1>2, <1>6, OfficeKeeps
<1> QED BY <1>3, <1>4, <1>5, <1>6 DEF Next

\* At first no video has a task and nobody is at work.
LEMMA VideosFitAtFirst == Init => VideosFit
<1> SUFFICES ASSUME Init PROVE VideosFit
  OBVIOUS
<1>1. \A w \in Workers : act[w] = Resting
  BY DEF Init
<1>2. \A w \in Workers : ~ Busy(w) /\ ~ Owns(w) /\ ~ Starts(w) /\ ~ Follows(w) /\ ~ act[w].live
  BY <1>1 DEF Busy, Owns, Starts, Follows, At, Resting
<1>3. \A j \in Videos : RowFits(j)
  BY DEF Init, Videos, FreshRow, RowFits
<1> QED BY <1>2, <1>3 DEF VideosFit, HeardIsAlone, ReadsRows, AttemptFits, OwnersAreAlone

\* A row that says how a video ended says what its provider knows
\* (VideoStatusToolExecutor, VideoImportToolExecutor), however attempts, runs,
\* recoveries and late workers interleave, while no attempt to start a video
\* outlives its time-out.
THEOREM OutcomesStayTrue == ASSUME Patient PROVE Spec => []OutcomesAreTrue
<1>1. Init => VideosFit
  BY VideosFitAtFirst
<1>2. TypeOK /\ VideosFit /\ [Next]_vars => VideosFit'
  BY VideosKeepFitting
<1>3. VideosFit => OutcomesAreTrue
  BY DEF VideosFit, RowFits, OutcomesAreTrue, Videos
<1> QED BY <1>1, <1>2, <1>3, MediaTypeCorrect, PTL DEF Spec

-----------------------------------------------------------------------------
(* The references.                                                         *)

\* An image is answered at once: there is no task to refer to.
ImagesReferToNothing == \A j \in Images : job[j].ref = 0

\* A worker gives a reference to a video that it has just started.
LEMMA ReferencesOfWork ==
  ASSUME WorkTyped, NEW w \in Workers, Work(w) \/ Fault(w) \/ GiveUpOn(w), NEW j \in Jobs,
         job'[j].ref # job[j].ref
  PROVE  j \notin Images /\ j = act[w].job /\ At(w, "answer") /\ Allowed(job[j].status, "PROCESSING")
<1>1. ASSUME NEW to, NEW code, NEW next, Records(w, to, 0, code, next) PROVE FALSE
  BY <1>1, RecordsFacts
<1>2. \/ job' = job
      \/ CapDenied(w) \/ ConvergeLostStart(w)
      \/ Accepted(w) /\ act[w].job \notin Images
  BY <1>1 DEF Work, Fault, Begin, Prepare, Invoke, Execute, Start, Create, Accepted, Refused,
     AnswerLost, StoreImage, Poll, Import, Report, PollFails, Stumble, Crash, GiveUpOn
<1>3. job[j] \in JobRows /\ job \in [Jobs -> JobRows] /\ act[w].job \in Jobs
  BY DEF WorkTyped, Attempts
<1>4. ASSUME CapDenied(w) PROVE FALSE
  <2>1. job' = [job EXCEPT ![act[w].job] = [job[act[w].job] EXCEPT !.status = "BLOCKED_SPEND_CAP",
                  !.code = "cap_reached", !.identity = "worker", !.updated_at = @ + 1]]
    BY <1>4 DEF CapDenied, Write
  <2>2. j = act[w].job
    BY <1>3, <2>1
  <2>3. job'[j] = [job[j] EXCEPT !.status = "BLOCKED_SPEND_CAP", !.code = "cap_reached",
                                 !.identity = "worker", !.updated_at = @ + 1]
    BY <1>3, <2>1, <2>2
  <2>4. job'[j].ref = job[j].ref
    BY <1>3, <2>3 DEF JobRows
  <2> QED BY <2>4
<1>5. ASSUME ConvergeLostStart(w) PROVE FALSE
  <2>1. job' = [job EXCEPT ![act[w].job] = Changed(act[w].job, "OUTCOME_UNKNOWN", 0, "none")]
    BY <1>5 DEF ConvergeLostStart, Write
  <2>2. j = act[w].job
    BY <1>3, <2>1
  <2>3. job'[j] = Changed(j, "OUTCOME_UNKNOWN", 0, "none")
    BY <1>3, <2>1, <2>2
  <2>4. job'[j].ref = job[j].ref
    BY <1>3, <2>3 DEF Changed, JobRows
  <2> QED BY <2>4
<1>6. CASE Accepted(w) /\ act[w].job \notin Images
  <2>1. Records(w, "PROCESSING", act[w].ref, "none", "report") /\ At(w, "answer")
    BY <1>6 DEF Accepted
  <2> QED BY <1>6, <2>1, RecordsFacts
<1> QED BY <1>2, <1>4, <1>5, <1>6

\* The office takes references away from confirmed failures only.
LEMMA ReferencesOfOthers ==
  ASSUME WorkTyped, NEW j \in Jobs, job'[j].ref # job[j].ref,
         \/ Provider \/ DeadlinePasses \/ Office \/ UNCHANGED vars
         \/ \E r \in requests : Deliver(r)
  PROVE  job'[j].ref = 0 /\ job[j].code = "confirmed"
<1>1. job' = job \/ \E o : Commits(o) /\ job' = Rows(o)
  BY DEF Provider, TaskEnds, DeadlinePasses, Deliver, Office, Observe, Carry, OthersCommit,
     RaiseCap, vars
<1>2. PICK o : Commits(o) /\ job' = Rows(o)
  BY <1>1
<1> QED BY <1>2, RowsMoved

\* No step replaces the reference of a task that may still be charged.
LEMMA ReferencesStay ==
  ASSUME TypeOK, VideosFit, ImagesReferToNothing, [Next]_vars,
         NEW j \in Jobs, job'[j].ref # job[j].ref
  PROVE  j \notin Images /\ (job[j].ref # 0 => tasks[j][job[j].ref] = "dead")
<1>1. WorkTyped
  BY TypeParts
<1>2. CASE \E w \in Workers : Work(w) \/ Fault(w) \/ GiveUpOn(w)
  <2> PICK w \in Workers : Work(w) \/ Fault(w) \/ GiveUpOn(w)
    BY <1>2
  <2>1. j \notin Images /\ j = act[w].job /\ At(w, "answer") /\ Allowed(job[j].status, "PROCESSING")
    BY <1>1, ReferencesOfWork
  <2>2. j \in Videos /\ Busy(w) /\ AttemptFits(w) /\ RowFits(j)
    BY <2>1 DEF Busy, At, Videos, VideosFit
  <2>3. Starts(w)
    BY <2>1, <2>2 DEF AttemptFits, Starts, At
  <2>4. job[j].status \notin Following
    BY <2>1, <2>2, <2>3 DEF AttemptFits, At
  <2>5. job[j].ref = 0
    BY <2>1, <2>2, <2>4 DEF Allowed, Following, RowFits
  <2> QED BY <2>1, <2>5
<1>3. CASE \/ Provider \/ DeadlinePasses \/ Office \/ UNCHANGED vars
           \/ \E r \in requests : Deliver(r)
  <2>1. job'[j].ref = 0 /\ job[j].code = "confirmed"
    BY <1>1, <1>3, ReferencesOfOthers
  <2>2. j \notin Images
    BY <2>1 DEF ImagesReferToNothing
  <2> QED BY <2>1, <2>2 DEF VideosFit, RowFits, Videos
<1> QED BY <1>2, <1>3 DEF Next

\* The reference of a task that may still be charged is never forgotten or
\* replaced (_transition, retry_confirmed_failed_media_jobs), while no attempt
\* to start a video outlives its time-out.
THEOREM TasksAreNeverForgotten == ASSUME Patient PROVE Spec => TasksStayKnown
<1>1. Init => VideosFit /\ ImagesReferToNothing
  BY VideosFitAtFirst, MediaAssumption DEF MediaAssumption, Init, FreshRow, ImagesReferToNothing
<1>2. TypeOK /\ VideosFit /\ [Next]_vars => VideosFit'
  BY VideosKeepFitting
<1>3. TypeOK /\ VideosFit /\ ImagesReferToNothing /\ [Next]_vars => ImagesReferToNothing'
  BY ReferencesStay, MediaAssumption DEF MediaAssumption, ImagesReferToNothing
<1>4. TypeOK /\ VideosFit /\ ImagesReferToNothing /\ [Next]_vars
        => [\A j \in Jobs : job[j].ref # 0 /\ job'[j].ref # job[j].ref
                              => tasks[j][job[j].ref] = "dead"]_vars
  BY ReferencesStay
<1> QED BY <1>1, <1>2, <1>3, <1>4, MediaTypeCorrect, PTL DEF Spec, TasksStayKnown

-----------------------------------------------------------------------------
(* Sums over the jobs of a plan.  MapThenSumSet folds over the subsets of  *)
(* a set; it counts the units of its summands, and what holds of sums      *)
(* holds of these.                                                         *)

Units(f, S) == {u \in S \X Nat : u[2] \in 1..f[u[1]]}

\* The function that MapThenSumSet chooses.
IsFold(g, f, S) ==
  g = [s \in SUBSET S |-> IF s = {} THEN 0 ELSE LET x == CHOOSE x \in s : TRUE IN f[x] + g[s \ {x}]]

\* The subsets of a finite set, from the empty one on.
LEMMA SubsetsFromNone ==
  ASSUME NEW S, IsFiniteSet(S), NEW Good \in SUBSET SUBSET S, {} \in Good,
         \A T \in SUBSET S : (\A x \in T : T \ {x} \in Good) => T \in Good
  PROVE  Good = SUBSET S
<1>1. IsWellFoundedOn(StrictSubsetOrdering(S), FiniteSubsetsOf(S))
  BY FS_StrictSubsetOrderingWellFounded
<1>2. FiniteSubsetsOf(S) = SUBSET S
  BY FS_Subset DEF FiniteSubsetsOf
<1>3. SUFFICES ASSUME (SUBSET S) \ Good # {} PROVE FALSE
  OBVIOUS
<1> DEFINE Bad == (SUBSET S) \ Good
<1>4. Bad # {} /\ Bad \subseteq FiniteSubsetsOf(S)
  BY <1>2, <1>3
<1>5. PICK T \in Bad : \A U \in Bad : <<U, T>> \notin StrictSubsetOrdering(S)
  <2> HIDE DEF Bad
  <2> QED BY <1>1, <1>4, WFMin
<1>6. PICK x \in T : T \ {x} \notin Good
  OBVIOUS
<1>7. T \ {x} \in Bad
  BY <1>6
<1>8. <<T \ {x}, T>> \in StrictSubsetOrdering(S)
  BY <1>6 DEF StrictSubsetOrdering
<1> QED BY <1>5, <1>7, <1>8

\* Taking one summand away takes its units away.
LEMMA UnitsWithout ==
  ASSUME NEW S, IsFiniteSet(S), NEW f \in [S -> Nat], NEW T \in SUBSET S, NEW x \in T,
         IsFiniteSet(Units(f, T \ {x}))
  PROVE  /\ IsFiniteSet(Units(f, T))
         /\ Cardinality(Units(f, T)) = f[x] + Cardinality(Units(f, T \ {x}))
<1> DEFINE Own == {x} \X (1..f[x])
<1>0. x \in S /\ f[x] \in Nat
  OBVIOUS
<1>1. IsFiniteSet(1..f[x]) /\ Cardinality(1..f[x]) = f[x]
  BY <1>0, FS_Interval
<1>2. IsFiniteSet({x}) /\ Cardinality({x}) = 1
  BY FS_Singleton
<1>3. IsFiniteSet(Own) /\ Cardinality(Own) = f[x]
  <2>1. IsFiniteSet(Own) /\ Cardinality(Own) = Cardinality({x}) * Cardinality(1..f[x])
    BY <1>1, <1>2, FS_Product
  <2> QED BY <1>0, <1>1, <1>2, <2>1
<1>4. Units(f, T) = Units(f, T \ {x}) \cup Own /\ Units(f, T \ {x}) \cap Own = {}
  BY <1>0 DEF Units
<1>5. Cardinality({}) = 0
  BY FS_EmptySet
<1>6. Cardinality(Units(f, T \ {x})) \in Nat /\ Cardinality(Own) = f[x]
  BY <1>0, <1>3, FS_CardinalityType
<1> HIDE DEF Own
<1> DEFINE others == Units(f, T \ {x})
<1>7. /\ IsFiniteSet(others \cup Own)
      /\ Cardinality(others \cup Own) = Cardinality(others) + Cardinality(Own) - Cardinality(others \cap Own)
  <2> HIDE DEF others
  <2>1. IsFiniteSet(others)
    BY DEF others
  <2> QED BY <1>3, <2>1, FS_Union
<1>8. /\ IsFiniteSet(Units(f, T))
      /\ Cardinality(Units(f, T)) = Cardinality(Units(f, T \ {x})) + Cardinality(Own) - 0
  BY <1>4, <1>5, <1>7
<1> QED BY <1>0, <1>6, <1>8

\* Units of finitely many summands are finitely many.
LEMMA UnitsAreFinite ==
  ASSUME NEW S, IsFiniteSet(S), NEW f \in [S -> Nat]
  PROVE  \A T \in SUBSET S : IsFiniteSet(Units(f, T)) /\ Cardinality(Units(f, T)) \in Nat
<1> DEFINE Good == {T \in SUBSET S : IsFiniteSet(Units(f, T))}
<1>1. {} \in Good
  <2>1. Units(f, {}) = {}
    BY DEF Units
  <2> QED BY <2>1, FS_EmptySet
<1>2. ASSUME NEW T \in SUBSET S, \A x \in T : T \ {x} \in Good PROVE T \in Good
  <2>1. CASE T = {}
    BY <1>1, <2>1
  <2>2. CASE T # {}
    <3>1. PICK x \in T : TRUE
      BY <2>2
    <3> QED BY <1>2, <3>1, UnitsWithout
  <2> QED BY <2>1, <2>2
<1>3. Good = SUBSET S
  <2> HIDE DEF Good
  <2>1. Good \in SUBSET SUBSET S
    BY DEF Good
  <2> QED BY <1>1, <1>2, <2>1, SubsetsFromNone
<1> QED BY <1>3, FS_CardinalityType

\* There is one that folds, and it counts units.
LEMMA CountsFold ==
  ASSUME NEW S, IsFiniteSet(S), NEW f \in [S -> Nat]
  PROVE  IsFold([s \in SUBSET S |-> Cardinality(Units(f, s))], f, S)
<1> DEFINE g == [s \in SUBSET S |-> Cardinality(Units(f, s))]
           step(s) == IF s = {} THEN 0 ELSE LET x == CHOOSE x \in s : TRUE IN f[x] + g[s \ {x}]
<1>1. ASSUME NEW s \in SUBSET S PROVE Cardinality(Units(f, s)) = step(s)
  <2>1. CASE s = {}
    <3>1. Units(f, s) = {}
      BY <2>1 DEF Units
    <3> QED BY <2>1, <3>1, FS_EmptySet
  <2>2. CASE s # {}
    <3>1. PICK x : x = CHOOSE y \in s : TRUE
      OBVIOUS
    <3>2. x \in s
      BY <2>2, <3>1
    <3>3. Cardinality(Units(f, s)) = f[x] + Cardinality(Units(f, s \ {x}))
      BY <3>2, UnitsAreFinite, UnitsWithout
    <3>4. step(s) = f[x] + g[s \ {x}]
      BY <2>2, <3>1
    <3> QED BY <3>2, <3>3, <3>4
  <2> QED BY <2>1, <2>2
<1>2. g = [s \in SUBSET S |-> step(s)]
  <2> HIDE DEF step
  <2> QED BY <1>1
<1> QED BY <1>2 DEF IsFold

\* Whatever folds counts the units.
LEMMA FoldsCount ==
  ASSUME NEW S, IsFiniteSet(S), NEW f \in [S -> Nat], NEW g, IsFold(g, f, S)
  PROVE  g[S] = Cardinality(Units(f, S))
<1> DEFINE Good == {T \in SUBSET S : g[T] = Cardinality(Units(f, T))}
<1>1. \A s \in SUBSET S :
        g[s] = IF s = {} THEN 0 ELSE LET x == CHOOSE x \in s : TRUE IN f[x] + g[s \ {x}]
  BY DEF IsFold
<1>2. {} \in Good
  <2>1. Units(f, {}) = {}
    BY DEF Units
  <2> QED BY <1>1, <2>1, FS_EmptySet
<1>3. ASSUME NEW T \in SUBSET S, \A x \in T : T \ {x} \in Good PROVE T \in Good
  <2>1. CASE T = {}
    BY <1>2, <2>1
  <2>2. CASE T # {}
    <3>1. PICK x : x = CHOOSE y \in T : TRUE
      OBVIOUS
    <3>2. x \in T
      BY <2>2, <3>1
    <3>3. g[T] = f[x] + g[T \ {x}]
      BY <1>1, <2>2, <3>1
    <3>4. Cardinality(Units(f, T)) = f[x] + Cardinality(Units(f, T \ {x}))
      BY <3>2, UnitsAreFinite, UnitsWithout
    <3> QED BY <1>3, <3>2, <3>3, <3>4
  <2> QED BY <2>1, <2>2
<1>4. Good = SUBSET S
  <2> HIDE DEF Good
  <2>1. Good \in SUBSET SUBSET S
    BY DEF Good
  <2> QED BY <1>2, <1>3, <2>1, SubsetsFromNone
<1> QED BY <1>4

Sum(f) == Cardinality(Units(f, Jobs))

\* A plan is a sequence of jobs.
LEMMA JobsAreFinite == IsFiniteSet(Jobs)
<1>1. Order \in Seq(Jobs) /\ Jobs = {Order[i] : i \in DOMAIN Order} /\ DOMAIN Order = 1..Len(Order) /\ Len(Order) \in Nat
  BY MediaAssumption DEF Jobs
<1>2. Order \in Surjection(1..Len(Order), Jobs)
  BY <1>1 DEF Surjection
<1>3. IsFiniteSet(1..Len(Order))
  BY <1>1, FS_Interval
<1> QED BY <1>2, <1>3, FS_Surjection

\* What the model sums, in units.
LEMMA CountedSum ==
  ASSUME \A j \in Jobs : Counted(j) \in Nat
  PROVE  MapThenSumSet(Counted, Jobs) = Sum([j \in Jobs |-> Counted(j)])
<1> DEFINE f == [j \in Jobs |-> Counted(j)]
           IsSum(g) == g = [s \in SUBSET Jobs |->
                   IF s = {} THEN 0 ELSE LET x == CHOOSE x \in s : TRUE IN Counted(x) + g[s \ {x}]]
<1>1. MapThenSumSet(Counted, Jobs) = (CHOOSE g : IsSum(g))[Jobs]
  BY DEF MapThenSumSet, MapThenFoldSet
<1>2. ASSUME NEW g PROVE IsSum(g) <=> IsFold(g, f, Jobs)
  <2>1. \A s \in SUBSET Jobs :
          (IF s = {} THEN 0 ELSE LET x == CHOOSE x \in s : TRUE IN Counted(x) + g[s \ {x}])
          = (IF s = {} THEN 0 ELSE LET x == CHOOSE x \in s : TRUE IN f[x] + g[s \ {x}])
    OBVIOUS
  <2> QED BY <2>1 DEF IsFold
<1>3. f \in [Jobs -> Nat]
  OBVIOUS
<1> HIDE DEF f, IsSum
<1>4. IsSum([s \in SUBSET Jobs |-> Cardinality(Units(f, s))])
  BY <1>2, <1>3, JobsAreFinite, CountsFold
<1>5. IsFold(CHOOSE g : IsSum(g), f, Jobs)
  BY <1>2, <1>4
<1> QED BY <1>1, <1>3, <1>5, JobsAreFinite, FoldsCount DEF Sum, f

\* The same of the exposures.
LEMMA ExposureSum ==
  ASSUME \A j \in Jobs : Exposure(j) \in Nat
  PROVE  MapThenSumSet(Exposure, Jobs) = Sum([j \in Jobs |-> Exposure(j)])
<1> DEFINE f == [j \in Jobs |-> Exposure(j)]
           IsSum(g) == g = [s \in SUBSET Jobs |->
                   IF s = {} THEN 0 ELSE LET x == CHOOSE x \in s : TRUE IN Exposure(x) + g[s \ {x}]]
<1>1. MapThenSumSet(Exposure, Jobs) = (CHOOSE g : IsSum(g))[Jobs]
  BY DEF MapThenSumSet, MapThenFoldSet
<1>2. ASSUME NEW g PROVE IsSum(g) <=> IsFold(g, f, Jobs)
  <2>1. \A s \in SUBSET Jobs :
          (IF s = {} THEN 0 ELSE LET x == CHOOSE x \in s : TRUE IN Exposure(x) + g[s \ {x}])
          = (IF s = {} THEN 0 ELSE LET x == CHOOSE x \in s : TRUE IN f[x] + g[s \ {x}])
    OBVIOUS
  <2> QED BY <2>1 DEF IsFold
<1>3. f \in [Jobs -> Nat]
  OBVIOUS
<1> HIDE DEF f, IsSum
<1>4. IsSum([s \in SUBSET Jobs |-> Cardinality(Units(f, s))])
  BY <1>2, <1>3, JobsAreFinite, CountsFold
<1>5. IsFold(CHOOSE g : IsSum(g), f, Jobs)
  BY <1>2, <1>4
<1> QED BY <1>1, <1>3, <1>5, JobsAreFinite, FoldsCount DEF Sum, f

\* The same of what is reserved for some jobs.
LEMMA ReservationSum ==
  ASSUME NEW T \in SUBSET Jobs
  PROVE  Reservation(T) = Cardinality(Units(Reserved, T))
<1> DEFINE f == [j \in T |-> Reserved[j]]
           IsSum(g) == g = [s \in SUBSET T |->
                   IF s = {} THEN 0 ELSE LET x == CHOOSE x \in s : TRUE IN Reserved[x] + g[s \ {x}]]
<1>1. Reservation(T) = (CHOOSE g : IsSum(g))[T]
  BY DEF Reservation, MapThenSumSet, MapThenFoldSet
<1>2. ASSUME NEW g PROVE IsSum(g) <=> IsFold(g, f, T)
  <2>1. \A s \in SUBSET T :
          (IF s = {} THEN 0 ELSE LET x == CHOOSE x \in s : TRUE IN Reserved[x] + g[s \ {x}])
          = (IF s = {} THEN 0 ELSE LET x == CHOOSE x \in s : TRUE IN f[x] + g[s \ {x}])
    OBVIOUS
  <2> QED BY <2>1 DEF IsFold
<1>3. f \in [T -> Nat] /\ IsFiniteSet(T)
  BY MediaAssumption, JobsAreFinite, FS_Subset
<1>6. Units(f, T) = Units(Reserved, T)
  BY DEF Units
<1> HIDE DEF f, IsSum
<1>4. IsSum([s \in SUBSET T |-> Cardinality(Units(f, s))])
  BY <1>2, <1>3, CountsFold
<1>5. IsFold(CHOOSE g : IsSum(g), f, T)
  BY <1>2, <1>4
<1> QED BY <1>1, <1>3, <1>5, <1>6, FoldsCount

\* A sum of natural numbers is one.
LEMMA SumIsNat ==
  ASSUME NEW f \in [Jobs -> Nat]
  PROVE  Sum(f) \in Nat
BY JobsAreFinite, UnitsAreFinite DEF Sum

\* Larger summands make a larger sum.
LEMMA SumIsMonotone ==
  ASSUME NEW f \in [Jobs -> Nat], NEW g \in [Jobs -> Nat], \A j \in Jobs : f[j] <= g[j]
  PROVE  Sum(f) <= Sum(g)
<1>1. Units(f, Jobs) \in SUBSET Units(g, Jobs)
  BY DEF Units
<1>2. IsFiniteSet(Units(g, Jobs))
  BY JobsAreFinite, UnitsAreFinite
<1> QED BY <1>1, <1>2, FS_Subset DEF Sum

\* Some summands grow by what is reserved for them.
LEMMA SumGrows ==
  ASSUME NEW f \in [Jobs -> Nat], NEW g \in [Jobs -> Nat], NEW T \in SUBSET Jobs,
         \A j \in T : g[j] <= f[j] + Reserved[j], \A j \in Jobs \ T : g[j] <= f[j]
  PROVE  Sum(g) <= Sum(f) + Reservation(T)
<1> DEFINE New == {u \in Units(g, Jobs) : u[2] > f[u[1]]}
           shift == [u \in New |-> <<u[1], u[2] - f[u[1]]>>]
<1>1. Reserved \in [Jobs -> Nat]
  BY MediaAssumption
<1>2. /\ IsFiniteSet(Units(f, Jobs)) /\ Cardinality(Units(f, Jobs)) \in Nat
      /\ IsFiniteSet(Units(g, Jobs)) /\ Cardinality(Units(g, Jobs)) \in Nat
      /\ IsFiniteSet(Units(Reserved, T)) /\ Cardinality(Units(Reserved, T)) \in Nat
  BY <1>1, JobsAreFinite, UnitsAreFinite
<1>3. shift \in Injection(New, Units(Reserved, T))
  <2>1. ASSUME NEW u \in New PROVE shift[u] \in Units(Reserved, T)
    <3>1. /\ u = <<u[1], u[2]>> /\ u[1] \in Jobs /\ u[2] \in Nat /\ u[2] <= g[u[1]] /\ u[2] > f[u[1]]
      BY DEF Units
    <3>2. u[1] \in T /\ f[u[1]] \in Nat /\ Reserved[u[1]] \in Nat /\ g[u[1]] \in Nat
          /\ g[u[1]] <= f[u[1]] + Reserved[u[1]]
      BY <1>1, <3>1
    <3>3. u[2] - f[u[1]] \in 1..Reserved[u[1]] /\ u[2] - f[u[1]] \in Nat
      BY <3>1, <3>2
    <3> QED BY <3>2, <3>3 DEF Units
  <2>2. ASSUME NEW u \in New, NEW v \in New, shift[u] = shift[v] PROVE u = v
    <3>1. /\ u = <<u[1], u[2]>> /\ u[1] \in Jobs /\ u[2] \in Nat
          /\ v = <<v[1], v[2]>> /\ v[1] \in Jobs /\ v[2] \in Nat
      BY DEF Units
    <3>2. u[1] = v[1] /\ u[2] - f[u[1]] = v[2] - f[v[1]]
      BY <2>2
    <3>3. u[2] = v[2]
      BY <3>1, <3>2
    <3> QED BY <3>1, <3>2, <3>3
  <2> HIDE DEF New
  <2> QED BY <2>1, <2>2 DEF Injection, IsInjective
<1>4. IsFiniteSet(New) /\ Cardinality(New) <= Cardinality(Units(Reserved, T))
  <2> HIDE DEF New, shift
  <2> QED BY <1>2, <1>3, FS_Injection
<1>5. Units(g, Jobs) \in SUBSET (Units(f, Jobs) \cup New)
  BY DEF Units
<1> HIDE DEF New, shift
<1>6. /\ IsFiniteSet(Units(f, Jobs) \cup New)
      /\ Cardinality(Units(f, Jobs) \cup New)
           = Cardinality(Units(f, Jobs)) + Cardinality(New) - Cardinality(Units(f, Jobs) \cap New)
  BY <1>2, <1>4, FS_Union
<1>7. /\ Cardinality(New) \in Nat /\ Cardinality(Units(f, Jobs) \cap New) \in Nat
      /\ Cardinality(Units(g, Jobs)) <= Cardinality(Units(f, Jobs) \cup New)
      /\ Cardinality(Units(f, Jobs) \cup New) \in Nat
  <2>1. IsFiniteSet(Units(f, Jobs) \cap New)
    <3>1. Units(f, Jobs) \cap New \in SUBSET New
      OBVIOUS
    <3> QED BY <1>4, <3>1, FS_Subset
  <2> QED BY <1>4, <1>5, <1>6, <2>1, FS_Subset, FS_CardinalityType
<1> QED BY <1>2, <1>4, <1>6, <1>7, ReservationSum DEF Sum

-----------------------------------------------------------------------------
(* What the providers may charge a job for.  The load of a job is the      *)
(* tasks that they may charge beside the one its row follows, and the      *)
(* creates that are about to leave.                                        *)

Creators(j) == {w \in Workers : act[w].job = j /\ At(w, "create")}
Extra(j) ==
  IF j \in Videos /\ job[j].status \in Following \cup {"SUCCEEDED"}
  THEN LiveTasks(j) \ {job[j].ref} ELSE LiveTasks(j)
Load(j) == Cardinality(Extra(j)) + Cardinality(Creators(j))

\* Each attempt that waits for an answer waits for a task of its own.
AnswersFit ==
  /\ \A w \in Workers : At(w, "answer") =>
       /\ act[w].ref \in DOMAIN tasks[act[w].job]
       /\ tasks[act[w].job][act[w].ref] = "sent"
  /\ \A w, x \in Workers :
       At(w, "answer") /\ At(x, "answer") /\ act[w].job = act[x].job /\ act[w].ref = act[x].ref => w = x

\* An image is started, never polled.
ImagesFit ==
  \A w \in Workers : act[w].job \in Images =>
    /\ act[w].pc \notin {"poll", "import"}
    /\ act[w].pc \in {"invoke", "execute"} => act[w].seen.status = "READY"

CreatorsFit == \A j \in Jobs : IsFiniteSet(Creators(j))

Handled == AnswersFit /\ ImagesFit /\ CreatorsFit

Lighter(j, n) == Load(j)' <= Load(j) + n
Kept(j) == job'[j].unknown = job[j].unknown /\ accepted'[j] = accepted[j]

\* What a step makes of a job: the status it leads to, what the row says may have been spent
\* in vain, the duplicates accepted, and the load.
Proceeds(j) ==
  LET from == job[j].status
      to == job'[j].status
  IN
  \/ Kept(j) /\ to = from /\ Lighter(j, 0)
  \/ Kept(j) /\ from = "READY" /\ to = "STARTING" /\ Lighter(j, 1)
  \/ /\ from = "STARTING" /\ to = "OUTCOME_UNKNOWN" /\ Lighter(j, 0)
     /\ job'[j].unknown = job[j].unknown + Reserved[j] /\ accepted'[j] = accepted[j]
  \/ Kept(j) /\ from = "STARTING" /\ to = "FAILED" /\ Lighter(j, -1)
  \/ Kept(j) /\ j \in Videos /\ from \in Following /\ to = "FAILED" /\ Lighter(j, 0)
  \/ /\ Kept(j) /\ j \in Images /\ from \in Following \cup {"STARTING"} /\ to = "FAILED"
     /\ Lighter(j, -1) \/ (Delivered(j)' /\ Lighter(j, 0))
  \/ /\ Kept(j) /\ from = "STARTING" /\ to \in Following
     /\ Lighter(j, -1) \/ (j \in Images /\ Lighter(j, 0))
  \/ Kept(j) /\ from \in Following /\ to \in Following \cup {"SUCCEEDED"} /\ Lighter(j, 0)
  \/ Kept(j) /\ {from, to} \subseteq {"READY", "BLOCKED_SPEND_CAP"} /\ Lighter(j, 0)

\* What only an operator makes of it: a job that may be tried once more.
Restored(j) ==
  /\ job'[j].status = "READY" /\ job'[j].unknown = job[j].unknown /\ Lighter(j, 0)
  /\ \/ job[j].status = "OUTCOME_UNKNOWN" /\ accepted'[j] = accepted[j] + 1
     \/ job[j].status = "FAILED" /\ j \in Videos /\ accepted'[j] = accepted[j]

Moves(j) == Proceeds(j) \/ Restored(j)

\* How many elements a set has that lost one, gained one, or did neither.
LEMMA ElementsMove ==
  ASSUME NEW A, IsFiniteSet(A), NEW B
  PROVE  /\ B \subseteq A => IsFiniteSet(B) /\ Cardinality(B) <= Cardinality(A)
         /\ \A x : B \subseteq A \cup {x} => IsFiniteSet(B) /\ Cardinality(B) <= Cardinality(A) + 1
         /\ \A x \in A : B \subseteq A \ {x} => IsFiniteSet(B) /\ Cardinality(B) <= Cardinality(A) - 1
         /\ Cardinality(A) \in Nat
         /\ IsFiniteSet(B) => Cardinality(B) \in Nat
<1>1. Cardinality(A) \in Nat /\ (IsFiniteSet(B) => Cardinality(B) \in Nat)
  BY FS_CardinalityType
<1>2. B \subseteq A => IsFiniteSet(B) /\ Cardinality(B) <= Cardinality(A)
  BY FS_Subset
<1>3. ASSUME NEW x, B \subseteq A \cup {x}
      PROVE  IsFiniteSet(B) /\ Cardinality(B) <= Cardinality(A) + 1
  <2>0. /\ IsFiniteSet(A \cup {x})
        /\ Cardinality(A \cup {x}) = IF x \in A THEN Cardinality(A) ELSE Cardinality(A) + 1
    BY FS_AddElement
  <2>1. /\ IsFiniteSet(A \cup {x}) /\ Cardinality(A \cup {x}) <= Cardinality(A) + 1
        /\ Cardinality(A \cup {x}) \in Nat
    BY <1>1, <2>0
  <2>2. IsFiniteSet(B) /\ Cardinality(B) <= Cardinality(A \cup {x})
    BY <1>3, <2>1, FS_Subset
  <2> QED BY <1>1, <2>1, <2>2
<1>4. ASSUME NEW x \in A, B \subseteq A \ {x}
      PROVE  IsFiniteSet(B) /\ Cardinality(B) <= Cardinality(A) - 1
  <2>1. IsFiniteSet(A \ {x}) /\ Cardinality(A \ {x}) = Cardinality(A) - 1
    BY FS_RemoveElement
  <2>2. IsFiniteSet(B) /\ Cardinality(B) <= Cardinality(A \ {x})
    BY <1>4, <2>1, FS_Subset
  <2> QED BY <2>1, <2>2
<1> QED BY <1>1, <1>2, <1>3, <1>4

\* A job has finitely many tasks.
LEMMA ExtraIsFinite ==
  ASSUME WorkTyped, NEW j \in Jobs
  PROVE  IsFiniteSet(Extra(j)) /\ IsFiniteSet(LiveTasks(j)) /\ Extra(j) \subseteq LiveTasks(j)
<1>1. tasks[j] \in Seq(TaskStates) /\ Len(tasks[j]) \in Nat /\ DOMAIN tasks[j] = 1..Len(tasks[j])
  BY DEF WorkTyped
<1>2. IsFiniteSet(1..Len(tasks[j]))
  BY <1>1, FS_Interval
<1>3. LiveTasks(j) \subseteq 1..Len(tasks[j])
  BY <1>1 DEF LiveTasks
<1>4. IsFiniteSet(LiveTasks(j))
  BY <1>2, <1>3, FS_Subset
<1>5. Extra(j) \subseteq LiveTasks(j)
  BY DEF Extra
<1> QED BY <1>4, <1>5, FS_Subset

\* How the load follows from its two parts.
LEMMA LoadMoves ==
  ASSUME WorkTyped, NEW j \in Jobs, IsFiniteSet(Creators(j))
  PROVE  /\ Extra(j)' \subseteq Extra(j) /\ Creators(j)' \subseteq Creators(j)
              => IsFiniteSet(Creators(j)') /\ Lighter(j, 0)
         /\ \A w : Extra(j)' \subseteq Extra(j) /\ Creators(j)' \subseteq Creators(j) \cup {w}
              => IsFiniteSet(Creators(j)') /\ Lighter(j, 1)
         /\ \A i \in Extra(j) : Extra(j)' \subseteq Extra(j) \ {i} /\ Creators(j)' \subseteq Creators(j)
              => IsFiniteSet(Creators(j)') /\ Lighter(j, -1)
         /\ \A i : \A w \in Creators(j) :
              Extra(j)' \subseteq Extra(j) \cup {i} /\ Creators(j)' \subseteq Creators(j) \ {w}
              => IsFiniteSet(Creators(j)') /\ Lighter(j, 0)
<1> DEFINE E == Extra(j)  F == Extra(j)'  C == Creators(j)  D == Creators(j)'
<1>1. IsFiniteSet(E) /\ IsFiniteSet(C) /\ Load(j) = Cardinality(E) + Cardinality(C)
  BY ExtraIsFinite DEF Load
<1>2. Load(j)' = Cardinality(F) + Cardinality(D)
  BY DEF Load
<1> HIDE DEF E, F, C, D
<1>3. /\ F \subseteq E => IsFiniteSet(F) /\ Cardinality(F) <= Cardinality(E)
      /\ \A x : F \subseteq E \cup {x} => IsFiniteSet(F) /\ Cardinality(F) <= Cardinality(E) + 1
      /\ \A x \in E : F \subseteq E \ {x} => IsFiniteSet(F) /\ Cardinality(F) <= Cardinality(E) - 1
      /\ Cardinality(E) \in Nat
      /\ IsFiniteSet(F) => Cardinality(F) \in Nat
  BY <1>1, ElementsMove
<1>4. /\ D \subseteq C => IsFiniteSet(D) /\ Cardinality(D) <= Cardinality(C)
      /\ \A x : D \subseteq C \cup {x} => IsFiniteSet(D) /\ Cardinality(D) <= Cardinality(C) + 1
      /\ \A x \in C : D \subseteq C \ {x} => IsFiniteSet(D) /\ Cardinality(D) <= Cardinality(C) - 1
      /\ Cardinality(C) \in Nat
      /\ IsFiniteSet(D) => Cardinality(D) \in Nat
  BY <1>1, ElementsMove
<1>5. \A n \in {0, 1, -1} : Cardinality(F) + Cardinality(D) <= Cardinality(E) + Cardinality(C) + n => Lighter(j, n)
  BY <1>1, <1>2 DEF Lighter
<1>6. F \subseteq E /\ D \subseteq C => IsFiniteSet(D) /\ Lighter(j, 0)
  BY <1>3, <1>4, <1>5
<1>7. \A w : F \subseteq E /\ D \subseteq C \cup {w} => IsFiniteSet(D) /\ Lighter(j, 1)
  BY <1>3, <1>4, <1>5
<1>8. \A i \in E : F \subseteq E \ {i} /\ D \subseteq C => IsFiniteSet(D) /\ Lighter(j, -1)
  BY <1>3, <1>4, <1>5
<1>9. \A i : \A w \in C : F \subseteq E \cup {i} /\ D \subseteq C \ {w} => IsFiniteSet(D) /\ Lighter(j, 0)
  BY <1>3, <1>4, <1>5
<1> QED BY <1>6, <1>7, <1>8, <1>9 DEF E, F, C, D

\* Who is about to create a task, when one attempt moves.
LEMMA CreatorsMove ==
  ASSUME NEW w \in Workers, \A x \in Workers \ {w} : act'[x] = act[x], NEW j \in Jobs
  PROVE  /\ Creators(j)' \subseteq Creators(j) \cup {w}
         /\ act'[w].pc # "create" => Creators(j)' \subseteq Creators(j) \ {w}
         /\ act'[w].pc = "create" /\ (act'[w].job # j \/ w \in Creators(j)) => Creators(j)' \subseteq Creators(j)
BY DEF Creators, At

\* A job whose row stays as it is, and no task is added.
LEMMA JobStays ==
  ASSUME WorkTyped, CreatorsFit, NEW j \in Jobs, job'[j] = job[j], accepted'[j] = accepted[j],
         LiveTasks(j)' \subseteq LiveTasks(j), Creators(j)' \subseteq Creators(j)
  PROVE  Proceeds(j) /\ IsFiniteSet(Creators(j)')
<1>1. Extra(j)' \subseteq Extra(j)
  BY DEF Extra
<1>2. IsFiniteSet(Creators(j)') /\ Lighter(j, 0)
  BY <1>1, LoadMoves DEF CreatorsFit
<1> QED BY <1>2 DEF Proceeds, Kept

\* A job whose row and tasks stay as they are, while one attempt moves.
LEMMA JobRests ==
  ASSUME WorkTyped, CreatorsFit, NEW w \in Workers, \A x \in Workers \ {w} : act'[x] = act[x],
         NEW j \in Jobs, job'[j] = job[j], tasks'[j] = tasks[j], accepted' = accepted,
         act'[w].pc = "create" => act'[w].job # j \/ w \in Creators(j)
  PROVE  Proceeds(j) /\ IsFiniteSet(Creators(j)')
<1>1. LiveTasks(j)' = LiveTasks(j)
  BY DEF LiveTasks
<1>2. Creators(j)' \subseteq Creators(j)
  BY CreatorsMove
<1> QED BY <1>1, <1>2, JobStays

\* What a recorded transition does to the costs that are unknown.
LEMMA RecordsCost ==
  ASSUME WorkTyped, NEW w \in Workers, NEW to, NEW ref, NEW code, NEW next,
         Records(w, to, ref, code, next)
  PROVE  LET j == act[w].job IN
         \/ job' = job
         \/ /\ Allowed(job[j].status, to) /\ job'[j].status = to
            /\ job'[j].unknown = IF to = "OUTCOME_UNKNOWN" THEN job[j].unknown + Reserved[j]
                                                           ELSE job[j].unknown
<1> DEFINE j == act[w].job
<1>1. j \in Jobs /\ job[j] \in JobRows /\ job \in [Jobs -> JobRows]
  BY DEF WorkTyped, Attempts
<1>2. CASE Allowed(job[j].status, to)
  <2>1. job' = [job EXCEPT ![j] = Changed(j, to, ref, code)]
    BY <1>2 DEF Records, Write
  <2>2. job'[j] = Changed(j, to, ref, code)
    BY <1>1, <2>1
  <2>3. /\ Changed(j, to, ref, code).status = to
        /\ Changed(j, to, ref, code).unknown = IF to = "OUTCOME_UNKNOWN" THEN job[j].unknown + Reserved[j]
                                                                         ELSE job[j].unknown
    BY <1>1 DEF Changed, JobRows
  <2> QED BY <1>2, <2>2, <2>3
<1>3. CASE ~ Allowed(job[j].status, to)
  BY <1>3 DEF Records
<1> QED BY <1>2, <1>3

\* What became of the task an attempt waits for, and of the others of the job.
LEMMA BecomeLives ==
  ASSUME WorkTyped, NEW w \in Workers, NEW state, Become(w, state),
         NEW j \in Jobs, j = act[w].job, NEW r \in DOMAIN tasks[j], r = act[w].ref
  PROVE  /\ tasks[j][r] = "sent" => LiveTasks(j)' \subseteq LiveTasks(j)
         /\ state = "refused" => LiveTasks(j)' \subseteq LiveTasks(j) \ {r}
         /\ state = "done" => Delivered(j)'
<1>1. tasks \in [Jobs -> Seq(TaskStates)]
  BY DEF WorkTyped
<1>2. tasks'[j] = [tasks[j] EXCEPT ![r] = state]
  BY <1>1 DEF Become
<1>3. DOMAIN tasks'[j] = DOMAIN tasks[j]
  BY <1>2
<1>4. \A i \in DOMAIN tasks[j] : tasks'[j][i] = IF i = r THEN state ELSE tasks[j][i]
  BY <1>1, <1>2
<1>5. state = "done" => Delivered(j)'
  BY <1>3, <1>4 DEF Delivered
<1> QED BY <1>3, <1>4, <1>5 DEF LiveTasks

\* The steps that leave rows and tasks as they are.
Rests(w) ==
  \/ Begin(w) \/ Prepare(w) \/ Invoke(w) \/ Execute(w) \/ Report(w)
  \/ PollFails(w) \/ Stumble(w) \/ Crash(w) \/ GiveUpOn(w)

\* No such step changes a row or a task, or puts an attempt before a create.
LEMMA RestMoves ==
  ASSUME WorkTyped, CreatorsFit, NEW w \in Workers, Rests(w),
         \A x \in Workers \ {w} : act'[x] = act[x], NEW j \in Jobs
  PROVE  Proceeds(j) /\ IsFiniteSet(Creators(j)')
<1>1. job' = job /\ tasks' = tasks /\ accepted' = accepted
  BY DEF Rests, Begin, Prepare, Invoke, Execute, Report, PollFails, Stumble, Crash, GiveUpOn, office
<1>2. ASSUME NEW pc, pc # "create", Goes(w, pc) PROVE act'[w].pc # "create"
  BY <1>2, GoesFacts
<1>3. ASSUME act' = [act EXCEPT ![w] = Resting] PROVE act'[w].pc # "create"
  BY <1>3, EndFacts
<1>4. ASSUME NEW n, Returns(w, n) \/ Raises(w, n) PROVE act'[w].pc # "create"
  BY <1>3, <1>4 DEF Returns, Raises
<1>5. act \in [Workers -> Attempts] /\ \A x \in Attempts : x.pc \in Pcs
  BY DEF WorkTyped, Attempts
<1>6. act'[w].pc # "create" \/ (act'[w].job = act[w].job /\ At(w, "create"))
  <2>1. CASE Begin(w)
    BY <1>5, <2>1 DEF Begin, At
  <2>2. CASE Prepare(w)
    BY <1>2, <1>4, <2>2 DEF Prepare
  <2>3. CASE Invoke(w)
    BY <1>2, <2>3 DEF Invoke
  <2>4. CASE Execute(w)
    <3>1. \/ Goes(w, "report")
          \/ \E pc \in {"start", "poll", "import"} : \E ref :
               act' = [act EXCEPT ![w].pc = pc, ![w].ref = ref]
      BY <2>4 DEF Execute
    <3>2. ASSUME NEW pc \in {"start", "poll", "import"}, NEW ref,
                 act' = [act EXCEPT ![w].pc = pc, ![w].ref = ref]
          PROVE  act'[w].pc = pc
      BY <1>5, <3>2 DEF Attempts
    <3> QED BY <1>2, <3>1, <3>2
  <2>5. CASE Report(w)
    BY <1>4, <2>5 DEF Report
  <2>6. CASE PollFails(w)
    BY <1>2, <2>6 DEF PollFails
  <2>7. CASE Stumble(w)
    BY <1>2, <1>4, <2>7 DEF Stumble
  <2>8. CASE Crash(w)
    BY <1>3, <2>8 DEF Crash
  <2>9. CASE GiveUpOn(w)
    <3>1. act' = act \/ act' = [act EXCEPT ![w].live = FALSE]
      BY <2>9 DEF GiveUpOn
    <3>2. act'[w].pc = act[w].pc /\ act'[w].job = act[w].job
      BY <1>5, <3>1 DEF Attempts
    <3> QED BY <3>2 DEF At
  <2> QED BY <2>1, <2>2, <2>3, <2>4, <2>5, <2>6, <2>7, <2>8, <2>9 DEF Rests
<1>7. act'[w].pc = "create" => act'[w].job # j \/ w \in Creators(j)
  BY <1>6 DEF Creators
<1> QED BY <1>1, <1>7, JobRests

\* A denial, a lost start.
LEMMA DenialMoves ==
  ASSUME WorkTyped, CreatorsFit, NEW w \in Workers, CapDenied(w) \/ ConvergeLostStart(w),
         \A x \in Workers \ {w} : act'[x] = act[x], act'[w].pc = "idle",
         NEW j \in Jobs, j = act[w].job
  PROVE  Proceeds(j) /\ IsFiniteSet(Creators(j)')
<1>1. tasks' = tasks /\ accepted' = accepted /\ job[j] \in JobRows /\ job \in [Jobs -> JobRows]
  BY DEF CapDenied, ConvergeLostStart, office, WorkTyped
<1>2. CASE job'[j] = job[j]
  BY <1>1, <1>2, JobRests
<1>3. LiveTasks(j)' = LiveTasks(j) /\ Creators(j)' \subseteq Creators(j)
  BY <1>1, CreatorsMove DEF LiveTasks
<1>4. CASE job'[j] # job[j] /\ CapDenied(w)
  <2>1. /\ job[j].status = "READY"
        /\ job' = [job EXCEPT ![j] = [job[j] EXCEPT !.status = "BLOCKED_SPEND_CAP",
                     !.code = "cap_reached", !.identity = "worker", !.updated_at = @ + 1]]
    BY <1>4 DEF CapDenied, Write
  <2>2. job'[j].status = "BLOCKED_SPEND_CAP" /\ job'[j].unknown = job[j].unknown
    BY <1>1, <2>1 DEF JobRows
  <2>3. Extra(j)' \subseteq Extra(j)
    BY <1>3, <2>1, <2>2 DEF Extra, Following
  <2>4. IsFiniteSet(Creators(j)') /\ Lighter(j, 0)
    BY <1>3, <2>3, LoadMoves DEF CreatorsFit
  <2> QED BY <1>1, <2>1, <2>2, <2>4 DEF Proceeds, Kept
<1>5. CASE job'[j] # job[j] /\ ConvergeLostStart(w)
  <2>1. /\ Allowed(job[j].status, "OUTCOME_UNKNOWN")
        /\ job' = [job EXCEPT ![j] = Changed(j, "OUTCOME_UNKNOWN", 0, "none")]
    BY <1>5 DEF ConvergeLostStart, Write
  <2>2. job[j].status = "STARTING"
    BY <2>1 DEF Allowed
  <2>3. job'[j].status = "OUTCOME_UNKNOWN" /\ job'[j].unknown = job[j].unknown + Reserved[j]
    BY <1>1, <2>1 DEF Changed, JobRows
  <2>4. Extra(j)' \subseteq Extra(j)
    BY <1>3, <2>2, <2>3 DEF Extra, Following
  <2>5. IsFiniteSet(Creators(j)') /\ Lighter(j, 0)
    BY <1>3, <2>4, LoadMoves DEF CreatorsFit
  <2> QED BY <1>1, <2>2, <2>3, <2>5 DEF Proceeds
<1> QED BY <1>2, <1>4, <1>5

\* STARTING is committed, and the request leaves.
LEMMA StartMoves ==
  ASSUME WorkTyped, CreatorsFit, NEW w \in Workers, Start(w) \/ Create(w),
         \A x \in Workers \ {w} : act'[x] = act[x], NEW j \in Jobs, j = act[w].job
  PROVE  Proceeds(j) /\ IsFiniteSet(Creators(j)')
<1>1. accepted' = accepted /\ job \in [Jobs -> JobRows] /\ tasks \in [Jobs -> Seq(TaskStates)]
  BY DEF Start, Create, office, WorkTyped
<1>2. CASE Start(w)
  <2>1. Records(w, "STARTING", 0, "none", "create") /\ tasks' = tasks
    BY <1>2 DEF Start
  <2>2. CASE job'[j] = job[j]
    <3>0. ~ (job'[j].updated_at > job[j].updated_at)
      BY <1>1, <2>2 DEF JobRows
    <3>1. Goes(w, "report")
      BY <2>1, <3>0, RecordsFacts
    <3> QED BY <1>1, <2>1, <2>2, <3>1, GoesFacts, JobRests
  <2>3. CASE job'[j] # job[j]
    <3>1. job[j].status = "READY" /\ job'[j].status = "STARTING" /\ job'[j].unknown = job[j].unknown
      BY <2>1, <2>3, RecordsCost DEF Allowed
    <3>2. Extra(j)' \subseteq Extra(j)
      BY <2>1, <3>1 DEF Extra, Following, LiveTasks
    <3>3. IsFiniteSet(Creators(j)') /\ Lighter(j, 1)
      BY <3>2, CreatorsMove, LoadMoves DEF CreatorsFit
    <3> QED BY <1>1, <3>1, <3>3 DEF Proceeds, Kept
  <2> QED BY <2>2, <2>3
<1>3. CASE Create(w)
  <2>1. /\ At(w, "create") /\ tasks' = [tasks EXCEPT ![j] = Append(@, "sent")] /\ job' = job
        /\ act' = [act EXCEPT ![w].pc = "answer", ![w].ref = Len(tasks[j]) + 1]
    BY <1>3 DEF Create
  <2>2. w \in Creators(j) /\ act'[w].pc # "create"
    BY <2>1 DEF Creators, WorkTyped, Attempts
  <2>3. LiveTasks(j)' \subseteq LiveTasks(j) \cup {Len(tasks[j]) + 1}
    <3>1. tasks'[j] = Append(tasks[j], "sent") /\ tasks[j] \in Seq(TaskStates)
      BY <1>1, <2>1
    <3>2. DOMAIN tasks'[j] = DOMAIN tasks[j] \cup {Len(tasks[j]) + 1}
          /\ \A i \in DOMAIN tasks[j] : tasks'[j][i] = tasks[j][i]
      BY <3>1
    <3> QED BY <3>2 DEF LiveTasks
  <2>4. Extra(j)' \subseteq Extra(j) \cup {Len(tasks[j]) + 1}
    BY <2>1, <2>3 DEF Extra
  <2>5. Creators(j)' \subseteq Creators(j) \ {w}
    BY <2>2, CreatorsMove
  <2>6. IsFiniteSet(Creators(j)') /\ Lighter(j, 0)
    BY <2>2, <2>4, <2>5, LoadMoves DEF CreatorsFit
  <2> QED BY <1>1, <2>1, <2>6 DEF Proceeds, Kept
<1> QED BY <1>2, <1>3

\* What an attempt hears of its task, and what it records of it.
LEMMA AnswerMoves ==
  ASSUME WorkTyped, CreatorsFit, AnswersFit, NEW w \in Workers, AttemptFits(w),
         Accepted(w) \/ Refused(w) \/ AnswerLost(w),
         \A x \in Workers \ {w} : act'[x] = act[x], NEW j \in Jobs, j = act[w].job
  PROVE  Proceeds(j) /\ IsFiniteSet(Creators(j)')
<1> PICK r : r = act[w].ref
  OBVIOUS
<1>1. /\ At(w, "answer") /\ r \in DOMAIN tasks[j] /\ tasks[j][r] = "sent" /\ accepted' = accepted
      /\ r \in LiveTasks(j) /\ DOMAIN tasks[j] \subseteq Nat \ {0} /\ job[j] \in JobRows
  <2>1. At(w, "answer") /\ accepted' = accepted
    BY DEF Accepted, Refused, AnswerLost, office
  <2>2. r \in DOMAIN tasks[j] /\ tasks[j][r] = "sent"
    BY <2>1 DEF AnswersFit
  <2>3. tasks[j] \in Seq(TaskStates) /\ job[j] \in JobRows
    BY DEF WorkTyped
  <2> QED BY <2>1, <2>2, <2>3 DEF LiveTasks
<1>2. PICK to, ref, code, next, state :
        /\ Records(w, to, ref, code, next) /\ Become(w, state)
        /\ \/ /\ Accepted(w) /\ j \in Images /\ to = "IMPORTING" /\ next = "store"
           \/ Accepted(w) /\ j \notin Images /\ to = "PROCESSING" /\ ref = r /\ next = "report"
           \/ /\ Refused(w) /\ to = "FAILED" /\ next = "report"
              /\ state = "refused" \/ (state = "done" /\ j \in Images)
           \/ AnswerLost(w) /\ to = "OUTCOME_UNKNOWN" /\ next = "report"
  BY DEF Accepted, Refused, AnswerLost
<1>3. /\ LiveTasks(j)' \subseteq LiveTasks(j)
      /\ state = "refused" => LiveTasks(j)' \subseteq LiveTasks(j) \ {r}
      /\ state = "done" => Delivered(j)'
  BY <1>1, <1>2, BecomeLives
<1>4. Creators(j)' \subseteq Creators(j)
  <2>1. act'[w].pc \in {"store", "report"}
    BY <1>2, RecordsFacts, GoesFacts
  <2> QED BY <2>1, CreatorsMove
<1>5. CASE job'[j] = job[j]
  BY <1>1, <1>3, <1>4, <1>5, JobStays
<1>6. ASSUME job'[j] # job[j]
      PROVE  /\ Allowed(job[j].status, to) /\ job'[j].status = to
             /\ job'[j].unknown = IF to = "OUTCOME_UNKNOWN" THEN job[j].unknown + Reserved[j] ELSE job[j].unknown
             /\ job'[j].ref = IF ref = 0 THEN job[j].ref ELSE ref
  <2>1. job' # job
    BY <1>6
  <2>2. /\ Allowed(job[j].status, to) /\ job'[j].status = to
        /\ job'[j].unknown = IF to = "OUTCOME_UNKNOWN" THEN job[j].unknown + Reserved[j] ELSE job[j].unknown
    BY <1>2, <2>1, RecordsCost
  <2>3. job'[j].ref = IF ref = 0 THEN job[j].ref ELSE ref
    BY <1>2, <2>1, RecordsFacts
  <2> QED BY <2>2, <2>3
<1>7. j \notin Images => job[j].status \notin Following
  BY <1>1 DEF AttemptFits, Starts, Busy, Videos, At
<1>8. /\ Extra(j)' \subseteq Extra(j) => IsFiniteSet(Creators(j)') /\ Lighter(j, 0)
      /\ r \in Extra(j) /\ Extra(j)' \subseteq Extra(j) \ {r} => IsFiniteSet(Creators(j)') /\ Lighter(j, -1)
  BY <1>4, LoadMoves DEF CreatorsFit
<1>9. CASE job'[j] # job[j] /\ j \in Images
  <2>1. Extra(j) = LiveTasks(j) /\ Extra(j)' = LiveTasks(j)'
    BY <1>9 DEF Extra, Videos
  <2>2. /\ IsFiniteSet(Creators(j)') /\ Lighter(j, 0)
        /\ state = "refused" => Lighter(j, -1)
    BY <1>1, <1>3, <1>8, <2>1
  <2>3. /\ Allowed(job[j].status, to) /\ job'[j].status = to /\ accepted'[j] = accepted[j]
        /\ job'[j].unknown = IF to = "OUTCOME_UNKNOWN" THEN job[j].unknown + Reserved[j] ELSE job[j].unknown
    BY <1>1, <1>6, <1>9
  <2>4. CASE Accepted(w) /\ to = "IMPORTING"
    <3>1. job[j].status \in {"STARTING", "PROCESSING"}
      BY <2>3, <2>4 DEF Allowed
    <3> QED BY <1>9, <2>2, <2>3, <2>4, <3>1 DEF Proceeds, Kept, Following
  <2>5. CASE to = "FAILED" /\ state \in {"refused", "done"}
    <3>1. job[j].status \in {"STARTING", "PROCESSING", "IMPORTING"}
      BY <2>3, <2>5 DEF Allowed
    <3> QED BY <1>3, <1>9, <2>2, <2>3, <2>5, <3>1 DEF Proceeds, Kept, Following
  <2>6. CASE to = "OUTCOME_UNKNOWN"
    <3>1. job[j].status = "STARTING"
      BY <2>3, <2>6 DEF Allowed
    <3> QED BY <2>2, <2>3, <2>6, <3>1 DEF Proceeds
  <2> QED BY <1>2, <1>9, <2>4, <2>5, <2>6
<1>10. CASE job'[j] # job[j] /\ j \notin Images
  <2>1. job[j].status = "STARTING" /\ j \in Videos
    BY <1>2, <1>6, <1>7, <1>10 DEF Allowed, Following, Videos
  <2>2. Extra(j) = LiveTasks(j)
    BY <2>1 DEF Extra, Following
  <2>3. /\ job'[j].status = to /\ accepted'[j] = accepted[j]
        /\ job'[j].unknown = IF to = "OUTCOME_UNKNOWN" THEN job[j].unknown + Reserved[j] ELSE job[j].unknown
    BY <1>1, <1>6, <1>10
  <2>4. CASE to = "PROCESSING" /\ ref = r
    <3>1. job'[j].ref = r
      BY <1>1, <1>6, <1>10, <2>4
    <3>2. Extra(j)' = LiveTasks(j)' \ {r}
      BY <2>1, <2>3, <2>4, <3>1 DEF Extra, Following
    <3>3. IsFiniteSet(Creators(j)') /\ Lighter(j, -1)
      BY <1>1, <1>3, <1>8, <2>2, <3>2
    <3> QED BY <2>1, <2>3, <2>4, <3>3 DEF Proceeds, Kept, Following
  <2>5. CASE to = "FAILED" /\ state = "refused"
    <3>1. Extra(j)' = LiveTasks(j)'
      BY <2>3, <2>5 DEF Extra, Following
    <3>2. IsFiniteSet(Creators(j)') /\ Lighter(j, -1)
      BY <1>1, <1>3, <1>8, <2>2, <2>5, <3>1
    <3> QED BY <2>1, <2>3, <2>5, <3>2 DEF Proceeds, Kept
  <2>6. CASE to = "OUTCOME_UNKNOWN"
    <3>1. Extra(j)' = LiveTasks(j)'
      BY <2>3, <2>6 DEF Extra, Following
    <3>2. IsFiniteSet(Creators(j)') /\ Lighter(j, 0)
      BY <1>3, <1>8, <2>2, <3>1
    <3> QED BY <2>1, <2>3, <2>6, <3>2 DEF Proceeds
  <2> QED BY <1>2, <1>10, <2>4, <2>5, <2>6
<1> QED BY <1>5, <1>9, <1>10

\* What is recorded of an image that arrived, and of a task that is followed.
LEMMA FollowMoves ==
  ASSUME WorkTyped, CreatorsFit, ImagesFit, NEW w \in Workers, AttemptFits(w),
         StoreImage(w) \/ Poll(w) \/ Import(w),
         \A x \in Workers \ {w} : act'[x] = act[x], NEW j \in Jobs, j = act[w].job
  PROVE  Proceeds(j) /\ IsFiniteSet(Creators(j)')
<1>1. tasks' = tasks /\ accepted' = accepted /\ job[j] \in JobRows
  BY DEF StoreImage, Poll, Import, office, WorkTyped
<1>2. LiveTasks(j)' = LiveTasks(j)
  BY <1>1 DEF LiveTasks
<1>3. \/ job' = job /\ Goes(w, "report")
      \/ \E to, code :
           /\ Records(w, to, 0, code, "report")
           /\ \/ At(w, "store") /\ to = "SUCCEEDED"
              \/ At(w, "poll") /\ to \in Following
              \/ At(w, "poll") /\ to = "FAILED" /\ tasks[j][act[w].ref] = "dead"
              \/ At(w, "import") /\ to = "SUCCEEDED"
  BY DEF StoreImage, Poll, Import, Following
<1>4. Creators(j)' \subseteq Creators(j)
  <2>1. act'[w].pc = "report"
    BY <1>3, RecordsFacts, GoesFacts
  <2> QED BY <2>1, CreatorsMove
<1>5. CASE job'[j] = job[j]
  BY <1>1, <1>2, <1>4, <1>5, JobStays
<1>6. CASE job'[j] # job[j]
  <2>1. PICK to, code :
           /\ Records(w, to, 0, code, "report")
           /\ \/ At(w, "store") /\ to = "SUCCEEDED"
              \/ At(w, "poll") /\ to \in Following
              \/ At(w, "poll") /\ to = "FAILED" /\ tasks[j][act[w].ref] = "dead"
              \/ At(w, "import") /\ to = "SUCCEEDED"
    BY <1>3, <1>6
  <2>2. /\ Allowed(job[j].status, to) /\ job'[j].status = to /\ to # "OUTCOME_UNKNOWN"
        /\ job'[j].unknown = job[j].unknown /\ job'[j].ref = job[j].ref /\ accepted'[j] = accepted[j]
    BY <1>1, <1>6, <2>1, RecordsCost, RecordsFacts DEF Following
  <2>3. /\ At(w, "store") => j \in Images
        /\ At(w, "poll") \/ At(w, "import") => j \in Videos /\ Busy(w)
    BY DEF AttemptFits, ImagesFit, Busy, At, Videos
  <2>4. /\ At(w, "poll") => job[j].status = "PROCESSING" /\ act[w].ref = job[j].ref
        /\ At(w, "import") => job[j].status = "IMPORTING"
    <3>1. At(w, "poll") \/ At(w, "import") => Follows(w) /\ Owns(w)
      BY <2>3 DEF AttemptFits, Follows, Following, Owns, At
    <3> QED BY <2>3, <3>1 DEF AttemptFits
  <2>5. Extra(j)' \subseteq Extra(j) => IsFiniteSet(Creators(j)') /\ Lighter(j, 0)
    BY <1>4, LoadMoves DEF CreatorsFit
  <2>6. CASE At(w, "store") /\ to = "SUCCEEDED"
    <3>1. job[j].status = "IMPORTING"
      BY <2>2, <2>6 DEF Allowed
    <3>2. Extra(j)' = Extra(j)
      BY <1>2, <2>3, <2>6 DEF Extra, Videos
    <3> QED BY <2>2, <2>5, <2>6, <3>1, <3>2 DEF Proceeds, Kept, Following
  <2>7. CASE (At(w, "poll") \/ At(w, "import")) /\ to \in Following \cup {"SUCCEEDED"}
    <3>1. job[j].status \in Following
      BY <2>4, <2>7 DEF Following
    <3>2. Extra(j)' = Extra(j)
      BY <1>2, <2>2, <2>7, <3>1 DEF Extra
    <3> QED BY <2>2, <2>5, <2>7, <3>1, <3>2 DEF Proceeds, Kept
  <2>8. CASE At(w, "poll") /\ to = "FAILED" /\ tasks[j][act[w].ref] = "dead"
    <3>1. job[j].status \in Following /\ j \in Videos
      BY <2>3, <2>4, <2>8 DEF Following
    <3>2. Extra(j) = LiveTasks(j) \ {job[j].ref} /\ Extra(j)' = LiveTasks(j)
      BY <1>2, <2>2, <2>8, <3>1 DEF Extra, Following
    <3>3. job[j].ref \notin LiveTasks(j)
      BY <2>4, <2>8 DEF LiveTasks
    <3> QED BY <2>2, <2>5, <2>8, <3>1, <3>2, <3>3 DEF Proceeds, Kept
  <2> QED BY <2>1, <2>6, <2>7, <2>8
<1> QED BY <1>5, <1>6

\* Where an attempt may be after a step of its own, and with what in its hands.
LEMMA AttemptGoes ==
  ASSUME WorkTyped, NEW w \in Workers, Work(w) \/ Fault(w) \/ GiveUpOn(w)
  PROVE  \/ act'[w].pc \in {"idle", "prepare", "capped", "lost", "report", "store", "create", "start"}
         \/ /\ At(w, "prepare") /\ act'[w].pc = "invoke" /\ CanInvoke(act[w].job, act[w].seen)
            /\ act'[w].job = act[w].job /\ act'[w].seen = act[w].seen
         \/ /\ At(w, "invoke") /\ act'[w].pc = "execute"
            /\ act'[w].job = act[w].job /\ act'[w].seen = act[w].seen
         \/ /\ At(w, "execute") /\ act'[w].pc \in {"poll", "import"} /\ act[w].seen.status # "READY"
            /\ act'[w].job = act[w].job
         \/ Create(w) /\ act'[w].pc = "answer" /\ act'[w].job = act[w].job /\ act'[w].ref = Len(tasks[act[w].job]) + 1
         \/ act'[w] = act[w] /\ tasks' = tasks
         \/ /\ tasks' = tasks /\ act'[w].pc = act[w].pc /\ act'[w].job = act[w].job
            /\ act'[w].seen = act[w].seen /\ act'[w].ref = act[w].ref
<1> DEFINE Rest == {"idle", "prepare", "capped", "lost", "report", "store", "create", "start"}
<1>1. ASSUME NEW pc \in Rest, Goes(w, pc) PROVE act'[w].pc \in Rest
  BY <1>1, GoesFacts
<1>2. ASSUME act' = [act EXCEPT ![w] = Resting] PROVE act'[w].pc \in Rest
  BY <1>2, EndFacts
<1>3. ASSUME NEW n, Returns(w, n) \/ Raises(w, n) PROVE act'[w].pc \in Rest
  BY <1>2, <1>3 DEF Returns, Raises
<1>4. ASSUME NEW to, NEW ref, NEW code, NEW next \in Rest, Records(w, to, ref, code, next)
      PROVE  act'[w].pc \in Rest
  BY <1>1, <1>4 DEF Records
<1>5. act \in [Workers -> Attempts] /\ act[w] \in Attempts
  BY DEF WorkTyped
<1>6. CASE Begin(w)
  BY <1>5, <1>6 DEF Begin
<1>7. CASE Prepare(w)
  <2>1. \/ \E n : Raises(w, n)
        \/ \E pc \in {"capped", "lost"} : Goes(w, pc)
        \/ Goes(w, "invoke") /\ CanInvoke(act[w].job, act[w].seen)
    BY <1>7 DEF Prepare
  <2>2. At(w, "prepare")
    BY <1>7 DEF Prepare
  <2> QED BY <1>1, <1>3, <2>1, <2>2, GoesFacts
<1>8. CASE Invoke(w)
  BY <1>1, <1>8, GoesFacts DEF Invoke
<1>9. CASE Execute(w)
  <2>1. \/ Goes(w, "report")
        \/ \E ref : act' = [act EXCEPT ![w].pc = "start", ![w].ref = ref]
        \/ /\ act[w].seen.status # "READY"
           /\ \E pc \in {"poll", "import"} : \E ref : act' = [act EXCEPT ![w].pc = pc, ![w].ref = ref]
    BY <1>9 DEF Execute
  <2>2. ASSUME NEW pc, NEW ref, act' = [act EXCEPT ![w].pc = pc, ![w].ref = ref]
        PROVE  act'[w].pc = pc /\ act'[w].job = act[w].job
    BY <1>5, <2>2 DEF Attempts
  <2>3. At(w, "execute")
    BY <1>9 DEF Execute
  <2> QED BY <1>1, <2>1, <2>2, <2>3
<1>10. CASE Create(w)
  BY <1>5, <1>10 DEF Create, Attempts
<1>11. CASE GiveUpOn(w)
  BY <1>5, <1>11 DEF GiveUpOn, Attempts
<1>12. CASE CapDenied(w) \/ ConvergeLostStart(w) \/ Report(w) \/ Crash(w)
  BY <1>2, <1>3, <1>12 DEF CapDenied, ConvergeLostStart, Report, Crash
<1>13. CASE Start(w) \/ Accepted(w) \/ Refused(w) \/ AnswerLost(w) \/ StoreImage(w)
  BY <1>4, <1>13 DEF Start, Accepted, Refused, AnswerLost, StoreImage
<1>14. CASE Poll(w) \/ Import(w) \/ PollFails(w) \/ Stumble(w)
  BY <1>1, <1>3, <1>4, <1>14 DEF Poll, Import, PollFails, Stumble
<1> QED BY <1>6, <1>7, <1>8, <1>9, <1>10, <1>11, <1>12, <1>13, <1>14 DEF Work, Fault

\* What a step of an attempt does to tasks.
LEMMA TasksOfWork ==
  ASSUME WorkTyped, AnswersFit, NEW w \in Workers, Work(w) \/ Fault(w) \/ GiveUpOn(w)
  PROVE  \A j \in Jobs : \A i \in DOMAIN tasks[j] :
           /\ i \in DOMAIN tasks'[j]
           /\ \/ tasks'[j][i] = tasks[j][i]
              \/ At(w, "answer") /\ ~ At(w, "create") /\ j = act[w].job /\ i = act[w].ref
<1>1. tasks \in [Jobs -> Seq(TaskStates)] /\ act[w].job \in Jobs
  BY DEF WorkTyped, Attempts
<1>2. CASE tasks' = tasks
  BY <1>2
<1>3. CASE Create(w)
  <2>1. tasks' = [tasks EXCEPT ![act[w].job] = Append(@, "sent")]
    BY <1>3 DEF Create
  <2> QED BY <1>1, <2>1
<1>4. CASE Accepted(w) \/ Refused(w) \/ AnswerLost(w)
  <2>1. At(w, "answer") /\ ~ At(w, "create") /\ \E state : Become(w, state)
    BY <1>4 DEF Accepted, Refused, AnswerLost, At
  <2>2. act[w].ref \in DOMAIN tasks[act[w].job]
    BY <2>1 DEF AnswersFit
  <2>3. PICK state : tasks' = [tasks EXCEPT ![act[w].job] = [@ EXCEPT ![act[w].ref] = state]]
    BY <2>1 DEF Become
  <2> QED BY <1>1, <2>1, <2>2, <2>3
<1>5. tasks' = tasks \/ Create(w) \/ Accepted(w) \/ Refused(w) \/ AnswerLost(w)
  BY DEF Work, Fault, Begin, Prepare, CapDenied, ConvergeLostStart, Invoke, Execute, Start, StoreImage,
     Poll, Import, Report, PollFails, Stumble, Crash, GiveUpOn
<1> QED BY <1>2, <1>3, <1>4, <1>5

\* Each attempt goes on waiting for a task of its own.
LEMMA AnswersKeepFitting ==
  ASSUME WorkTyped, AnswersFit, NEW w \in Workers, Work(w) \/ Fault(w) \/ GiveUpOn(w),
         \A x \in Workers \ {w} : act'[x] = act[x]
  PROVE  AnswersFit'
<1>1. \A j \in Jobs : \A i \in DOMAIN tasks[j] :
           /\ i \in DOMAIN tasks'[j]
           /\ \/ tasks'[j][i] = tasks[j][i]
              \/ At(w, "answer") /\ ~ At(w, "create") /\ j = act[w].job /\ i = act[w].ref
  BY TasksOfWork
<1>2. \A x \in Workers : act[x].job \in Jobs
  BY DEF WorkTyped, Attempts
<1>3. CASE act'[w].pc # "answer"
  <2>1. \A x \in Workers : At(x, "answer")' => x # w /\ At(x, "answer") /\ act'[x] = act[x]
    BY <1>3 DEF At
  <2>2. ASSUME NEW x \in Workers, At(x, "answer")'
        PROVE  act'[x].ref \in DOMAIN tasks'[act'[x].job] /\ tasks'[act'[x].job][act'[x].ref] = "sent"
    <3>1. x # w /\ At(x, "answer") /\ act'[x] = act[x]
      BY <2>1, <2>2
    <3>2. act[x].ref \in DOMAIN tasks[act[x].job] /\ tasks[act[x].job][act[x].ref] = "sent"
      BY <3>1 DEF AnswersFit
    <3>3. ~ (At(w, "answer") /\ act[x].job = act[w].job /\ act[x].ref = act[w].ref)
      BY <3>1 DEF AnswersFit
    <3> QED BY <1>1, <1>2, <3>1, <3>2, <3>3
  <2>3. \A x, y \in Workers :
          At(x, "answer")' /\ At(y, "answer")' /\ act'[x].job = act'[y].job /\ act'[x].ref = act'[y].ref => x = y
    BY <2>1 DEF AnswersFit
  <2> QED BY <2>2, <2>3 DEF AnswersFit
<1>4. CASE Create(w) /\ act'[w].pc = "answer" /\ act'[w].job = act[w].job /\ act'[w].ref = Len(tasks[act[w].job]) + 1
  <2> PICK j \in Jobs : j = act[w].job
    BY <1>2
  <2>1. tasks'[j] = Append(tasks[j], "sent") /\ tasks[j] \in Seq(TaskStates) /\ At(w, "create")
    BY <1>4 DEF Create, WorkTyped
  <2>2. /\ Len(tasks[j]) + 1 \in DOMAIN tasks'[j] /\ tasks'[j][Len(tasks[j]) + 1] = "sent"
        /\ Len(tasks[j]) + 1 \notin DOMAIN tasks[j]
    BY <2>1
  <2>3. ASSUME NEW x \in Workers, At(x, "answer")', x # w
        PROVE  /\ At(x, "answer") /\ act'[x] = act[x] /\ act[x].ref \in DOMAIN tasks[act[x].job]
               /\ act[x].ref \in DOMAIN tasks'[act[x].job] /\ tasks'[act[x].job][act[x].ref] = "sent"
    <3>1. At(x, "answer") /\ act'[x] = act[x]
      BY <2>3 DEF At
    <3>2. act[x].ref \in DOMAIN tasks[act[x].job] /\ tasks[act[x].job][act[x].ref] = "sent"
      BY <3>1 DEF AnswersFit
    <3> QED BY <1>1, <1>2, <2>1, <3>1, <3>2 DEF At
  <2>4. ASSUME NEW x \in Workers, At(x, "answer")'
        PROVE  act'[x].ref \in DOMAIN tasks'[act'[x].job] /\ tasks'[act'[x].job][act'[x].ref] = "sent"
    BY <1>4, <2>2, <2>3, <2>4
  <2>5. ASSUME NEW x \in Workers, NEW y \in Workers, At(x, "answer")', At(y, "answer")',
               act'[x].job = act'[y].job, act'[x].ref = act'[y].ref
        PROVE  x = y
    <3>1. CASE x = w \/ y = w
      BY <1>4, <2>2, <2>3, <2>5, <3>1
    <3>2. CASE x # w /\ y # w
      BY <2>3, <2>5, <3>2 DEF AnswersFit
    <3> QED BY <3>1, <3>2
  <2> QED BY <2>4, <2>5 DEF AnswersFit
<1>5. CASE tasks' = tasks /\ act'[w].pc = act[w].pc /\ act'[w].job = act[w].job /\ act'[w].ref = act[w].ref
  <2>1. \A x \in Workers : (At(x, "answer")' <=> At(x, "answer")) /\ act'[x].job = act[x].job /\ act'[x].ref = act[x].ref
    BY <1>5 DEF At
  <2> QED BY <1>5, <2>1 DEF AnswersFit
<1> QED BY <1>3, <1>4, <1>5, AttemptGoes

\* Images go on being started only.
LEMMA ImagesKeepFitting ==
  ASSUME WorkTyped, ImagesFit, NEW w \in Workers, Work(w) \/ Fault(w) \/ GiveUpOn(w),
         \A x \in Workers \ {w} : act'[x] = act[x]
  PROVE  ImagesFit'
<1> DEFINE Fits(x) ==
      act'[x].job \in Images =>
        /\ act'[x].pc \notin {"poll", "import"}
        /\ act'[x].pc \in {"invoke", "execute"} => act'[x].seen.status = "READY"
<1>1. ASSUME NEW x \in Workers, x # w PROVE Fits(x)
  BY <1>1 DEF ImagesFit
<1>2. Fits(w)
  BY AttemptGoes DEF ImagesFit, CanInvoke, At
<1> QED BY <1>1, <1>2 DEF ImagesFit

\* Every step of an attempt.
LEMMA WorkMoves ==
  ASSUME WorkTyped, VideosFit, Handled, NEW w \in Workers, Work(w) \/ Fault(w) \/ GiveUpOn(w)
  PROVE  Handled' /\ \A j \in Jobs : Proceeds(j)
<1>1. \A x \in Workers \ {w} : act'[x] = act[x]
  BY HeardStep DEF VideosFit
<1>2. CreatorsFit /\ AnswersFit /\ ImagesFit /\ AttemptFits(w)
  BY DEF Handled, VideosFit
<1>3. ASSUME NEW j \in Jobs PROVE Proceeds(j) /\ IsFiniteSet(Creators(j)')
  <2>1. CASE Rests(w)
    BY <1>1, <1>2, <2>1, RestMoves
  <2>2. CASE ~ Rests(w) /\ j = act[w].job
    <3>1. CASE CapDenied(w) \/ ConvergeLostStart(w)
      <4>1. act'[w].pc = "idle"
        BY <3>1, EndFacts DEF CapDenied, ConvergeLostStart, Returns, Raises
      <4> QED BY <1>1, <1>2, <2>2, <3>1, <4>1, DenialMoves
    <3>2. CASE Start(w) \/ Create(w)
      BY <1>1, <1>2, <2>2, <3>2, StartMoves
    <3>3. CASE Accepted(w) \/ Refused(w) \/ AnswerLost(w)
      BY <1>1, <1>2, <2>2, <3>3, AnswerMoves
    <3>4. CASE StoreImage(w) \/ Poll(w) \/ Import(w)
      BY <1>1, <1>2, <2>2, <3>4, FollowMoves
    <3> QED BY <2>2, <3>1, <3>2, <3>3, <3>4 DEF Work, Fault, Rests
  <2>3. CASE ~ Rests(w) /\ j # act[w].job
    <3>1. (Work(w) \/ Fault(w)) /\ ~ Begin(w)
      BY <2>3 DEF Rests
    <3>2. job'[j] = job[j] /\ tasks'[j] = tasks[j]
      BY <2>3, <3>1, OwnWork
    <3>3. act'[w].pc = "create" => act'[w].job # j
      BY <2>3, <3>1, OwnWork
    <3>4. accepted' = accepted
      BY <3>1 DEF Work, Fault, Begin, Prepare, CapDenied, ConvergeLostStart, Invoke, Execute, Start, Create,
         Accepted, Refused, AnswerLost, StoreImage, Poll, Import, Report, PollFails, Stumble, Crash, office
    <3> QED BY <1>1, <1>2, <3>2, <3>3, <3>4, JobRests
  <2> QED BY <2>1, <2>2, <2>3
<1>4. AnswersFit' /\ ImagesFit'
  BY <1>1, <1>2, AnswersKeepFitting, ImagesKeepFitting
<1> QED BY <1>3, <1>4 DEF Handled, CreatorsFit

\* A provider that finishes a video, a deadline, a run that is asked for, and
\* whatever leaves jobs and attempts alone.
LEMMA ElsewhereMoves ==
  ASSUME WorkTyped, Handled, job' = job, act' = act, accepted' = accepted,
         tasks' = tasks \/ Provider
  PROVE  Handled' /\ \A j \in Jobs : Proceeds(j)
<1>1. \A j \in Jobs : /\ LiveTasks(j)' \subseteq LiveTasks(j)
                      /\ \A i \in DOMAIN tasks[j] :
                           i \in DOMAIN tasks'[j] /\ (tasks[j][i] = "sent" => tasks'[j][i] = "sent")
  <2>1. CASE tasks' = tasks
    BY <2>1 DEF LiveTasks
  <2>2. CASE Provider
    <3> PICK k \in Jobs : \E n \in DOMAIN tasks[k], state \in {"done", "dead"} : TaskEnds(k, n, state)
      BY <2>2 DEF Provider
    <3> PICK n \in DOMAIN tasks[k], state \in {"done", "dead"} : TaskEnds(k, n, state)
      OBVIOUS
    <3>1. /\ tasks[k][n] = "running" /\ tasks' = [tasks EXCEPT ![k] = [tasks[k] EXCEPT ![n] = state]]
          /\ tasks \in [Jobs -> Seq(TaskStates)]
      BY DEF TaskEnds, WorkTyped
    <3>2. \A j \in Jobs : DOMAIN tasks'[j] = DOMAIN tasks[j]
      BY <3>1
    <3>3. \A j \in Jobs : \A i \in DOMAIN tasks[j] :
            tasks'[j][i] = tasks[j][i] \/ (tasks[j][i] = "running" /\ tasks'[j][i] \in {"done", "dead"})
      BY <3>1
    <3> QED BY <3>2, <3>3 DEF LiveTasks
  <2> QED BY <2>1, <2>2
<1>2. \A j \in Jobs : Creators(j)' = Creators(j)
  BY DEF Creators, At
<1>3. ASSUME NEW j \in Jobs PROVE Proceeds(j) /\ IsFiniteSet(Creators(j)')
  BY <1>1, <1>2, JobStays DEF Handled
<1>4. ImagesFit'
  BY DEF Handled, ImagesFit
<1>5. AnswersFit'
  <2>1. \A w \in Workers : act[w].job \in Jobs /\ (At(w, "answer")' <=> At(w, "answer"))
    BY DEF WorkTyped, Attempts, At
  <2> QED BY <1>1, <2>1 DEF Handled, AnswersFit
<1> QED BY <1>3, <1>4, <1>5 DEF Handled, CreatorsFit

\* What the office writes into a row, and on which condition.
LEMMA OrderMoves ==
  ASSUME WorkTyped, Handled, ImagesReferToNothing, NEW o, Commits(o), job' = Rows(o),
         accepted' = [j \in Jobs |-> IF o.kind = "abandon_unknown" /\ j \in o.jobs
                                     THEN accepted[j] + 1 ELSE accepted[j]],
         tasks' = tasks, act' = act, NEW j \in Jobs
  PROVE  /\ Moves(j)
         /\ job[j].status \in {"FAILED", "OUTCOME_UNKNOWN"} /\ job'[j].status = "READY" =>
              j \in o.jobs /\ o.kind \in {"abandon_unknown", "retry_failed"}
<1>1. job[j] \in JobRows /\ Admits(o) /\ job'[j] = Rows(o)[j] /\ Reserved[j] \in Nat
  BY MediaAssumption DEF MediaAssumption, WorkTyped, Commits, Rows
<1>2. LiveTasks(j)' = LiveTasks(j) /\ Creators(j)' = Creators(j)
  BY DEF LiveTasks, Creators, At
<1>3. \/ o.kind = "recover_stranded" /\ j \in o.jobs
      \/ o.kind = "abandon_unknown" /\ j \in o.jobs
      \/ o.kind = "retry_failed" /\ j \in o.jobs
      \/ o.kind = "retry_capped" /\ job[j].status # "SUCCEEDED"
      \/ /\ ~ (o.kind = "abandon_unknown" /\ j \in o.jobs)
         /\ job'[j] = job[j]
  BY <1>1 DEF Rows
<1>4. Extra(j)' \subseteq Extra(j) => Lighter(j, 0)
  BY <1>2, LoadMoves DEF Handled, CreatorsFit
<1>5. CASE o.kind = "recover_stranded" /\ j \in o.jobs
  <2>1. job[j].status = "STARTING" /\ job[j].unknown = 0
    BY <1>1, <1>5 DEF Admits, MayRecover, Stranded
  <2>2. job'[j].status = "OUTCOME_UNKNOWN" /\ job'[j].unknown = Reserved[j] /\ accepted'[j] = accepted[j]
    BY <1>1, <1>5 DEF Rows, Recovered, JobRows
  <2>3. Lighter(j, 0)
    BY <1>2, <1>4, <2>1, <2>2 DEF Extra, Following
  <2>4. job'[j].unknown = job[j].unknown + Reserved[j]
    BY <1>1, <2>1, <2>2
  <2> QED BY <2>1, <2>2, <2>3, <2>4 DEF Moves, Proceeds, Restored
<1>6. CASE o.kind = "abandon_unknown" /\ j \in o.jobs
  <2>1. job[j].status = "OUTCOME_UNKNOWN"
    BY <1>1, <1>6 DEF Admits, MayAbandon, Ambiguous
  <2>2. job'[j].status = "READY" /\ job'[j].unknown = job[j].unknown /\ accepted'[j] = accepted[j] + 1
    BY <1>1, <1>6 DEF Rows, Abandoned, JobRows
  <2>3. Lighter(j, 0)
    BY <1>2, <1>4, <2>1, <2>2 DEF Extra, Following
  <2> QED BY <1>6, <2>1, <2>2, <2>3 DEF Moves, Proceeds, Restored
<1>7. CASE o.kind = "retry_failed" /\ j \in o.jobs
  <2>1. job[j].status = "FAILED" /\ job[j].ref # 0
    BY <1>1, <1>7 DEF Admits, MayRetryFailed, Failed
  <2>2. job'[j].status = "READY" /\ job'[j].unknown = job[j].unknown /\ accepted'[j] = accepted[j]
    BY <1>1, <1>7 DEF Rows, RetriedRow, JobRows
  <2>3. j \in Videos
    BY <2>1 DEF ImagesReferToNothing, Videos
  <2>4. Lighter(j, 0)
    BY <1>2, <1>4, <2>1, <2>2 DEF Extra, Following
  <2> QED BY <1>7, <2>1, <2>2, <2>3, <2>4 DEF Moves, Proceeds, Restored, Kept
<1>8. CASE o.kind = "retry_capped" /\ job[j].status # "SUCCEEDED"
  <2>1. job[j].status \in {"READY", "BLOCKED_SPEND_CAP"}
    BY <1>1, <1>8 DEF Admits, MayRetryCapped
  <2>2. job'[j].status = "READY" /\ job'[j].unknown = job[j].unknown /\ accepted'[j] = accepted[j]
    BY <1>1, <1>8 DEF Rows, Requeued, JobRows
  <2>3. Lighter(j, 0)
    BY <1>2, <1>4, <2>1, <2>2 DEF Extra, Following
  <2> QED BY <2>1, <2>2, <2>3 DEF Moves, Proceeds, Restored, Kept
<1>9. CASE ~ (o.kind = "abandon_unknown" /\ j \in o.jobs) /\ job'[j] = job[j]
  <2>1. accepted'[j] = accepted[j]
    BY <1>9
  <2> QED BY <1>2, <1>9, <2>1, JobStays DEF Handled, Moves
<1> QED BY <1>3, <1>5, <1>6, <1>7, <1>8, <1>9

\* An operator's order, carried out or not.
LEMMA OfficeMoves ==
  ASSUME WorkTyped, Handled, ImagesReferToNothing, Office
  PROVE  Handled' /\ \A j \in Jobs : Moves(j)
<1>1. tasks' = tasks /\ act' = act
  BY DEF Office, Observe, Carry, OthersCommit, RaiseCap
<1>2. \/ job' = job /\ accepted' = accepted
      \/ \E o \in order : Carry(o) /\ Commits(o)
  BY DEF Office, Observe, Carry, OthersCommit, RaiseCap
<1>3. CASE job' = job /\ accepted' = accepted
  BY <1>1, <1>3, ElsewhereMoves DEF Moves
<1>4. CASE \E o \in order : Carry(o) /\ Commits(o)
  <2>1. \A j \in Jobs : Moves(j)
    BY <1>1, <1>4, OrderMoves DEF Carry
  <2>2. \A j : Creators(j)' = Creators(j)
    BY <1>1 DEF Creators, At
  <2>3. AnswersFit' /\ ImagesFit' /\ CreatorsFit'
    BY <1>1, <2>2 DEF Handled, AnswersFit, ImagesFit, CreatorsFit, At
  <2> QED BY <2>1, <2>3 DEF Handled
<1> QED BY <1>2, <1>3, <1>4

\* Every step moves every job so.
LEMMA StepMoves ==
  ASSUME WorkTyped, VideosFit, Handled, ImagesReferToNothing, [Next]_vars
  PROVE  Handled' /\ \A j \in Jobs : Moves(j)
<1>1. CASE \E w \in Workers : Work(w) \/ Fault(w) \/ GiveUpOn(w)
  BY <1>1, WorkMoves DEF Moves
<1>2. CASE \/ Provider \/ DeadlinePasses \/ UNCHANGED vars
           \/ \E r \in requests : Deliver(r)
  <2>1. job' = job /\ act' = act /\ accepted' = accepted /\ (tasks' = tasks \/ Provider)
    BY <1>2 DEF Provider, TaskEnds, DeadlinePasses, Deliver, vars, office
  <2> QED BY <2>1, ElsewhereMoves DEF Moves
<1>3. CASE Office
  BY <1>3, OfficeMoves
<1> QED BY <1>1, <1>2, <1>3 DEF Next

\* What a provider has delivered stays delivered.
LEMMA DeliveryStays ==
  ASSUME WorkTyped, AnswersFit, [Next]_vars, NEW j \in Jobs, Delivered(j)
  PROVE  Delivered(j)'
<1> PICK i \in DOMAIN tasks[j] : tasks[j][i] = "done"
  BY DEF Delivered
<1>1. CASE \E w \in Workers : Work(w) \/ Fault(w) \/ GiveUpOn(w)
  <2> PICK w \in Workers : Work(w) \/ Fault(w) \/ GiveUpOn(w)
    BY <1>1
  <2>1. /\ i \in DOMAIN tasks'[j]
        /\ tasks'[j][i] = tasks[j][i] \/ (At(w, "answer") /\ j = act[w].job /\ i = act[w].ref)
    BY TasksOfWork
  <2>2. ~ (At(w, "answer") /\ j = act[w].job /\ i = act[w].ref)
    BY DEF AnswersFit
  <2> QED BY <2>1, <2>2 DEF Delivered
<1>2. CASE Provider
  <2> PICK k \in Jobs : \E n \in DOMAIN tasks[k], state \in {"done", "dead"} : TaskEnds(k, n, state)
    BY <1>2 DEF Provider
  <2> PICK n \in DOMAIN tasks[k], state \in {"done", "dead"} : TaskEnds(k, n, state)
    OBVIOUS
  <2>1. /\ tasks[k][n] = "running" /\ tasks' = [tasks EXCEPT ![k] = [tasks[k] EXCEPT ![n] = state]]
        /\ tasks \in [Jobs -> Seq(TaskStates)]
    BY DEF TaskEnds, WorkTyped
  <2>2. i \in DOMAIN tasks'[j] /\ tasks'[j][i] = "done"
    BY <2>1
  <2> QED BY <2>2 DEF Delivered
<1>3. CASE DeadlinePasses \/ Office \/ UNCHANGED vars \/ \E r \in requests : Deliver(r)
  <2>1. tasks' = tasks
    BY <1>3 DEF DeadlinePasses, Deliver, vars, Office, Observe, Carry, OthersCommit, RaiseCap
  <2> QED BY <2>1 DEF Delivered
<1> QED BY <1>1, <1>2, <1>3 DEF Next

-----------------------------------------------------------------------------
(* The spend view, and the duplicates.                                     *)

\* A row that may still lead to a task of its own, or, of an image, has.
HasOne(j) ==
  \/ job[j].status = "STARTING"
  \/ j \in Images /\ job[j].status \in Following \cup {"SUCCEEDED"}

\* Unknown costs are counted once for every task that may be charged in vain,
\* but the one of an image that was written off.
LoadIsCounted(j) ==
  \E doubts \in Nat :
    /\ job[j].unknown = doubts * Reserved[j]
    /\ Load(j) <= doubts + (IF HasOne(j) \/ j \in WrittenOff THEN 1 ELSE 0)

\* So are the duplicates that operators accepted.
LoadIsAccepted(j) ==
  Load(j) <= accepted[j] + (IF \/ HasOne(j) \/ job[j].status = "OUTCOME_UNKNOWN"
                               \/ j \in Images /\ job[j].status = "FAILED" THEN 1 ELSE 0)

\* The load is a number, here and in the state a step leads to.
LEMMA LoadIsNat ==
  ASSUME WorkTyped, Handled, NEW j \in Jobs
  PROVE  Load(j) \in Nat
BY ExtraIsFinite, FS_CardinalityType DEF Load, Handled, CreatorsFit

\* The same of the state a step leads to.
LoadsAreNat == \A j \in Jobs : Load(j) \in Nat
LEMMA LoadIsNatNext == WorkTyped' /\ Handled' => LoadsAreNat'
<1>1. WorkTyped /\ Handled => LoadsAreNat
  BY LoadIsNat DEF LoadsAreNat
<1> QED BY <1>1, PTL

\* Each way a job moves keeps the unknown costs ahead of the load.
LEMMA LoadStaysCounted ==
  ASSUME WorkTyped, WorkTyped', Handled, Handled', NEW j \in Jobs, Moves(j), LoadIsCounted(j),
         Delivered(j) => Delivered(j)'
  PROVE  LoadIsCounted(j)'
<1> DEFINE Owes == HasOne(j) \/ j \in WrittenOff
<1> PICK doubts \in Nat : /\ job[j].unknown = doubts * Reserved[j]
                          /\ Load(j) <= doubts + (IF Owes THEN 1 ELSE 0)
  BY DEF LoadIsCounted
<1>1. Load(j) \in Nat /\ Load(j)' \in Nat
  BY LoadIsNat, LoadIsNatNext DEF LoadsAreNat
<1>2. (doubts + 1) * Reserved[j] = doubts * Reserved[j] + Reserved[j]
  BY MediaAssumption DEF MediaAssumption
<1>3. CASE job'[j].unknown = job[j].unknown
  <2>0. job[j].unknown \in Nat /\ Reserved[j] \in Nat \ {0}
    BY MediaAssumption DEF MediaAssumption, WorkTyped, JobRows
  <2>1. /\ j \in WrittenOff <=> j \in Images /\ job[j].status = "FAILED" /\ Delivered(j)
        /\ (j \in WrittenOff)' <=> j \in Images /\ job'[j].status = "FAILED" /\ Delivered(j)'
    BY DEF WrittenOff
  <2>2. \/ Lighter(j, 0) /\ (Owes => Owes')
        \/ Lighter(j, 0) /\ ~ Owes
        \/ Lighter(j, 1) /\ ~ Owes /\ Owes'
        \/ Lighter(j, -1)
    BY <1>3, <2>0, <2>1, SMTT(60) DEF Moves, Proceeds, Restored, Kept, HasOne, Following, Videos
  <2>3. Load(j)' <= doubts + (IF Owes' THEN 1 ELSE 0)
    BY <1>1, <2>2 DEF Lighter
  <2> QED BY <1>3, <2>3 DEF LoadIsCounted
<1>4. CASE job'[j].unknown # job[j].unknown
  <2>1. /\ job[j].status = "STARTING" /\ job'[j].status = "OUTCOME_UNKNOWN"
        /\ Load(j)' <= Load(j) + 0 /\ job'[j].unknown = job[j].unknown + Reserved[j]
    BY <1>4 DEF Moves, Proceeds, Restored, Kept, Lighter
  <2>2. Load(j)' <= doubts + 1
    BY <1>1, <2>1
  <2>3. /\ job'[j].unknown = (doubts + 1) * Reserved[j]
        /\ Load(j)' <= (doubts + 1) + (IF Owes' THEN 1 ELSE 0)
    BY <1>1, <1>2, <2>1, <2>2
  <2>4. doubts + 1 \in Nat
    OBVIOUS
  <2> QED BY <2>3, <2>4 DEF LoadIsCounted
<1> QED BY <1>3, <1>4

\* Each way keeps the accepted duplicates ahead of it too.
LEMMA LoadStaysAccepted ==
  ASSUME WorkTyped, WorkTyped', Handled, Handled', NEW j \in Jobs, Moves(j), LoadIsAccepted(j),
         accepted[j] \in Nat
  PROVE  LoadIsAccepted(j)'
<1>1. Load(j) \in Nat /\ Load(j)' \in Nat
  BY LoadIsNat, LoadIsNatNext DEF LoadsAreNat
<1> QED BY <1>1, SMTT(60) DEF Moves, Proceeds, Restored, Kept, Lighter, LoadIsAccepted, HasOne, Following, Videos

-----------------------------------------------------------------------------
\* The tasks that may be charged are the load, and the one a row follows.
LEMMA LiveIsLoaded ==
  ASSUME WorkTyped, Handled, NEW j \in Jobs
  PROVE  /\ Cardinality(LiveTasks(j)) \in Nat /\ Load(j) \in Nat
         /\ Cardinality(LiveTasks(j))
              <= Load(j) + (IF j \in Videos /\ job[j].status \in Following \cup {"SUCCEEDED"} THEN 1 ELSE 0)
<1>1. IsFiniteSet(Extra(j)) /\ IsFiniteSet(LiveTasks(j)) /\ IsFiniteSet(Creators(j))
  BY ExtraIsFinite DEF Handled, CreatorsFit
<1>2. /\ Cardinality(Extra(j)) \in Nat /\ Cardinality(Creators(j)) \in Nat
      /\ Cardinality(LiveTasks(j)) \in Nat
      /\ Load(j) = Cardinality(Extra(j)) + Cardinality(Creators(j))
  BY <1>1, FS_CardinalityType DEF Load
<1>3. CASE j \in Videos /\ job[j].status \in Following \cup {"SUCCEEDED"}
  <2>1. LiveTasks(j) \subseteq Extra(j) \cup {job[j].ref}
    BY <1>3 DEF Extra
  <2>2. Cardinality(LiveTasks(j)) <= Cardinality(Extra(j)) + 1
    BY <1>1, <2>1, ElementsMove
  <2> QED BY <1>2, <1>3, <2>2
<1>4. CASE ~ (j \in Videos /\ job[j].status \in Following \cup {"SUCCEEDED"})
  <2>1. LiveTasks(j) = Extra(j)
    BY <1>4 DEF Extra
  <2> QED BY <1>2, <1>4, <2>1
<1> QED BY <1>3, <1>4

\* No duplicate beside a task that may be charged, but those accepted.
LEMMA DuplicatesAreCounted ==
  ASSUME WorkTyped, Handled, NEW j \in Jobs, LoadIsAccepted(j), accepted[j] \in Nat
  PROVE  Cardinality(LiveTasks(j)) <= 1 + accepted[j]
BY LiveIsLoaded DEF LoadIsAccepted, HasOne, Following, Videos

\* More tasks at the same price cost more.
LEMMA TimesIsMonotone == \A a, b, c \in Nat : a <= b => a * c <= b * c /\ a * c \in Nat /\ b * c \in Nat
OBVIOUS

\* The spend view counts what may be charged, but for an image written off.
LEMMA ExposureIsCounted ==
  ASSUME WorkTyped, Handled, NEW j \in Jobs, LoadIsCounted(j)
  PROVE  /\ Exposure(j) <= Counted(j) + (IF j \in WrittenOff THEN Reserved[j] ELSE 0)
         /\ Exposure(j) \in Nat /\ Counted(j) \in Nat
<1> PICK doubts \in Nat : /\ job[j].unknown = doubts * Reserved[j]
                          /\ Load(j) <= doubts + (IF HasOne(j) \/ j \in WrittenOff THEN 1 ELSE 0)
  BY DEF LoadIsCounted
<1>1. PICK n \in Nat : n = Cardinality(LiveTasks(j))
  BY LiveIsLoaded
<1>2. PICK r \in Nat : r = Reserved[j]
  BY MediaAssumption DEF MediaAssumption
<1>3. n <= Load(j) + (IF j \in Videos /\ job[j].status \in Following \cup {"SUCCEEDED"} THEN 1 ELSE 0)
      /\ Load(j) \in Nat
  BY <1>1, LiveIsLoaded
<1>4. /\ n <= doubts + 1
      /\ job[j].status \in {"FAILED", "OUTCOME_UNKNOWN"} /\ j \notin WrittenOff => n <= doubts
  <2>1. j \in WrittenOff => j \in Images /\ job[j].status = "FAILED"
    BY DEF WrittenOff
  <2> QED BY <1>3, <2>1 DEF HasOne, Videos, Following
<1>5. n * r <= (doubts + 1) * r /\ n * r \in Nat /\ (doubts + 1) * r = r + doubts * r /\ doubts * r \in Nat
  BY <1>4, TimesIsMonotone
<1>6. n <= doubts => n * r <= doubts * r
  BY TimesIsMonotone
<1>7. Exposure(j) = n * r
  BY <1>1, <1>2 DEF Exposure
<1>8. Counted(j) = IF job[j].status \in {"FAILED", "OUTCOME_UNKNOWN"} THEN doubts * r ELSE r + doubts * r
  BY <1>2 DEF Counted
<1> QED BY <1>2, <1>4, <1>5, <1>6, <1>7, <1>8

-----------------------------------------------------------------------------
(* The cap.  What is held for the plan is what is counted for its jobs, and *)
(* the reservations of images that failed, which are counted no longer.     *)

FailedImage(j) == j \in Images /\ job[j].status = "FAILED"
Held(j) == Counted(j) + (IF FailedImage(j) THEN Reserved[j] ELSE 0)
Spend == Sum([j \in Jobs |-> Held(j)])

\* What is held for the plan, and, while no image has failed, what the product
\* has committed.
LEMMA SpendIs ==
  ASSUME WorkTyped
  PROVE  /\ \A j \in Jobs : Counted(j) \in Nat /\ Held(j) \in Nat
         /\ Spend \in Nat
         /\ (\A j \in Jobs : ~ FailedImage(j)) => Committed = Spend + other
<1>1. \A j \in Jobs : Counted(j) \in Nat /\ Held(j) \in Nat
  <2> SUFFICES ASSUME NEW j \in Jobs PROVE Counted(j) \in Nat /\ Held(j) \in Nat
    OBVIOUS
  <2>1. job[j].unknown \in Nat /\ Reserved[j] \in Nat
    BY MediaAssumption DEF MediaAssumption, WorkTyped, JobRows
  <2> QED BY <2>1 DEF Counted, Held
<1>2. [j \in Jobs |-> Held(j)] \in [Jobs -> Nat]
  BY <1>1
<1>3. ASSUME \A j \in Jobs : ~ FailedImage(j) PROVE Committed = Spend + other
  <2>1. \A j \in Jobs : Held(j) = Counted(j)
    BY <1>1, <1>3 DEF Held
  <2>2. [j \in Jobs |-> Held(j)] = [j \in Jobs |-> Counted(j)]
    BY <2>1
  <2> QED BY <1>1, <2>2, CountedSum DEF Spend, Committed
<1> QED BY <1>1, <1>2, <1>3, SumIsNat DEF Spend

\* What a step makes of what is held for a job.
LEMMA HeldMoves ==
  ASSUME WorkTyped, WorkTyped', NEW j \in Jobs, Moves(j)
  PROVE  /\ Held(j)' \in Nat /\ Held(j) \in Nat
         /\ Proceeds(j) => Held(j)' <= Held(j)
         /\ Held(j)' <= Held(j) + Reserved[j]
<1>1. job[j].unknown \in Nat /\ job'[j].unknown \in Nat /\ Reserved[j] \in Nat
  BY MediaAssumption DEF MediaAssumption, WorkTyped, JobRows
<1>2. /\ Held(j) = IF job[j].status = "OUTCOME_UNKNOWN" \/ (job[j].status = "FAILED" /\ j \notin Images)
                   THEN job[j].unknown ELSE Reserved[j] + job[j].unknown
      /\ Held(j)' = IF job'[j].status = "OUTCOME_UNKNOWN" \/ (job'[j].status = "FAILED" /\ j \notin Images)
                   THEN job'[j].unknown ELSE Reserved[j] + job'[j].unknown
  BY <1>1 DEF Held, Counted, FailedImage
<1>3. Proceeds(j) => Held(j)' <= Held(j)
  BY <1>1, <1>2, SMTT(60) DEF Proceeds, Kept, Following, Videos
<1>4. Restored(j) => Held(j)' <= Held(j) + Reserved[j]
  BY <1>1, <1>2 DEF Restored
<1>5. Held(j)' \in Nat /\ Held(j) \in Nat
  BY <1>1, <1>2
<1> QED BY <1>1, <1>3, <1>4, <1>5 DEF Moves

\* What it makes of the sum.
LEMMA SpendMoves ==
  ASSUME WorkTyped, WorkTyped', \A j \in Jobs : Moves(j), NEW T \in SUBSET Jobs,
         \A j \in Jobs \ T : Proceeds(j)
  PROVE  /\ Spend' <= Spend + Reservation(T)
         /\ T = {} => Spend' <= Spend
         /\ Spend \in Nat /\ Spend' \in Nat
<1> DEFINE f == [j \in Jobs |-> Held(j)]
           g == [j \in Jobs |-> Held(j)']
<1>1. f \in [Jobs -> Nat] /\ g \in [Jobs -> Nat]
  BY HeldMoves
<1>2. Spend = Sum(f) /\ Spend' = Sum(g)
  BY DEF Spend, Sum, Units
<1>3. /\ \A j \in T : g[j] <= f[j] + Reserved[j]
      /\ \A j \in Jobs \ T : g[j] <= f[j]
  BY HeldMoves
<1> HIDE DEF f, g
<1>4. Sum(g) <= Sum(f) + Reservation(T)
  BY <1>1, <1>3, SumGrows
<1>5. T = {} => Sum(g) <= Sum(f)
  BY <1>1, <1>3, SumIsMonotone
<1>6. Sum(f) \in Nat /\ Sum(g) \in Nat
  BY <1>1, SumIsNat
<1> QED BY <1>2, <1>4, <1>5, <1>6

-----------------------------------------------------------------------------
(* The two promises about what is charged.                                 *)

ChargesFit == VideosFit /\ Handled /\ ImagesReferToNothing
LoadsAreCounted == \A j \in Jobs : LoadIsCounted(j)
LoadsAreAccepted == \A j \in Jobs : LoadIsAccepted(j)

\* The types of a step's two states.
LEMMA TypesOfStep ==
  ASSUME TypeOK, [Next]_vars
  PROVE  WorkTyped /\ WorkTyped' /\ OfficeTyped /\ OfficeTyped'
<1>1. TypeOK'
  BY TypeStep
<1>2. (WorkTyped /\ OfficeTyped)'
  BY <1>1, TypeParts, PTL
<1> QED BY <1>2, TypeParts

\* What holds of attempts, tasks and references holds after every step.
LEMMA ChargesKeepFitting ==
  ASSUME Patient, TypeOK, ChargesFit, [Next]_vars
  PROVE  ChargesFit' /\ \A j \in Jobs : Moves(j)
<1>1. VideosFit' /\ Handled' /\ \A j \in Jobs : Moves(j)
  BY TypesOfStep, VideosKeepFitting, StepMoves DEF ChargesFit
<1>2. ImagesReferToNothing'
  BY ReferencesStay, MediaAssumption DEF MediaAssumption, ChargesFit, ImagesReferToNothing
<1> QED BY <1>1, <1>2 DEF ChargesFit

\* At first nothing is charged, and nothing about to be.
LEMMA ChargesAtFirst == Init => ChargesFit /\ LoadsAreCounted /\ LoadsAreAccepted
<1> SUFFICES ASSUME Init PROVE ChargesFit /\ LoadsAreCounted /\ LoadsAreAccepted
  OBVIOUS
<1>1. \A w \in Workers : act[w] = Resting /\ act[w].pc = "idle"
  BY DEF Init, Resting
<1>2. \A j \in Jobs : Creators(j) = {}
  BY <1>1 DEF Creators, At
<1>3. ASSUME NEW j \in Jobs
      PROVE  /\ job[j].ref = 0 /\ job[j].unknown = 0 /\ job[j].status = "READY"
             /\ accepted[j] = 0 /\ Extra(j) = {}
  BY DEF Init, FreshRow, Extra, LiveTasks, Following
<1>4. Handled
  BY <1>1, <1>2, FS_EmptySet DEF Handled, AnswersFit, ImagesFit, CreatorsFit, At
<1>5. \A j \in Jobs : Load(j) = 0
  BY <1>2, <1>3, FS_EmptySet DEF Load
<1>6. ASSUME NEW j \in Jobs PROVE LoadIsCounted(j)
  <2>1. job[j].unknown = 0 * Reserved[j]
        /\ Load(j) <= 0 + (IF HasOne(j) \/ j \in WrittenOff THEN 1 ELSE 0)
    BY <1>3, <1>5, MediaAssumption DEF MediaAssumption
  <2> QED BY <2>1 DEF LoadIsCounted
<1>7. \A j \in Jobs : LoadIsAccepted(j)
  BY <1>3, <1>5 DEF LoadIsAccepted
<1>8. ImagesReferToNothing
  BY <1>3, MediaAssumption DEF MediaAssumption, ImagesReferToNothing
<1> QED BY <1>4, <1>6, <1>7, <1>8, VideosFitAtFirst DEF ChargesFit, LoadsAreCounted, LoadsAreAccepted

\* So do the two bounds on the load of every job.
LEMMA LoadsStayAccepted ==
  ASSUME Patient, TypeOK, ChargesFit, LoadsAreAccepted, [Next]_vars
  PROVE  LoadsAreAccepted'
<1>1. WorkTyped /\ WorkTyped' /\ Handled /\ Handled'
  BY TypesOfStep, ChargesKeepFitting DEF ChargesFit
<1>2. \A j \in Jobs : Moves(j) /\ accepted[j] \in Nat
  BY ChargesKeepFitting, TypesOfStep DEF OfficeTyped
<1> QED BY <1>1, <1>2, LoadStaysAccepted DEF LoadsAreAccepted

LEMMA LoadsStayCounted ==
  ASSUME Patient, TypeOK, ChargesFit, LoadsAreCounted, [Next]_vars
  PROVE  LoadsAreCounted'
<1>1. WorkTyped /\ WorkTyped' /\ Handled /\ Handled'
  BY TypesOfStep, ChargesKeepFitting DEF ChargesFit
<1>2. \A j \in Jobs : Moves(j)
  BY ChargesKeepFitting
<1>3. \A j \in Jobs : Delivered(j) => Delivered(j)'
  BY <1>1, DeliveryStays DEF Handled
<1> QED BY <1>1, <1>2, <1>3, LoadStaysCounted DEF LoadsAreCounted

\* A job is paid for once more, while the provider may still charge for the
\* first time, only when an operator accepted that (retry_unknown_media_jobs),
\* however attempts, runs, recoveries and late workers interleave, while no
\* attempt to start a video outlives its time-out.
THEOREM DuplicatesStayAccepted == ASSUME Patient PROVE Spec => []DuplicatesAreAccepted
<1>1. Init => ChargesFit /\ LoadsAreAccepted
  BY ChargesAtFirst
<1>2. TypeOK /\ ChargesFit /\ [Next]_vars => ChargesFit'
  BY ChargesKeepFitting
<1>3. TypeOK /\ ChargesFit /\ LoadsAreAccepted /\ [Next]_vars => LoadsAreAccepted'
  BY LoadsStayAccepted
<1>4. TypeOK /\ ChargesFit /\ LoadsAreAccepted => DuplicatesAreAccepted
  <2> SUFFICES ASSUME TypeOK, ChargesFit, LoadsAreAccepted, NEW j \in Jobs
               PROVE  Cardinality(LiveTasks(j)) <= 1 + accepted[j]
    BY DEF DuplicatesAreAccepted
  <2>1. WorkTyped /\ accepted[j] \in Nat
    BY TypeParts DEF OfficeTyped
  <2> QED BY <2>1, DuplicatesAreCounted DEF ChargesFit, LoadsAreAccepted
<1> QED BY <1>1, <1>2, <1>3, <1>4, MediaTypeCorrect, PTL DEF Spec

\* The spend view never counts less for a job than the providers may charge
\* for it (product_media_spend_requirement), whatever attempts lose and
\* operators retry, but for one reservation of an image that was delivered and
\* recorded as a failure: while no attempt to start a video outlives its
\* time-out.
THEOREM SpendStaysCounted == ASSUME Patient PROVE Spec => []SpendIsCounted
<1>1. Init => ChargesFit /\ LoadsAreCounted
  BY ChargesAtFirst
<1>2. TypeOK /\ ChargesFit /\ [Next]_vars => ChargesFit'
  BY ChargesKeepFitting
<1>3. TypeOK /\ ChargesFit /\ LoadsAreCounted /\ [Next]_vars => LoadsAreCounted'
  BY LoadsStayCounted
<1>4. TypeOK /\ ChargesFit /\ LoadsAreCounted => SpendIsCounted
  BY TypeParts, ExposureIsCounted DEF ChargesFit, LoadsAreCounted, SpendIsCounted
<1> QED BY <1>1, <1>2, <1>3, <1>4, MediaTypeCorrect, PTL DEF Spec

-----------------------------------------------------------------------------
(* The order of the plan.  A job is reached when those before it have       *)
(* succeeded, and nothing takes that back.                                  *)

Succeeded(i) == job[Order[i]].status = "SUCCEEDED"
Reached(j) == \E p \in DOMAIN Order : Order[p] = j /\ \A i \in 1..(p - 1) : Succeeded(i)

InOrder ==
  /\ \A i \in 1..(flow.at - 1) : Succeeded(i)
  /\ \A w \in Workers : act[w].live => act[w].job = Order[flow.at]
  /\ \A w \in Workers : ~ At(w, "idle") => Reached(act[w].job)
  /\ \A j \in Jobs : job[j].status \notin {"READY", "BLOCKED_SPEND_CAP"} => Reached(j)

\* A job that has left READY and is neither done nor an image that failed.
Unsettled(j) ==
  job[j].status \notin {"READY", "BLOCKED_SPEND_CAP", "SUCCEEDED"} /\ ~ FailedImage(j)

\* Beside such a job no image has failed: one of the two comes first.
LEMMA OneUnsettled ==
  ASSUME InOrder, NEW j \in Jobs, Unsettled(j)
  PROVE  \A k \in Jobs : ~ FailedImage(k)
<1> SUFFICES ASSUME NEW k \in Jobs, FailedImage(k) PROVE FALSE
  OBVIOUS
<1>1. PICK p \in DOMAIN Order : Order[p] = j /\ \A i \in 1..(p - 1) : Succeeded(i)
  BY DEF InOrder, Unsettled, Reached
<1>2. PICK q \in DOMAIN Order : Order[q] = k /\ \A i \in 1..(q - 1) : Succeeded(i)
  BY DEF InOrder, FailedImage, Reached
<1>3. ~ Succeeded(p) /\ ~ Succeeded(q) /\ j # k
  BY <1>1, <1>2 DEF Succeeded, Unsettled, FailedImage
<1>4. p \in Nat \ {0} /\ q \in Nat \ {0} /\ (p < q \/ q < p \/ p = q)
  BY OrderFacts
<1>5. p < q => p \in 1..(q - 1)
  BY <1>4
<1>6. q < p => q \in 1..(p - 1)
  BY <1>4
<1> QED BY <1>1, <1>2, <1>3, <1>4, <1>5, <1>6

\* A job that succeeded stays so (GenerationJob.transition and the recoveries).
LEMMA SuccessStays ==
  ASSUME \A j \in Jobs : Moves(j)
  PROVE  /\ \A i \in DOMAIN Order : Succeeded(i) => Succeeded(i)'
         /\ \A j : Reached(j) => Reached(j)'
<1>1. \A j \in Jobs : job[j].status = "SUCCEEDED" => job'[j].status = "SUCCEEDED"
  BY DEF Moves, Proceeds, Restored, Following
<1>2. \A i \in DOMAIN Order : Succeeded(i) => Succeeded(i)'
  BY <1>1, OrderFacts DEF Succeeded
<1>3. \A p \in DOMAIN Order : 1..(p - 1) \subseteq DOMAIN Order
  BY OrderFacts
<1> QED BY <1>2, <1>3 DEF Reached

\* Where an answer or a failure takes the run.
LEMMA RunMoves ==
  ASSUME flow \in Flows, NEW j, NEW status
  PROVE  /\ Retried.at = flow.at /\ GivenUp.at = flow.at
         /\ \/ Advanced(j, status).at = flow.at
            \/ status = "SUCCEEDED" /\ Advanced(j, status).at = flow.at + 1
<1>1. Retried.at = flow.at /\ GivenUp.at = flow.at
  BY DEF Flows, Retried, GivenUp
<1>2. NextJob.at = flow.at + 1 /\ SameJob.at = flow.at /\ RunOver.at = flow.at
  BY DEF Flows, NextJob, SameJob, RunOver
<1>3. Advanced(j, status) \in {SameJob, RunOver} \/ (status = "SUCCEEDED" /\ Advanced(j, status) = NextJob)
  BY DEF Advanced
<1> QED BY <1>1, <1>2, <1>3

\* The run goes on to another job only after the one it was at succeeded, and
\* then nobody works for it.
FlowGoes ==
  /\ \/ flow'.at = flow.at
     \/ flow'.at = 1 /\ \A x \in Workers : ~ act'[x].live
     \/ flow'.at = flow.at + 1 /\ Succeeded(flow.at) /\ \A x \in Workers : ~ act'[x].live

\* An attempt goes on at its job, heard or not, or ends.
LEMMA AttemptHolds ==
  ASSUME WorkTyped, NEW w \in Workers, Work(w) \/ Fault(w) \/ GiveUpOn(w), ~ Begin(w)
  PROVE  /\ act'[w].pc # "idle" => ~ At(w, "idle") /\ act'[w].job = act[w].job
         /\ act'[w].live => act[w].live /\ act'[w].job = act[w].job
<1> DEFINE Stays == act'[w].job = act[w].job /\ act'[w].live = act[w].live
           Ends == act'[w].pc = "idle" /\ ~ act'[w].live
<1>1. act \in [Workers -> Attempts] /\ act[w] \in Attempts
  BY DEF WorkTyped
<1>2. ASSUME NEW n, Returns(w, n) \/ Raises(w, n) PROVE Ends
  BY <1>2, EndFacts DEF Returns, Raises
<1>3. ASSUME NEW pc, Goes(w, pc) PROVE Stays
  BY <1>3, GoesFacts
<1>4. ASSUME NEW to, NEW ref, NEW code, NEW next, Records(w, to, ref, code, next) PROVE Stays
  BY <1>3, <1>4 DEF Records
<1> HIDE DEF Stays, Ends
<1>5. CASE GiveUpOn(w)
  <2>1. act' = act \/ act' = [act EXCEPT ![w].live = FALSE]
    BY <1>5 DEF GiveUpOn
  <2>2. act'[w].pc = act[w].pc /\ act'[w].job = act[w].job /\ (act'[w].live => act[w].live)
    BY <1>1, <2>1 DEF Attempts
  <2> QED BY <2>2 DEF At
<1>6. CASE Work(w) \/ Fault(w)
  <2>1. Stays \/ Ends
    <3>1. CASE Prepare(w)
      BY <1>2, <1>3, <3>1, Zenon DEF Prepare
    <3>2. CASE CapDenied(w)
      BY <1>2, <3>2, Zenon DEF CapDenied
    <3>3. CASE ConvergeLostStart(w)
      BY <1>2, <3>3, Zenon DEF ConvergeLostStart
    <3>4. CASE Report(w)
      BY <1>2, <3>4, Zenon DEF Report
    <3>5. CASE Stumble(w)
      BY <1>2, <1>3, <3>5 DEF Stumble
    <3>6. CASE Crash(w)
      BY <3>6, EndFacts DEF Crash, Ends
    <3>7. CASE Execute(w)
      <4>1. (\E pc : Goes(w, pc)) \/ (\E pc, ref : act' = [act EXCEPT ![w].pc = pc, ![w].ref = ref])
        BY <3>7 DEF Execute
      <4>2. ASSUME NEW pc, NEW ref, act' = [act EXCEPT ![w].pc = pc, ![w].ref = ref] PROVE Stays
        BY <1>1, <4>2 DEF Stays, Attempts
      <4> QED BY <1>3, <4>1, <4>2
    <3>8. CASE Create(w)
      BY <1>1, <3>8 DEF Create, Stays, Attempts
    <3>9. CASE Invoke(w) \/ PollFails(w)
      BY <1>3, <3>9 DEF Invoke, PollFails
    <3>10. CASE Start(w) \/ Accepted(w) \/ Refused(w) \/ AnswerLost(w) \/ StoreImage(w) \/ Poll(w)
      BY <1>4, <3>10 DEF Start, Accepted, Refused, AnswerLost, StoreImage, Poll
    <3>11. CASE Import(w)
      BY <1>3, <1>4, <3>11 DEF Import
    <3> QED BY <1>6, <3>1, <3>2, <3>3, <3>4, <3>5, <3>6, <3>7, <3>8, <3>9, <3>10, <3>11 DEF Work, Fault
  <2>2. ~ At(w, "idle")
    BY <1>6, OwnWork
  <2> QED BY <2>1, <2>2 DEF Stays, Ends
<1> QED BY <1>5, <1>6

\* What an attempt that answers, raises or is given up makes of the run.
LEMMA FlowOfWork ==
  ASSUME WorkTyped, HeardIsAlone, InOrder, NEW w \in Workers, Work(w) \/ Fault(w) \/ GiveUpOn(w)
  PROVE  FlowGoes
<1>0. flow \in Flows
  BY DEF WorkTyped
<1>1. \A x \in Workers \ {w} : act'[x] = act[x]
  BY HeardStep
<1>2. flow' = flow => FlowGoes
  BY DEF FlowGoes
<1>3. ASSUME Raises(w, Retried) \/ Raises(w, GivenUp) PROVE FlowGoes
  BY <1>0, <1>3, RunMoves DEF Raises, FlowGoes
<1>4. ASSUME NEW status, Returns(w, status), status = "SUCCEEDED" => job[act[w].job].status = "SUCCEEDED"
      PROVE  FlowGoes
  <2>1. CASE act[w].live
    <3>1. act[w].job = Order[flow.at] /\ flow' = Advanced(act[w].job, status) /\ flow.worker = {w}
      BY <1>4, <2>1 DEF Returns, InOrder, HeardIsAlone
    <3>2. \A x \in Workers : ~ act'[x].live
      BY <1>1, <1>4, <3>1, EndFacts DEF Returns, HeardIsAlone
    <3> QED BY <1>0, <1>4, <3>1, <3>2, RunMoves DEF FlowGoes, Succeeded
  <2>2. CASE ~ act[w].live
    BY <1>2, <1>4, <2>2 DEF Returns
  <2> QED BY <2>1, <2>2
<1>5. CASE Begin(w)
  <2>1. CASE job[Order[flow.at]].status \in Executable
    BY <1>0, <1>5, <2>1 DEF Begin, FlowGoes, Flows
  <2>2. CASE job[Order[flow.at]].status \notin Executable
    <3>1. /\ flow' = Advanced(Order[flow.at], job[Order[flow.at]].status) /\ act' = act
          /\ flow.worker = {}
      BY <1>5, <2>2 DEF Begin
    <3>2. \A x \in Workers : ~ act'[x].live
      BY <3>1 DEF HeardIsAlone
    <3> QED BY <1>0, <3>1, <3>2, RunMoves DEF FlowGoes, Succeeded
  <2> QED BY <2>1, <2>2
<1>6. CASE Prepare(w)
  <2>1. Raises(w, Retried) \/ flow' = flow
    BY <1>6 DEF Prepare
  <2> QED BY <1>2, <1>3, <2>1
<1>7. CASE CapDenied(w)
  <2>1. Raises(w, Retried) \/ Raises(w, GivenUp) \/ Returns(w, "READY")
    BY <1>7 DEF CapDenied
  <2> QED BY <1>3, <1>4, <2>1
<1>8. CASE ConvergeLostStart(w)
  <2>1. Raises(w, Retried) \/ Returns(w, "OUTCOME_UNKNOWN")
    BY <1>8 DEF ConvergeLostStart
  <2> QED BY <1>3, <1>4, <2>1
<1>9. CASE Report(w)
  BY <1>4, <1>9 DEF Report
<1>10. CASE Stumble(w)
  <2>1. Raises(w, Retried) \/ flow' = flow
    BY <1>10 DEF Stumble
  <2> QED BY <1>2, <1>3, <2>1
<1>11. CASE GiveUpOn(w)
  <2>1. flow' \in {Retried, GivenUp}
    BY <1>11 DEF GiveUpOn
  <2> QED BY <1>0, <2>1, RunMoves DEF FlowGoes
<1>12. CASE \/ Invoke(w) \/ Execute(w) \/ Start(w) \/ Create(w) \/ Accepted(w) \/ Refused(w)
            \/ AnswerLost(w) \/ StoreImage(w) \/ Poll(w) \/ Import(w) \/ PollFails(w) \/ Crash(w)
  <2>1. flow' = flow
    BY <1>12 DEF Invoke, Execute, Start, Create, Accepted, Refused, AnswerLost, StoreImage, Poll, Import,
       PollFails, Crash
  <2> QED BY <1>2, <2>1
<1> QED BY <1>5, <1>6, <1>7, <1>8, <1>9, <1>10, <1>11, <1>12 DEF Work, Fault

\* Every step keeps the order of the plan.
LEMMA InOrderStep ==
  ASSUME Patient, TypeOK, ChargesFit, InOrder, [Next]_vars
  PROVE  InOrder'
<1>1. WorkTyped /\ WorkTyped' /\ HeardIsAlone /\ \A j \in Jobs : Moves(j)
  BY TypesOfStep, ChargesKeepFitting DEF ChargesFit, VideosFit
<1>2. /\ \A i \in DOMAIN Order : Succeeded(i) => Succeeded(i)'
      /\ \A j : Reached(j) => Reached(j)'
  BY <1>1, SuccessStays
<1>3. FlowGoes
  <2>1. CASE \E w \in Workers : Work(w) \/ Fault(w) \/ GiveUpOn(w)
    BY <1>1, <2>1, FlowOfWork
  <2>2. CASE \E r \in requests : Deliver(r)
    <3>1. act' = act /\ (flow' = flow \/ (flow'.at = 1 /\ flow.state # "running"))
      BY <2>2 DEF Deliver
    <3> QED BY <1>1, <3>1 DEF FlowGoes, HeardIsAlone
  <2>3. CASE DeadlinePasses
    BY <1>1, <2>3 DEF DeadlinePasses, FlowGoes, WorkTyped, Flows
  <2>4. CASE Provider \/ Office \/ UNCHANGED vars
    <3>1. flow' = flow
      BY <2>4 DEF Provider, TaskEnds, Office, Observe, Carry, OthersCommit, RaiseCap, vars
    <3> QED BY <3>1 DEF FlowGoes
  <2> QED BY <2>1, <2>2, <2>3, <2>4 DEF Next
<1>4. flow.at \in DOMAIN Order /\ flow.at \in Nat \ {0} /\ flow'.at \in DOMAIN Order
  BY <1>1, OrderFacts DEF WorkTyped, Flows
<1>5. ASSUME NEW i \in 1..(flow'.at - 1) PROVE Succeeded(i)'
  <2>1. i \in DOMAIN Order /\ (i \in 1..(flow.at - 1) \/ (i = flow.at /\ Succeeded(flow.at)))
    BY <1>3, <1>4, <1>5, OrderFacts DEF FlowGoes
  <2> QED BY <1>2, <2>1 DEF InOrder
<1>6. Order[flow.at] \in Jobs /\ Reached(Order[flow.at])
  BY <1>4, OrderFacts DEF InOrder, Reached
<1>7. ASSUME NEW x \in Workers
      PROVE  /\ act'[x].live => act'[x].job = Order[flow'.at]
             /\ act'[x].pc # "idle" => Reached(act[x].job)'
  <2>0. \A k : act'[x].job = k /\ Reached(k) => Reached(act[x].job)'
    <3> SUFFICES ASSUME NEW k, act'[x].job = k, Reached(k) PROVE Reached(act[x].job)'
      OBVIOUS
    <3>1. Reached(k)'
      BY <1>2
    <3> QED BY <3>1 DEF Reached
  <2>1. CASE act'[x] = act[x]
    <3>1. Order[flow'.at] = Order[flow.at] \/ ~ act'[x].live
      BY <1>3 DEF FlowGoes
    <3> QED BY <2>0, <2>1, <3>1 DEF InOrder, At
  <2>2. CASE act'[x] # act[x]
    <3>1. PICK w \in Workers : Work(w) \/ Fault(w) \/ GiveUpOn(w)
      BY <2>2 DEF Next, Deliver, DeadlinePasses, Provider, TaskEnds, Office, Observe, Carry, OthersCommit,
         RaiseCap, vars
    <3>2. x = w
      BY <1>1, <2>2, <3>1, HeardStep
    <3>3. CASE Begin(w)
      <4>1. act'[w].job = Order[flow.at] /\ flow'.at = flow.at
        BY <1>1, <2>2, <3>2, <3>3 DEF Begin, WorkTyped, Flows
      <4> QED BY <1>6, <2>0, <3>2, <4>1
    <3>4. CASE ~ Begin(w)
      <4>1. /\ act'[w].pc # "idle" => ~ At(w, "idle") /\ act'[w].job = act[w].job
            /\ act'[w].live => act[w].live /\ act'[w].job = act[w].job
        BY <1>1, <3>1, <3>4, AttemptHolds
      <4>2. Order[flow'.at] = Order[flow.at] \/ ~ act'[x].live
        BY <1>3 DEF FlowGoes
      <4> QED BY <2>0, <3>2, <4>1, <4>2 DEF InOrder
    <3> QED BY <3>3, <3>4
  <2> QED BY <2>1, <2>2
<1>8. ASSUME NEW j \in Jobs, job'[j].status \notin {"READY", "BLOCKED_SPEND_CAP"} PROVE Reached(j)'
  <2>1. CASE job[j].status \notin {"READY", "BLOCKED_SPEND_CAP"}
    BY <1>2, <2>1 DEF InOrder
  <2>2. CASE job[j].status \in {"READY", "BLOCKED_SPEND_CAP"}
    <3>1. ~ \E o \in order : Carry(o) /\ Commits(o)
      <4> SUFFICES ASSUME NEW o \in order, Carry(o), Commits(o) PROVE FALSE
        OBVIOUS
      <4>1. job'[j] = Rows(o)[j] /\ job'[j] # job[j]
        BY <1>8, <2>2 DEF Carry
      <4>2. job'[j].status = "OUTCOME_UNKNOWN"
        BY <1>1, <1>8, <4>1, RowsMoved
      <4> QED BY <1>1, <2>2, <4>2 DEF Moves, Proceeds, Restored, Following
    <3>2. PICK w \in Workers : Work(w) \/ Fault(w) \/ GiveUpOn(w)
      BY <1>8, <2>2, <3>1 DEF Next, Deliver, DeadlinePasses, Provider, TaskEnds, Office, Observe, Carry,
         OthersCommit, RaiseCap, vars
    <3>3. ~ GiveUpOn(w) /\ ~ Begin(w)
      BY <1>8, <2>2 DEF GiveUpOn, Begin
    <3>4. ~ At(w, "idle") /\ j = act[w].job
      BY <1>1, <1>8, <2>2, <3>2, <3>3, OwnWork
    <3> QED BY <1>2, <3>4 DEF InOrder
  <2> QED BY <2>1, <2>2
<1>9. \A x \in Workers : At(x, "idle")' <=> act'[x].pc = "idle"
  BY DEF At
<1> QED BY <1>5, <1>7, <1>8, <1>9 DEF InOrder

\* At first no job is reached but the one the plan begins with.
LEMMA InOrderAtFirst == Init => InOrder
BY OrderFacts DEF Init, InOrder, FreshRow, Resting, At

-----------------------------------------------------------------------------
(* What is held stays within the cap.                                       *)

\* Until the first start, jobs wait or are held back by the cap.
Pristine ==
  /\ \A j \in Jobs : job[j].status \in {"READY", "BLOCKED_SPEND_CAP"} /\ tasks[j] = <<>>
  /\ \A w \in Workers : act[w].pc \notin {"start", "create", "answer", "store"}

\* From then on what is held stays within the cap.  (Before, the other jobs
\* of the plan may keep it above: then none of them starts.)
CapIsHeld == Pristine \/ Spend <= cap

\* What is held depends on the rows alone.
LEMMA SpendRests ==
  ASSUME job' = job
  PROVE  Spend' = Spend
BY DEF Spend, Sum, Units, Held, FailedImage, Counted

\* The first start is one that the cap allows.
LEMMA FirstStart ==
  ASSUME WorkTyped, OfficeTyped, Pristine, NEW w \in Workers, Work(w) \/ Fault(w) \/ GiveUpOn(w),
         \A x \in Workers \ {w} : act'[x] = act[x]
  PROVE  Pristine' \/ (Spend <= cap /\ job' = job)
<1> DEFINE Before == {"idle", "prepare", "capped", "lost", "invoke", "execute", "poll", "import", "report"}
<1> PICK j \in Jobs : j = act[w].job
  BY DEF WorkTyped, Attempts
<1>1. act[w].pc \in Before /\ act \in [Workers -> Attempts] /\ act[w] \in Attempts
  BY DEF Pristine, WorkTyped, Attempts, Pcs
<1>2. ASSUME NEW pc \in Before, Goes(w, pc) PROVE act'[w].pc \in Before
  BY <1>2, GoesFacts
<1>3. ASSUME act' = [act EXCEPT ![w] = Resting] PROVE act'[w].pc \in Before
  BY <1>3, EndFacts
<1>4. ASSUME NEW n, Returns(w, n) \/ Raises(w, n) PROVE act'[w].pc \in Before
  BY <1>3, <1>4 DEF Returns, Raises
<1>5. job[j].status \in {"READY", "BLOCKED_SPEND_CAP"} /\ job[j] \in JobRows /\ job \in [Jobs -> JobRows]
  BY DEF Pristine, WorkTyped
<1>6. ASSUME NEW to \in {"PROCESSING", "IMPORTING", "SUCCEEDED", "FAILED"}, NEW code,
             Records(w, to, 0, code, "report")
      PROVE  job' = job /\ act'[w].pc \in Before
  BY <1>2, <1>5, <1>6 DEF Records, Allowed
<1>7. ASSUME act'[w].pc \in Before, tasks' = tasks,
             \A k \in Jobs : job'[k].status \in {"READY", "BLOCKED_SPEND_CAP"}
      PROVE  Pristine'
  BY <1>7 DEF Pristine
<1>8. ASSUME act'[w].pc \in Before, tasks' = tasks, job' = job PROVE Pristine'
  BY <1>7, <1>8 DEF Pristine
<1>9. CASE Begin(w)
  BY <1>1, <1>8, <1>9 DEF Begin
<1>10. CASE Prepare(w)
  <2>1. (\E n : Raises(w, n)) \/ (\E pc \in {"capped", "lost", "invoke"} : Goes(w, pc))
    BY <1>10 DEF Prepare
  <2>2. act'[w].pc \in Before
    BY <1>2, <1>4, <2>1
  <2> QED BY <1>8, <1>10, <2>2 DEF Prepare
<1>11. CASE CapDenied(w)
  <2>1. act'[w].pc \in Before
    BY <1>4, <1>11 DEF CapDenied
  <2>2. \/ job' = job
        \/ job' = [job EXCEPT ![j] = [job[j] EXCEPT !.status = "BLOCKED_SPEND_CAP", !.code = "cap_reached",
                                                    !.identity = "worker", !.updated_at = @ + 1]]
    BY <1>11 DEF CapDenied, Write
  <2>3. ASSUME NEW k \in Jobs PROVE job'[k].status \in {"READY", "BLOCKED_SPEND_CAP"}
    <3>1. job[k].status \in {"READY", "BLOCKED_SPEND_CAP"}
      BY DEF Pristine
    <3>2. \/ job'[k] = job[k]
          \/ job'[k] = [job[j] EXCEPT !.status = "BLOCKED_SPEND_CAP", !.code = "cap_reached",
                                      !.identity = "worker", !.updated_at = @ + 1]
      BY <1>5, <2>2
    <3> QED BY <1>5, <3>1, <3>2 DEF JobRows
  <2> QED BY <1>7, <1>11, <2>1, <2>3 DEF CapDenied
<1>12. CASE ConvergeLostStart(w)
  BY <1>4, <1>5, <1>8, <1>12 DEF ConvergeLostStart, Allowed
<1>13. CASE Invoke(w)
  BY <1>2, <1>8, <1>13 DEF Invoke
<1>14. CASE Execute(w)
  <2>1. \/ Goes(w, "report") \/ Prepares(j)
    BY <1>14 DEF Execute
  <2>2. job' = job /\ tasks' = tasks
    BY <1>14 DEF Execute
  <2>3. CASE Prepares(j)
    <3>1. job[j].status = "READY" /\ ~ (Committed > cap)
      BY <1>5, <2>3 DEF Prepares, OverCap, Executable
    <3>2. Committed = Spend + other /\ Spend \in Nat /\ other \in Nat /\ cap \in Nat
      BY SpendIs DEF OfficeTyped, Pristine, FailedImage
    <3> QED BY <2>2, <3>1, <3>2
  <2> QED BY <1>2, <1>8, <2>1, <2>2, <2>3
<1>15. CASE Poll(w) \/ Import(w)
  <2>1. /\ tasks' = tasks
        /\ \/ Records(w, "PROCESSING", 0, "none", "report") \/ Records(w, "IMPORTING", 0, "none", "report")
           \/ Records(w, "FAILED", 0, "confirmed", "report") \/ Records(w, "SUCCEEDED", 0, "none", "report")
           \/ Goes(w, "report") /\ job' = job
    BY <1>15 DEF Poll, Import
  <2> QED BY <1>2, <1>6, <1>8, <2>1
<1>16. CASE Report(w) \/ Crash(w) \/ PollFails(w) \/ Stumble(w)
  BY <1>2, <1>3, <1>4, <1>8, <1>16 DEF Report, Crash, PollFails, Stumble
<1>17. CASE GiveUpOn(w)
  <2>1. act'[w].pc = act[w].pc
    BY <1>1, <1>17 DEF GiveUpOn, Attempts
  <2> QED BY <1>1, <1>8, <1>17, <2>1 DEF GiveUpOn
<1>18. ~ (Start(w) \/ Create(w) \/ Accepted(w) \/ Refused(w) \/ AnswerLost(w) \/ StoreImage(w))
  BY <1>1 DEF Start, Create, Accepted, Refused, AnswerLost, StoreImage, At
<1> QED BY <1>9, <1>10, <1>11, <1>12, <1>13, <1>14, <1>15, <1>16, <1>17, <1>18 DEF Work, Fault

\* An operator's order, once it is carried out.
LEMMA OrderIsWithinCap ==
  ASSUME WorkTyped, WorkTyped', OfficeTyped, Handled, ImagesReferToNothing, CapIsHeld,
         InOrder, NEW o \in order, Carry(o), Commits(o)
  PROVE  CapIsHeld'
<1>1. /\ tasks' = tasks /\ act' = act /\ job' = Rows(o) /\ cap' = cap
      /\ accepted' = [j \in Jobs |-> IF o.kind = "abandon_unknown" /\ j \in o.jobs
                                     THEN accepted[j] + 1 ELSE accepted[j]]
  BY DEF Carry
<1>2. \A j \in Jobs : /\ Moves(j)
                      /\ job[j].status \in {"FAILED", "OUTCOME_UNKNOWN"} /\ job'[j].status = "READY" =>
                            j \in o.jobs /\ o.kind \in {"abandon_unknown", "retry_failed"}
  BY <1>1, OrderMoves
<1>3. o.jobs \in SUBSET Jobs /\ other \in Nat /\ cap \in Nat
  BY DEF OfficeTyped
<1>4. Spend \in Nat
  BY SpendIs
<1>5. CASE Pristine
  <2>1. ASSUME NEW j \in Jobs PROVE job'[j].status \in {"READY", "BLOCKED_SPEND_CAP"}
    <3>1. job[j].status \in {"READY", "BLOCKED_SPEND_CAP"}
      BY <1>5 DEF Pristine
    <3>2. Rows(o)[j] = job[j] \/ Rows(o)[j].status \in {"READY", "OUTCOME_UNKNOWN"}
      BY RowsMoved
    <3> QED BY <1>1, <1>2, <3>1, <3>2 DEF Moves, Proceeds, Restored, Following
  <2> QED BY <1>1, <1>5, <2>1 DEF Pristine, CapIsHeld
<1>6. CASE Spend <= cap /\ o.kind \in {"abandon_unknown", "retry_failed"} /\ o.jobs # {}
  <2>0. Committed = Spend + other
    <3> PICK j \in o.jobs : TRUE
      BY <1>6
    <3>1. j \in Jobs /\ Unsettled(j)
      BY <1>3, <1>6 DEF Commits, Admits, MayAbandon, MayRetryFailed, Ambiguous, Failed,
         ImagesReferToNothing, Unsettled, FailedImage
    <3> QED BY <3>1, OneUnsettled, SpendIs
  <2>1. Committed + Reservation(o.jobs) <= cap
    BY <1>6 DEF Commits, Admits, MayAbandon, MayRetryFailed
  <2>2. \A j \in Jobs \ o.jobs : Proceeds(j)
    BY <1>2 DEF Moves, Restored
  <2>3. Spend' <= Spend + Reservation(o.jobs) /\ Spend' \in Nat
    BY <1>2, <1>3, <2>2, SpendMoves
  <2>4. Reservation(o.jobs) \in Nat
    <3>1. IsFiniteSet(o.jobs) /\ Reserved \in [Jobs -> Nat]
      BY <1>3, JobsAreFinite, FS_Subset, MediaAssumption DEF MediaAssumption
    <3>2. Units(Reserved, o.jobs) \in SUBSET Units(Reserved, Jobs)
      BY <1>3 DEF Units
    <3>3. IsFiniteSet(Units(Reserved, Jobs))
      BY <3>1, JobsAreFinite, UnitsAreFinite
    <3> QED BY <1>3, <3>2, <3>3, FS_Subset, FS_CardinalityType, ReservationSum
  <2> QED BY <1>1, <1>3, <1>4, <2>0, <2>1, <2>3, <2>4 DEF CapIsHeld
<1>7. CASE Spend <= cap /\ ~ (o.kind \in {"abandon_unknown", "retry_failed"} /\ o.jobs # {})
  <2>1. \A j \in Jobs : Proceeds(j)
    BY <1>2, <1>7 DEF Moves, Restored
  <2>2. Spend' <= Spend /\ Spend' \in Nat
    <3> DEFINE none == {}
    <3>1. none \in SUBSET Jobs /\ \A j \in Jobs \ none : Proceeds(j)
      BY <2>1
    <3> QED BY <1>2, <3>1, SpendMoves
  <2> QED BY <1>1, <1>3, <1>4, <1>7, <2>2 DEF CapIsHeld
<1> QED BY <1>5, <1>6, <1>7 DEF CapIsHeld

\* Every step keeps the cap held.
LEMMA CapStaysHeld ==
  ASSUME Patient, TypeOK, ChargesFit, InOrder, CapIsHeld, [Next]_vars
  PROVE  CapIsHeld'
<1>1. WorkTyped /\ WorkTyped' /\ OfficeTyped /\ VideosFit /\ Handled /\ ImagesReferToNothing
  BY TypesOfStep DEF ChargesFit
<1>2. CASE \E w \in Workers : Work(w) \/ Fault(w) \/ GiveUpOn(w)
  <2> PICK w \in Workers : Work(w) \/ Fault(w) \/ GiveUpOn(w)
    BY <1>2
  <2>1. cap' = cap /\ cap \in Nat
    BY <1>1 DEF OfficeTyped, Work, Fault, Begin, Prepare, CapDenied, ConvergeLostStart, Invoke, Execute, Start, Create, Accepted,
       Refused, AnswerLost, StoreImage, Poll, Import, Report, PollFails, Stumble, Crash, GiveUpOn, office
  <2>2. CASE Pristine
    <3>1. \A x \in Workers \ {w} : act'[x] = act[x]
      BY <1>1, HeardStep DEF VideosFit
    <3>2. Pristine' \/ (Spend <= cap /\ job' = job)
      BY <1>1, <2>2, <3>1, FirstStart
    <3> QED BY <2>1, <3>2, SpendRests DEF CapIsHeld
  <2>3. CASE Spend <= cap
    <3>1. \A j \in Jobs : Proceeds(j) /\ Moves(j)
      BY <1>1, WorkMoves DEF Moves
    <3>2. Spend' <= Spend /\ Spend' \in Nat /\ Spend \in Nat
      <4> DEFINE none == {}
      <4>1. none \in SUBSET Jobs /\ \A j \in Jobs \ none : Proceeds(j)
        BY <3>1
      <4> QED BY <1>1, <3>1, <4>1, SpendMoves
    <3> QED BY <2>1, <2>3, <3>2 DEF CapIsHeld
  <2> QED BY <2>2, <2>3 DEF CapIsHeld
<1>3. CASE \E o \in order : Carry(o) /\ Commits(o)
  BY <1>1, <1>3, OrderIsWithinCap
<1>4. CASE \/ Provider \/ DeadlinePasses \/ UNCHANGED vars \/ \E r \in requests : Deliver(r)
           \/ Office /\ ~ \E o \in order : Carry(o) /\ Commits(o)
  <2>1. job' = job /\ act' = act /\ (tasks' = tasks \/ Provider)
        /\ (cap' = cap \/ (cap' \in HigherCaps /\ cap < cap'))
    BY <1>4 DEF Provider, TaskEnds, DeadlinePasses, Deliver, vars, office, Office, Observe, Carry, OthersCommit, RaiseCap
  <2>2. Pristine => ~ Provider
    BY DEF Pristine, Provider
  <2>3. CASE Pristine
    BY <2>1, <2>2, <2>3 DEF Pristine, CapIsHeld
  <2>4. CASE Spend <= cap
    <3>1. Spend' = Spend /\ Spend \in Nat /\ cap \in Nat /\ HigherCaps \subseteq Nat
      BY <1>1, <2>1, SpendRests, SpendIs, MediaAssumption DEF OfficeTyped, MediaAssumption
    <3>2. cap' \in Nat /\ cap <= cap'
      <4>1. CASE cap' = cap
        BY <3>1, <4>1
      <4>2. CASE cap' \in HigherCaps /\ cap < cap'
        <5>1. cap' \in Nat
          BY <3>1, <4>2
        <5> QED BY <3>1, <4>2, <5>1
      <4> QED BY <2>1, <4>1, <4>2
    <3>3. Spend' <= cap'
      BY <2>4, <3>1, <3>2
    <3> QED BY <3>3 DEF CapIsHeld
  <2> QED BY <2>3, <2>4 DEF CapIsHeld
<1> QED BY <1>2, <1>3, <1>4 DEF Next, Office

\* What may be charged is what is held, and nothing before the first start.
LEMMA HeldIsWithin ==
  ASSUME TypeOK, ChargesFit, LoadsAreCounted, CapIsHeld
  PROVE  WithinCap
<1>1. WorkTyped /\ OfficeTyped /\ Handled
  BY TypeParts DEF ChargesFit
<1>2. ASSUME NEW j \in Jobs
      PROVE  Exposure(j) <= Held(j) /\ Exposure(j) \in Nat /\ Held(j) \in Nat
  <2>1. /\ Exposure(j) <= Counted(j) + (IF j \in WrittenOff THEN Reserved[j] ELSE 0)
        /\ Exposure(j) \in Nat /\ Counted(j) \in Nat /\ Reserved[j] \in Nat
    BY <1>1, ExposureIsCounted, MediaAssumption DEF LoadsAreCounted, MediaAssumption
  <2>2. j \in WrittenOff => FailedImage(j)
    BY DEF WrittenOff, FailedImage
  <2> QED BY <2>1, <2>2 DEF Held
<1> DEFINE e == [j \in Jobs |-> Exposure(j)]
           c == [j \in Jobs |-> Held(j)]
<1>3. MapThenSumSet(Exposure, Jobs) = Sum(e) /\ Spend = Sum(c)
  BY <1>2, ExposureSum DEF Spend
<1>4. e \in [Jobs -> Nat] /\ c \in [Jobs -> Nat] /\ \A j \in Jobs : e[j] <= c[j]
  BY <1>2
<1>5. CASE Pristine
  <2>1. ASSUME NEW j \in Jobs PROVE Exposure(j) = 0
    <3>1. LiveTasks(j) = {} /\ Reserved[j] \in Nat
      BY <1>5, MediaAssumption DEF MediaAssumption, Pristine, LiveTasks
    <3> QED BY <3>1, FS_EmptySet DEF Exposure
  <2>2. \A j \in Jobs : e[j] = 0
    BY <2>1
  <2> HIDE DEF e
  <2>3. Units(e, Jobs) = {}
    BY <2>2 DEF Units
  <2>4. Sum(e) = 0
    BY <2>3, FS_EmptySet DEF Sum
  <2> QED BY <1>1, <1>3, <2>4 DEF WithinCap, OfficeTyped
<1>6. CASE Spend <= cap
  <2> HIDE DEF e, c
  <2>1. Sum(e) <= Sum(c) /\ Sum(e) \in Nat /\ Sum(c) \in Nat
    BY <1>4, SumIsMonotone, SumIsNat
  <2> QED BY <1>1, <1>3, <1>6, <2>1 DEF WithinCap, OfficeTyped
<1> QED BY <1>5, <1>6 DEF CapIsHeld

\* What the providers may charge for the plan stays within LIVE_E2E_MAX_USD
\* (_enforce_live_spend_cap, provider_started), although the check and the
\* create are in different transactions, operators retry, other plans commit
\* and an image may be charged and recorded as a failure: on the same condition.
THEOREM SpendStaysWithinCap == ASSUME Patient PROVE Spec => []WithinCap
<1>1. Init => ChargesFit /\ LoadsAreCounted
  BY ChargesAtFirst
<1>2. Init => CapIsHeld /\ InOrder
  BY InOrderAtFirst DEF Init, FreshRow, Resting, Pristine, CapIsHeld
<1>3. TypeOK /\ ChargesFit /\ [Next]_vars => ChargesFit'
  BY ChargesKeepFitting
<1>4. TypeOK /\ ChargesFit /\ LoadsAreCounted /\ [Next]_vars => LoadsAreCounted'
  BY LoadsStayCounted
<1>5. TypeOK /\ ChargesFit /\ InOrder /\ CapIsHeld /\ [Next]_vars => CapIsHeld'
  BY CapStaysHeld
<1>7. TypeOK /\ ChargesFit /\ InOrder /\ [Next]_vars => InOrder'
  BY InOrderStep
<1>6. TypeOK /\ ChargesFit /\ LoadsAreCounted /\ CapIsHeld => WithinCap
  BY HeldIsWithin
<1> QED BY <1>1, <1>2, <1>3, <1>4, <1>5, <1>6, <1>7, MediaTypeCorrect, PTL DEF Spec

=============================================================================
