----------------------------- MODULE Publication -----------------------------
(***************************************************************************)
(* One PublicationDraft on its way to a post: the decisions of users and   *)
(* the operations of PublishingService on its job (publishing/             *)
(* application.py), which users call directly in development and the       *)
(* PublicationWorkflow (infrastructure/temporal/workflows.py) through the  *)
(* Tool Gateway (publishing/execution.py).                                 *)
(*                                                                         *)
(* Drafts are independent: each has its own advisory lock, under which an  *)
(* operation's transactions run, so that a transaction is a step.  The     *)
(* provider's port is idempotent per draft.  The gateway is taken at its   *)
(* promise (ToolGateway).                                                  *)
(***************************************************************************)
EXTENDS Naturals

CONSTANTS
  Users,       \* concurrent requests of the API
  Workers,     \* activity slots
  Modes,       \* publication modes a draft may have: POST_NOW, SCHEDULE
  MaxTries,    \* TOOL_RETRY_POLICY.maximum_attempts
  MaxFaults,   \* bound on crashes, exceptions and time-outs
  Nobody

ASSUME PublicationAssumption ==
  /\ Users \cap Workers = {} /\ Nobody \notin Users \cup Workers
  /\ Modes \subseteq {"POST_NOW", "SCHEDULE"} /\ Modes # {}
  /\ MaxTries \in Nat \ {0} /\ MaxFaults \in Nat

VARIABLES
  mode,          \* of the draft, which is immutable
  current,       \* the creative is approved and the account active
  decision,      \* the latest publication_decisions row
  job,           \* publication_jobs: status; from SUBMITTED on with the provider's operation
  publication,   \* whether there is a publications row
  approval,      \* of the submit tool, bound by BindPublicationApproval
  record,        \* idempotency records of the submit and the status tool
  act,           \* requests and activity attempts
  flow,          \* the workflow
  provider,      \* external: the post, and
  sent,          \* whether a submission ever left
  faults

rows == <<mode, current, decision, job, publication, approval>>
external == <<provider, sent>>
vars == <<rows, record, act, flow, external, faults>>

Slots == Users \cup Workers
Ended == {"COMPLETED", "FAILED", "ERROR"}
Statuses == {"none", "APPROVED", "SCHEDULED", "SUBMITTING", "SUBMITTED", "PUBLISHED", "FAILED",
             "OUTCOME_UNKNOWN", "CANCELLED"}
Resting == [pc |-> "idle", op |-> "none", answer |-> "none"]

Init ==
  /\ mode \in Modes /\ current = TRUE /\ decision = "none" /\ job = "none"
  /\ publication = FALSE /\ approval = "none"
  /\ record = [t \in {"submit", "reconcile"} |-> "none"]
  /\ act = [s \in Slots |-> Resting]
  /\ flow = [state |-> "none", by |-> Nobody, tries |-> 0, due |-> FALSE]
  /\ provider = "none" /\ sent = FALSE /\ faults = 0

\* PublicationJob.transition, and the trigger on its row.
Allowed(from, to) ==
  \/ from = "APPROVED"        /\ to \in {"SCHEDULED", "SUBMITTING", "CANCELLED"}
  \/ from = "SCHEDULED"       /\ to \in {"SUBMITTING", "CANCELLED"}
  \/ from = "SUBMITTING"      /\ to \in {"SUBMITTED", "PUBLISHED", "FAILED", "OUTCOME_UNKNOWN"}
  \/ from = "SUBMITTED"       /\ to \in {"PUBLISHED", "FAILED", "OUTCOME_UNKNOWN", "CANCELLED"}
  \/ from = "OUTCOME_UNKNOWN" /\ to \in {"PUBLISHED", "FAILED"}

-----------------------------------------------------------------------------
(* Decisions.                                                              *)

\* A repeated decision changes nothing.  A draft has one job: an approval after a rejection of
\* an approved draft fails on its unique key.
Decide(state) ==
  /\ decision # state /\ current
  /\ state = "APPROVED" => job = "none"
  /\ decision' = state
  /\ job' = IF state = "APPROVED" THEN "APPROVED" ELSE job
  /\ UNCHANGED <<mode, current, publication, approval, record, act, flow, external, faults>>

\* The approving request goes on to bind the gateway's approval to the draft, and a repeated
\* one does where it had failed.
BindApproval ==
  /\ decision = "APPROVED" /\ job # "none" /\ approval = "none"
  /\ approval' = "APPROVED"
  /\ UNCHANGED <<mode, current, decision, job, publication, record, act, flow, external, faults>>

\* It expires, or is revoked.
ApprovalLapses ==
  /\ approval = "APPROVED" /\ approval' = "CLOSED"
  /\ UNCHANGED <<mode, current, decision, job, publication, record, act, flow, external, faults>>

\* The creative's approval is withdrawn, or the account disconnected.
Outdate ==
  /\ current /\ current' = FALSE
  /\ UNCHANGED <<mode, decision, job, publication, approval, record, act, flow, external, faults>>

-----------------------------------------------------------------------------
(* The operations, for a user or behind the gateway.                       *)

Goes(s, pc) == act' = [act EXCEPT ![s].pc = pc]

\* SocialPublishingToolExecutor: what the gateway is told of an operation.  Every exception but
\* one is a failure before any effect.  A user is simply answered.
Finishes(s, outcome) ==
  act' = [act EXCEPT ![s] = IF s \in Users THEN Resting
                                           ELSE [@ EXCEPT !.pc = "complete", !.answer = outcome]]

Done(status) ==
  CASE status = "OUTCOME_UNKNOWN" -> "UNKNOWN"
    [] status = "FAILED"          -> "FAILED_PRE_EFFECT"
    [] OTHER                      -> "SUCCEEDED"

UserCalls(s, op) ==
  /\ act[s] = Resting
  /\ act' = [act EXCEPT ![s] = [pc |-> "start", op |-> op, answer |-> "none"]]
  /\ UNCHANGED <<rows, record, flow, external, faults>>

Submittable == decision = "APPROVED" /\ current /\ job \notin {"none", "CANCELLED", "FAILED"}

\* execute, first transaction: a scheduled draft is only scheduled by its first execution; what
\* is being submitted already, or was, goes to the provider again.
StartExecute(s) ==
  /\ act[s].pc = "start" /\ act[s].op = "submit"
  /\ \/ /\ decision = "APPROVED" /\ current /\ publication
        /\ Finishes(s, Done(job)) /\ UNCHANGED job
     \/ /\ ~ publication /\ ~ Submittable
        /\ Finishes(s, "FAILED_PRE_EFFECT") /\ UNCHANGED job
     \/ /\ publication /\ ~ (decision = "APPROVED" /\ current)
        /\ Finishes(s, "FAILED_PRE_EFFECT") /\ UNCHANGED job
     \/ /\ ~ publication /\ Submittable /\ job = "APPROVED" /\ mode = "SCHEDULE"
        /\ job' = "SCHEDULED" /\ Finishes(s, "SUCCEEDED")
     \/ /\ ~ publication /\ Submittable /\ ~ (job = "APPROVED" /\ mode = "SCHEDULE")
        /\ job' = IF job \in {"APPROVED", "SCHEDULED"} THEN "SUBMITTING" ELSE job
        /\ Goes(s, "provider")
  /\ UNCHANGED <<mode, current, decision, publication, approval, record, flow, external, faults>>

\* The states the provider may be in after a submission, and what it answers then.
AfterSubmit == IF provider = "none" THEN {"published", "failed", "pending"} ELSE {provider}
Reported(p) ==
  CASE p = "published" -> {"PUBLISHED"} [] p = "failed" -> {"FAILED"}
    [] OTHER -> {"SUBMITTED", "OUTCOME_UNKNOWN"}

Submit(s) ==
  /\ act[s].pc = "provider" /\ act[s].op = "submit"
  /\ \E p \in AfterSubmit :
       /\ provider' = p
       /\ \E r \in Reported(p) : act' = [act EXCEPT ![s].pc = "store", ![s].answer = r]
  /\ sent' = TRUE
  /\ UNCHANGED <<rows, record, flow, faults>>

\* No answer, or a second transaction that fails: for the gateway, before any effect.
SubmitRaises(s) ==
  /\ act[s].pc = "provider" /\ act[s].op = "submit" /\ faults < MaxFaults
  /\ provider' \in {provider} \cup AfterSubmit
  /\ sent' = TRUE
  /\ Finishes(s, "FAILED_PRE_EFFECT")
  /\ faults' = faults + 1
  /\ UNCHANGED <<rows, record, flow>>

\* execute, second transaction.  An illegal transition raises.
StoreExecute(s) ==
  /\ act[s].pc = "store" /\ act[s].op = "submit"
  /\ LET to == act[s].answer
     IN  IF Allowed(job, to)
           THEN /\ job' = to /\ publication' = (publication \/ to = "PUBLISHED")
                /\ Finishes(s, Done(to))
           ELSE Finishes(s, "FAILED_PRE_EFFECT") /\ UNCHANGED <<job, publication>>
  /\ UNCHANGED <<mode, current, decision, approval, record, flow, external, faults>>

StoreFails(s) ==
  /\ act[s].pc = "store" /\ faults < MaxFaults
  /\ Finishes(s, "FAILED_PRE_EFFECT")
  /\ faults' = faults + 1
  /\ UNCHANGED <<rows, record, flow, external>>

\* reconcile: a read, the provider's status, and a transaction where it is published.
StartReconcile(s) ==
  /\ act[s].pc = "start" /\ act[s].op = "reconcile"
  /\ IF job \in {"SUBMITTED", "OUTCOME_UNKNOWN"} THEN Goes(s, "provider") ELSE Finishes(s, "UNKNOWN")
  /\ UNCHANGED <<rows, record, flow, external, faults>>

\* Mutant: what the provider took in counts as published.
KnownToTheProvider == provider \in {"published", "pending"}
StatusIsPublished == provider = "published"

AskProvider(s) ==
  /\ act[s].pc = "provider" /\ act[s].op = "reconcile"
  /\ IF StatusIsPublished THEN Goes(s, "store") ELSE Finishes(s, "UNKNOWN")
  /\ UNCHANGED <<rows, record, flow, external, faults>>

\* The question is not answered: the executor reports every exception as one before the effect.
AskRaises(s) ==
  /\ act[s].pc = "provider" /\ act[s].op = "reconcile" /\ faults < MaxFaults
  /\ Finishes(s, "FAILED_PRE_EFFECT")
  /\ faults' = faults + 1
  /\ UNCHANGED <<rows, record, flow, external>>

StoreReconcile(s) ==
  /\ act[s].pc = "store" /\ act[s].op = "reconcile"
  /\ \/ /\ publication /\ Finishes(s, Done(job)) /\ UNCHANGED <<job, publication>>
     \/ /\ ~ publication /\ Allowed(job, "PUBLISHED")
        /\ job' = "PUBLISHED" /\ publication' = TRUE /\ Finishes(s, "SUCCEEDED")
     \/ /\ ~ publication /\ ~ Allowed(job, "PUBLISHED")
        /\ Finishes(s, "FAILED_PRE_EFFECT") /\ UNCHANGED <<job, publication>>
  /\ UNCHANGED <<mode, current, decision, approval, record, flow, external, faults>>

\* Mutant: what is on its way to the provider can be cancelled.
CancellableLate == job \in {"APPROVED", "SCHEDULED", "SUBMITTING"}
Cancellable == job \in {"APPROVED", "SCHEDULED"}

\* A user cancels.  The workflow's own tool for it needs an approval nobody binds.
Cancel(s) ==
  /\ act[s].pc = "start" /\ act[s].op = "cancel"
  /\ job' = IF Cancellable THEN "CANCELLED" ELSE job
  /\ act' = [act EXCEPT ![s] = Resting]
  /\ UNCHANGED <<mode, current, decision, publication, approval, record, flow, external, faults>>

\* The provider decides what it had only taken in.
Settle ==
  /\ provider = "pending" /\ provider' \in {"published", "failed"}
  /\ UNCHANGED <<rows, record, act, flow, sent, faults>>

-----------------------------------------------------------------------------
(* The workflow, and its activities behind the gateway.                    *)

\* Started by the creative cycle, with or without the time to wait for.
Start ==
  /\ flow.state = "none" /\ job # "none"
  /\ \E to \in {"waiting", "submit"} : flow' = [flow EXCEPT !.state = to]
  /\ UNCHANGED <<rows, record, act, external, faults>>

ScheduledTimeComes ==
  /\ flow.state = "waiting" /\ flow' = [flow EXCEPT !.state = "submit"]
  /\ UNCHANGED <<rows, record, act, external, faults>>

SignalCancel ==
  /\ flow.state = "waiting" /\ flow' = [flow EXCEPT !.state = "cancel"]
  /\ UNCHANGED <<rows, record, act, external, faults>>

\* maximum_reconcile_seconds are over.
DeadlinePasses ==
  /\ flow.state = "reconcile" /\ ~ flow.due /\ flow' = [flow EXCEPT !.due = TRUE]
  /\ UNCHANGED <<rows, record, act, external, faults>>

Dispatch(w) ==
  /\ act[w] = Resting
  /\ flow.state \in {"submit", "reconcile", "cancel"} /\ flow.by = Nobody
  /\ act' = [act EXCEPT ![w] = [pc |-> "invoke", op |-> flow.state, answer |-> "none"]]
  /\ flow' = [flow EXCEPT !.by = w, !.tries = @ + 1]
  /\ UNCHANGED <<rows, record, external, faults>>

\* gateway.invoke: an operation that is known, unknown or under way is not attempted.
MayInvoke(op) ==
  \/ op = "submit"    /\ approval = "APPROVED" /\ record[op] \in {"none", "FAILED_PRE_EFFECT"}
  \/ op = "reconcile" /\ record[op] \in {"none", "FAILED_PRE_EFFECT"}

Invoke(w) ==
  /\ act[w].pc = "invoke"
  /\ IF MayInvoke(act[w].op)
       THEN record' = [record EXCEPT ![act[w].op] = "EXECUTING"] /\ Goes(w, "start")
       ELSE Goes(w, "return") /\ UNCHANGED record
  /\ UNCHANGED <<rows, flow, external, faults>>

Complete(w) ==
  /\ act[w].pc = "complete"
  /\ record' = [record EXCEPT ![act[w].op] = act[w].answer]
  /\ Goes(w, "return")
  /\ UNCHANGED <<rows, flow, external, faults>>

\* Mutant: the deadline is looked at only after a status that is known.
AfterUnbounded(f) ==
  [f EXCEPT !.by = Nobody, !.tries = 0,
     !.state = IF f.state # "cancel" /\ job \in {"SUBMITTED", "OUTCOME_UNKNOWN"} THEN "reconcile"
               ELSE IF f.state # "cancel" /\ job = "PUBLISHED" THEN "COMPLETED" ELSE "FAILED"]

\* The activity reports the job's status, whatever the gateway said.
After(f) ==
  [f EXCEPT !.by = Nobody, !.tries = 0,
     !.state = IF f.state # "cancel" /\ job \in {"SUBMITTED", "OUTCOME_UNKNOWN"} /\ ~ f.due
                 THEN "reconcile"
               ELSE IF f.state # "cancel" /\ job = "PUBLISHED" THEN "COMPLETED" ELSE "FAILED"]

Return(w) ==
  /\ act[w].pc = "return"
  /\ flow' = IF flow.by = w THEN After(flow) ELSE flow
  /\ act' = [act EXCEPT ![w] = Resting]
  /\ UNCHANGED <<rows, record, external, faults>>

Retried == [flow EXCEPT !.by = Nobody, !.state = IF flow.tries < MaxTries THEN @ ELSE "ERROR"]

\* A process dies with what it was doing.
Crash(s) ==
  /\ act[s] # Resting /\ faults < MaxFaults
  /\ act' = [act EXCEPT ![s] = Resting]
  /\ flow' = IF flow.by = s THEN Retried ELSE flow
  /\ faults' = faults + 1
  /\ UNCHANGED <<rows, record, external>>

\* Temporal gives up on an attempt, which goes on, and with the activity's time on all.
TimeOut ==
  /\ flow.by # Nobody /\ faults < MaxFaults
  /\ flow' \in {Retried, [flow EXCEPT !.by = Nobody, !.state = "ERROR"]}
  /\ faults' = faults + 1
  /\ UNCHANGED <<rows, record, act, external>>

-----------------------------------------------------------------------------
Runs(s) ==
  \/ StartExecute(s) \/ Submit(s) \/ StoreExecute(s)
  \/ StartReconcile(s) \/ AskProvider(s) \/ StoreReconcile(s)
Activity(w) == Invoke(w) \/ Runs(w) \/ Complete(w) \/ Return(w)
Temporal == ScheduledTimeComes \/ DeadlinePasses \/ \E w \in Workers : Dispatch(w)

Next ==
  \/ \E state \in {"APPROVED", "REJECTED"} : Decide(state)
  \/ BindApproval \/ ApprovalLapses \/ Outdate \/ Settle
  \/ \E u \in Users : \/ \E op \in {"submit", "reconcile", "cancel"} : UserCalls(u, op)
                      \/ Runs(u) \/ Cancel(u)
  \/ Start \/ SignalCancel \/ Temporal
  \/ \E w \in Workers : Activity(w)
  \/ \E s \in Slots : SubmitRaises(s) \/ AskRaises(s) \/ StoreFails(s) \/ Crash(s)
  \/ TimeOut

\* Workers work, Temporal schedules, and time passes; nobody has to decide or to ask, and the
\* provider may keep silent.
Spec == Init /\ [][Next]_vars
FairSpec == Spec /\ WF_vars(ScheduledTimeComes) /\ WF_vars(DeadlinePasses)
                 /\ WF_vars(\E w \in Workers : Dispatch(w))
                 /\ \A w \in Workers : WF_vars(Activity(w))

-----------------------------------------------------------------------------
(* Types.                                                                  *)

Outcomes == {"SUCCEEDED", "FAILED_PRE_EFFECT", "UNKNOWN"}

TypeOK ==
  /\ mode \in Modes /\ current \in BOOLEAN /\ decision \in {"none", "APPROVED", "REJECTED"}
  /\ job \in Statuses /\ publication \in BOOLEAN /\ approval \in {"none", "APPROVED", "CLOSED"}
  /\ record \in [{"submit", "reconcile"} -> {"none", "EXECUTING"} \cup Outcomes]
  /\ act \in [Slots -> [pc : {"idle", "invoke", "start", "provider", "store", "complete", "return"},
                        op : {"none", "submit", "reconcile", "cancel"},
                        answer : Statuses \cup Outcomes]]
  /\ flow \in [state : Ended \cup {"none", "waiting", "submit", "reconcile", "cancel"},
               by : Workers \cup {Nobody}, tries : 0..MaxTries, due : BOOLEAN]
  /\ provider \in {"none", "pending", "published", "failed"} /\ sent \in BOOLEAN
  /\ faults \in 0..MaxFaults

-----------------------------------------------------------------------------
(* Properties.                                                             *)

\* A job is PUBLISHED exactly when the draft has its Publication, and then the provider posted
\* it: however often users and the workflow execute and reconcile at the same time.
PublishedIsTrue ==
  /\ job = "PUBLISHED" <=> publication
  /\ publication => provider = "published"

\* docs/24: what is cancelled, is cancelled before it was submitted, and no execution that was
\* under way submits it afterwards.
CancelledIsNeverSubmitted == job = "CANCELLED" => ~ sent

\* A workflow that was started ends, whatever becomes of its approval, its attempts and the
\* provider's answer.
PublicationEnds == flow.state \notin {"none"} \cup Ended ~> flow.state \in Ended

=============================================================================
