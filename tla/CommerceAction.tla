---------------------------- MODULE CommerceAction ----------------------------
(***************************************************************************)
(* An approved commerce mutation, a refund or an inventory adjustment,     *)
(* from the request of a user to the end of its CommerceActionWorkflow     *)
(* (infrastructure/temporal/workflows.py): the activity attempts of        *)
(* GovernedCommerceActionExecutor (infrastructure/database/                *)
(* commerce_worker.py) that submit it through the Tool Gateway, ask for    *)
(* the outcome of one that is unknown and confirm it; the executor behind  *)
(* the gateway (commerce/execution.py) and the rows it keeps               *)
(* (infrastructure/database/commerce_authority.py).                        *)
(*                                                                         *)
(* The gateway is taken at its promise (ToolGateway): its decision is one  *)
(* step, the recording of an outcome another.  The provider honours the    *)
(* idempotency key, as the port asks.  A transaction is a step.            *)
(***************************************************************************)
EXTENDS Naturals

CONSTANTS
  Proposals,   \* commerce_action_proposals
  Refunds,     \* those that refund an order; the others adjust an inventory
  OrderOf,     \* the order each refund is about
  Attempts,    \* activity attempts that may run at a time
  MaxTries,    \* TOOL_RETRY_POLICY.maximum_attempts
  MaxRounds,   \* CommerceActionWorkflowInput.maximum_reconcile_attempts
  MaxFaults,   \* bound on crashes, time-outs and transactions that fail
  Nobody

Orders == {OrderOf[p] : p \in Refunds}

ASSUME CommerceAssumption ==
  /\ Refunds \subseteq Proposals /\ DOMAIN OrderOf = Refunds
  /\ MaxTries \in Nat \ {0} /\ {MaxRounds, MaxFaults} \subseteq Nat
  /\ Nobody \notin Attempts

VARIABLES
  approval,   \* the approval request of each proposal's ToolCall
  call,       \* idempotency record of the mutation, and
  ask,        \* of the status tool, whose operation id is fixed per proposal
  job,        \* commerce.action_jobs: status; all but SUBMITTING carry the operation id
  results,    \* the proposals with a row in commerce.action_results
  paid,       \* the orders whose latest observation says PAID
  flow,       \* the workflow of each proposal
  act,        \* the activity attempts
  provider,   \* external: the mutation under the proposal's idempotency key, and
  sent,       \* how often it was submitted
  faults

rows == <<approval, call, ask, job, results, paid>>
external == <<provider, sent>>
vars == <<rows, flow, act, external, faults>>

RecordStates == {"none", "EXECUTING", "SUCCEEDED", "FAILED_PRE_EFFECT", "UNKNOWN", "RECONCILED"}
JobStatuses == {"none", "SUBMITTING", "SUCCEEDED", "FAILED", "OUTCOME_UNKNOWN"}
Dispositions == {"ACCEPTED", "FAILED", "OUTCOME_UNKNOWN"}
Results == {"AWAITING_APPROVAL", "SUCCEEDED", "OUTCOME_UNKNOWN", "FAILED"}
Ended == {"COMPLETED", "FAILED", "EXPIRED", "ERROR"}
Resting == [pc |-> "idle", p |-> Nobody, tool |-> "mutation", answer |-> "none"]

Init ==
  /\ approval = [p \in Proposals |-> "none"]
  /\ call = [p \in Proposals |-> "none"] /\ ask = [p \in Proposals |-> "none"]
  /\ job = [p \in Proposals |-> "none"] /\ results = {} /\ paid = Orders
  /\ flow = [p \in Proposals |->
               [state |-> "none", by |-> Nobody, tries |-> 0, rounds |-> 0, due |-> FALSE]]
  /\ act = [a \in Attempts |-> Resting]
  /\ provider = [p \in Proposals |-> "none"] /\ sent = [p \in Proposals |-> 0]
  /\ faults = 0

-----------------------------------------------------------------------------
(* The request, its approval, and the workflow.                            *)

\* request_action commits the ToolCall with its approval request, and starts the workflow
\* afterwards.  Asked again, it answers with the ToolCall it finds and starts nothing.
RequestAction(p) ==
  /\ approval[p] = "none"
  /\ approval' = [approval EXCEPT ![p] = "PENDING"]
  /\ flow' = [flow EXCEPT ![p].state = "requested"]
  /\ UNCHANGED <<call, ask, job, results, paid, act, external, faults>>

StartAction(p) ==
  /\ flow[p].state = "requested"
  /\ flow' = [flow EXCEPT ![p].state = "submit"]
  /\ UNCHANGED <<rows, act, external, faults>>

StartIsLost(p) ==
  /\ flow[p].state = "requested" /\ faults < MaxFaults
  /\ flow' = [flow EXCEPT ![p].state = "lost"]
  /\ faults' = faults + 1
  /\ UNCHANGED <<rows, act, external>>

\* A human decides; a request that waits expires, and so does an approval, or it is revoked.
Decide(p) ==
  /\ \/ approval[p] = "PENDING"  /\ approval' = [approval EXCEPT ![p] = "APPROVED"]
     \/ approval[p] \in {"PENDING", "APPROVED"} /\ approval' = [approval EXCEPT ![p] = "CLOSED"]
  /\ UNCHANGED <<call, ask, job, results, paid, flow, act, external, faults>>

\* The waiting workflow tries again when it is signalled, when it polls, and at its deadline.
\* Polls that find the approval as it was change nothing and are left out.
DeadlinePasses(p) ==
  /\ flow[p].state = "waiting" /\ ~ flow[p].due
  /\ flow' = [flow EXCEPT ![p].due = TRUE]
  /\ UNCHANGED <<rows, act, external, faults>>

WakeUp(p) ==
  /\ flow[p].state = "waiting" /\ (approval[p] # "PENDING" \/ flow[p].due)
  /\ flow' = [flow EXCEPT ![p].state = "submit"]
  /\ UNCHANGED <<rows, act, external, faults>>

\* A worker takes the activity the workflow waits for.
Dispatch(a, p) ==
  /\ act[a] = Resting
  /\ flow[p].state \in {"submit", "reconcile"} /\ flow[p].by = Nobody
  /\ act' = [act EXCEPT ![a] = IF flow[p].state = "submit"
       THEN [pc |-> "invoke", p |-> p, tool |-> "mutation", answer |-> "none"]
       ELSE [pc |-> "ask", p |-> p, tool |-> "status", answer |-> "none"]]
  /\ flow' = [flow EXCEPT ![p].by = a, ![p].tries = @ + 1]
  /\ UNCHANGED <<rows, external, faults>>

\* The attempt failed: Temporal tries again, or fails the workflow.
Retried(f) == [f EXCEPT !.by = Nobody, !.state = IF f.tries < MaxTries THEN @ ELSE "ERROR"]

Released(a) ==
  [p \in Proposals |-> IF flow[p].by = a THEN Retried(flow[p]) ELSE flow[p]]

\* Mutant: what is still unknown is asked for without an end.
AfterEndlessly(f, result) ==
  [f EXCEPT !.by = Nobody, !.tries = 0,
     !.state = CASE result = "OUTCOME_UNKNOWN" -> "reconcile"
                 [] result = "AWAITING_APPROVAL" -> IF f.due THEN "EXPIRED" ELSE "waiting"
                 [] result = "SUCCEEDED" -> "COMPLETED"
                 [] OTHER -> "FAILED"]

\* What CommerceActionWorkflow.run makes of a result.
After(f, result) ==
  [f EXCEPT !.by = Nobody, !.tries = 0,
     !.rounds = IF result = "OUTCOME_UNKNOWN" /\ @ < MaxRounds THEN @ + 1 ELSE @,
     !.state = CASE result = "AWAITING_APPROVAL" -> IF f.due THEN "EXPIRED" ELSE "waiting"
                 [] result = "OUTCOME_UNKNOWN" -> IF f.rounds < MaxRounds THEN "reconcile" ELSE "EXPIRED"
                 [] result = "SUCCEEDED" -> "COMPLETED"
                 [] OTHER -> "FAILED"]

Return(a) ==
  /\ act[a].pc = "return"
  /\ LET p == act[a].p
     IN  flow' = IF flow[p].by = a THEN [flow EXCEPT ![p] = After(@, act[a].answer)] ELSE flow
  /\ act' = [act EXCEPT ![a] = Resting]
  /\ UNCHANGED <<rows, external, faults>>

Raise(a) ==
  /\ flow' = Released(a)
  /\ act' = [act EXCEPT ![a] = Resting]
  /\ UNCHANGED <<rows, external>>

\* The worker dies, or a transaction that decides nothing fails.
Crash(a) == act[a] # Resting /\ faults < MaxFaults /\ Raise(a) /\ faults' = faults + 1

\* Temporal gives up on an attempt, which goes on; after two the activity's time is over.
TimeOut(p) ==
  /\ flow[p].by # Nobody /\ faults < MaxFaults
  /\ \E f \in {Retried(flow[p]), [flow[p] EXCEPT !.by = Nobody, !.state = "ERROR"]} :
       flow' = [flow EXCEPT ![p] = f]
  /\ faults' = faults + 1
  /\ UNCHANGED <<rows, act, external>>

-----------------------------------------------------------------------------
(* An attempt.                                                             *)

Goes(a, pc)      == act' = [act EXCEPT ![a].pc = pc]
Answers(a, r)    == act' = [act EXCEPT ![a].pc = "return", ![a].answer = r]
Outcome(a, pc, d) == act' = [act EXCEPT ![a].pc = pc, ![a].answer = d]

\* Mutant: an unknown outcome may be attempted again.
MayStartUnknown(state) == state \in {"none", "FAILED_PRE_EFFECT", "UNKNOWN"}

\* The states from which the gateway acquires an attempt.
MayStart(state) == state \in {"none", "FAILED_PRE_EFFECT"}

\* _result of what the gateway answers without executing: an operation in progress is none of
\* the statuses the workflow knows.
Known(state) ==
  CASE state \in {"SUCCEEDED", "RECONCILED"} -> "SUCCEEDED"
    [] state = "UNKNOWN" -> "OUTCOME_UNKNOWN"
    [] OTHER -> "FAILED"

\* gateway.invoke of the mutation.  The approval comes first, whatever the record says.
Invoke(a) ==
  /\ act[a].pc = "invoke"
  /\ LET p == act[a].p
     IN  \/ /\ approval[p] = "APPROVED" /\ MayStart(call[p])
            /\ call' = [call EXCEPT ![p] = "EXECUTING"]
            /\ act' = [act EXCEPT ![a].pc = "prepare", ![a].tool = "mutation"]
         \/ /\ approval[p] # "APPROVED" \/ ~ MayStart(call[p])
            /\ Answers(a, CASE approval[p] = "PENDING" -> "AWAITING_APPROVAL"
                            [] approval[p] = "CLOSED"  -> "FAILED"
                            [] OTHER                   -> Known(call[p]))
            /\ UNCHANGED call
  /\ UNCHANGED <<approval, ask, job, results, paid, flow, external, faults>>

\* The proposal has no result yet, and a refund's order is paid as far as it was observed.
Current(p) == p \notin results /\ (p \in Refunds => OrderOf[p] \in paid)

Prepare(a) ==
  /\ act[a].pc = "prepare"
  /\ IF Current(act[a].p) THEN Goes(a, "begin") ELSE Outcome(a, "complete", "FAILED")
  /\ UNCHANGED <<rows, flow, external, faults>>

Begin(a) ==
  /\ act[a].pc = "begin"
  /\ LET p == act[a].p
     IN  job' = IF job[p] = "none" THEN [job EXCEPT ![p] = "SUBMITTING"] ELSE job
  /\ Goes(a, "send")
  /\ UNCHANGED <<approval, call, ask, results, paid, flow, external, faults>>

\* The first submission under a key decides; a repeated one is answered with what it led to.
Answer(state) ==
  CASE state = "accepted" -> "ACCEPTED"
    [] state = "failed"   -> "FAILED"
    [] OTHER              -> "OUTCOME_UNKNOWN"

Send(a) ==
  /\ act[a].pc = "send"
  /\ LET p == act[a].p
     IN  \E s \in IF provider[p] = "none" THEN {"accepted", "failed", "pending"} ELSE {provider[p]} :
           /\ provider' = [provider EXCEPT ![p] = s]
           /\ sent' = [sent EXCEPT ![p] = @ + 1]
           /\ Outcome(a, "record", Answer(s))
  /\ UNCHANGED <<rows, flow, faults>>

\* No answer, whether or not the submission arrived: every exception of the executor but two
\* is reported as a failure before any effect.
SendRaises(a) ==
  /\ act[a].pc = "send" /\ faults < MaxFaults
  /\ LET p == act[a].p
     IN  \E s \in IF provider[p] = "none" THEN {"none", "accepted", "pending"} ELSE {provider[p]} :
           /\ provider' = [provider EXCEPT ![p] = s]
           /\ sent' = [sent EXCEPT ![p] = @ + 1]
  /\ Outcome(a, "complete", "FAILED")
  /\ faults' = faults + 1
  /\ UNCHANGED <<rows, flow>>

\* The provider decides what it had only taken in.
Settle(p) ==
  /\ provider[p] = "pending"
  /\ \E s \in {"accepted", "failed"} : provider' = [provider EXCEPT ![p] = s]
  /\ UNCHANGED <<rows, flow, act, sent, faults>>

\* Mutant: what the provider took in counts as done.
RecordedEagerly(d) == IF d = "FAILED" THEN d ELSE "SUCCEEDED"

Recorded(d) == IF d = "ACCEPTED" THEN "SUCCEEDED" ELSE d

\* record: the row of a job that was not decided, or a replay; a confirmed mutation also
\* leaves its result and an observation.
Record(a) ==
  /\ act[a].pc = "record"
  /\ LET p == act[a].p
         d == act[a].answer
     IN  /\ job' = IF job[p] \in {"SUBMITTING", "OUTCOME_UNKNOWN"}
                     THEN [job EXCEPT ![p] = Recorded(d)] ELSE job
         /\ results' = IF d = "ACCEPTED" THEN results \cup {p} ELSE results
         /\ paid' = IF d = "ACCEPTED" /\ p \in Refunds THEN paid \ {OrderOf[p]} ELSE paid
  /\ Goes(a, "complete")
  /\ UNCHANGED <<approval, call, ask, flow, external, faults>>

\* The transaction is lost: the executor raises, and this is a failure before any effect too.
RecordFails(a) ==
  /\ act[a].pc = "record" /\ faults < MaxFaults
  /\ Outcome(a, "complete", "FAILED")
  /\ faults' = faults + 1
  /\ UNCHANGED <<rows, flow, external>>

Final(d) ==
  CASE d = "ACCEPTED" -> "SUCCEEDED" [] d = "FAILED" -> "FAILED_PRE_EFFECT" [] OTHER -> "UNKNOWN"

\* The gateway records the outcome and answers; an answer of the status tool that confirms the
\* mutation is acted upon.
Completes(a, d) ==
  LET p == act[a].p
  IN  /\ IF act[a].tool = "mutation" THEN call' = [call EXCEPT ![p] = Final(d)] /\ UNCHANGED ask
                                     ELSE ask' = [ask EXCEPT ![p] = Final(d)] /\ UNCHANGED call
      /\ IF act[a].tool = "status" /\ d = "ACCEPTED" THEN Goes(a, "confirm")
                                                     ELSE Answers(a, Known(Final(d)))
      /\ UNCHANGED <<approval, job, results, paid, flow, external>>

Complete(a) == act[a].pc = "complete" /\ Completes(a, act[a].answer) /\ UNCHANGED faults

\* A success that could not be recorded is unknown.
CompleteFails(a) ==
  /\ act[a].pc = "complete" /\ act[a].answer = "ACCEPTED" /\ faults < MaxFaults
  /\ Completes(a, "OUTCOME_UNKNOWN")
  /\ faults' = faults + 1

-----------------------------------------------------------------------------
(* GovernedCommerceActionExecutor.reconcile.                               *)

AskStatus(a) ==
  /\ act[a].pc = "ask"
  /\ LET p == act[a].p
     IN  IF MayStart(ask[p])
           THEN ask' = [ask EXCEPT ![p] = "EXECUTING"] /\ Goes(a, "operation")
           ELSE /\ IF ask[p] = "SUCCEEDED" THEN Goes(a, "confirm") ELSE Answers(a, Known(ask[p]))
                /\ UNCHANGED ask
  /\ UNCHANGED <<approval, call, job, results, paid, flow, external, faults>>

\* authority.operation: only a job of unknown outcome has an operation to ask for.
FindOperation(a) ==
  /\ act[a].pc = "operation"
  /\ IF job[act[a].p] = "OUTCOME_UNKNOWN" THEN Goes(a, "query") ELSE Outcome(a, "complete", "FAILED")
  /\ UNCHANGED <<rows, flow, external, faults>>

Query(a) ==
  /\ act[a].pc = "query"
  /\ Outcome(a, "record", Answer(provider[act[a].p]))
  /\ UNCHANGED <<rows, flow, external, faults>>

QueryRaises(a) ==
  /\ act[a].pc = "query" /\ faults < MaxFaults
  /\ Outcome(a, "complete", "FAILED")
  /\ faults' = faults + 1
  /\ UNCHANGED <<rows, flow, external>>

\* ReconcileUnknownOutcome, which only an unknown record admits, and the mutation's own answer.
Confirm(a) ==
  /\ act[a].pc = "confirm" /\ call[act[a].p] = "UNKNOWN"
  /\ call' = [call EXCEPT ![act[a].p] = "RECONCILED"]
  /\ Goes(a, "invoke")
  /\ UNCHANGED <<approval, ask, job, results, paid, flow, external, faults>>

ConfirmRaises(a) ==
  /\ act[a].pc = "confirm" /\ call[act[a].p] # "UNKNOWN"
  /\ Raise(a) /\ UNCHANGED faults

-----------------------------------------------------------------------------
\* A sync reads the provider's orders: a refund it applied shows.
Sync(o) ==
  /\ o \in paid /\ \E p \in Refunds : OrderOf[p] = o /\ provider[p] = "accepted"
  /\ paid' = paid \ {o}
  /\ UNCHANGED <<approval, call, ask, job, results, flow, act, external, faults>>

Attempt(a) ==
  \/ Invoke(a) \/ Prepare(a) \/ Begin(a) \/ Send(a) \/ Record(a) \/ Complete(a)
  \/ AskStatus(a) \/ FindOperation(a) \/ Query(a) \/ Confirm(a) \/ ConfirmRaises(a)
  \/ Return(a)

Workflow(p) ==
  StartAction(p) \/ DeadlinePasses(p) \/ WakeUp(p) \/ \E a \in Attempts : Dispatch(a, p)

Fault ==
  \/ \E p \in Proposals : StartIsLost(p) \/ TimeOut(p)
  \/ \E a \in Attempts :
       Crash(a) \/ SendRaises(a) \/ RecordFails(a) \/ CompleteFails(a) \/ QueryRaises(a)

\* Everything has come to rest.
Rest ==
  /\ \A p \in Proposals : flow[p].state \in Ended \cup {"lost"} /\ approval[p] = "CLOSED"
  /\ \A a \in Attempts : act[a] = Resting
  /\ UNCHANGED vars

Next ==
  \/ \E p \in Proposals : RequestAction(p) \/ Decide(p) \/ Workflow(p) \/ Settle(p)
  \/ \E a \in Attempts : Attempt(a)
  \/ \E o \in Orders : Sync(o)
  \/ Fault
  \/ Rest

\* Workers work and Temporal schedules; nobody has to decide, and a provider may keep silent.
Spec == Init /\ [][Next]_vars
FairSpec ==
  /\ Spec
  /\ \A p \in Proposals : WF_vars(Workflow(p))
  /\ \A a \in Attempts : WF_vars(Attempt(a))

-----------------------------------------------------------------------------
(* Types.                                                                  *)

FlowStates == Ended \cup {"none", "requested", "lost", "submit", "waiting", "reconcile"}
Pcs == {"idle", "invoke", "prepare", "begin", "send", "record", "complete", "ask", "operation",
        "query", "confirm", "return"}

TypeOK ==
  /\ approval \in [Proposals -> {"none", "PENDING", "APPROVED", "CLOSED"}]
  /\ call \in [Proposals -> RecordStates] /\ ask \in [Proposals -> RecordStates]
  /\ job \in [Proposals -> JobStatuses]
  /\ results \subseteq Proposals /\ paid \subseteq Orders
  /\ flow \in [Proposals -> [state : FlowStates, by : Attempts \cup {Nobody}, tries : 0..MaxTries,
                             rounds : 0..MaxRounds, due : BOOLEAN]]
  /\ act \in [Attempts -> [pc : Pcs, p : Proposals \cup {Nobody}, tool : {"mutation", "status"},
                           answer : Dispositions \cup Results \cup {"none"}]]
  /\ provider \in [Proposals -> {"none", "pending", "accepted", "failed"}]
  /\ sent \in [Proposals -> Nat] /\ faults \in 0..MaxFaults

-----------------------------------------------------------------------------
(* Properties.                                                             *)

\* What anyone is told is a success, by the workflow, the job, the idempotency record or the
\* result row the API shows, is a mutation the provider accepted, and its result row is there:
\* whatever was lost, repeated or reconciled on the way.
SuccessIsTrue ==
  \A p \in Proposals :
    (\/ flow[p].state = "COMPLETED" \/ job[p] = "SUCCEEDED"
     \/ call[p] \in {"SUCCEEDED", "RECONCILED"} \/ p \in results) =>
      provider[p] = "accepted" /\ p \in results

\* docs/27: a mutation whose job says that it succeeded, or that nobody knows, is not submitted
\* by any retried activity, late attempt or second worker.
RecordedIsNotResubmitted ==
  [][\A p \in Proposals : job[p] \in {"OUTCOME_UNKNOWN", "SUCCEEDED"} => sent'[p] = sent[p]]_vars

\* A workflow that was started ends, with an approval nobody decides and an outcome that stays
\* unknown as well: by its deadline and its bound on reconciliations.
ActionEnds ==
  \A p \in Proposals : flow[p].state = "submit" ~> flow[p].state \in Ended

=============================================================================
