---------------------------- MODULE ToolGateway ----------------------------
(***************************************************************************)
(* The Tool Gateway: the single path by which an agent's tool request      *)
(* becomes an external effect (tool_execution/application.py), with the    *)
(* idempotency records it executes under (execution_control), the          *)
(* approvals it waits for (approval_governance) and the authorization      *)
(* snapshot it verifies.                                                   *)
(*                                                                         *)
(* Committed database rows are the variables call, rec and approval.  An   *)
(* invocation is a process: its coroutine state is inv[p], and each action *)
(* of p is one statement of its transaction, so statements of different    *)
(* transactions interleave as PostgreSQL's READ COMMITTED lets them.       *)
(* Uncommitted writes live in inv[p] until the commit; callLock and        *)
(* recLock are the row (or unique-key) locks the transaction holds.        *)
(***************************************************************************)
EXTENDS Integers, FiniteSets

CONSTANTS
  Procs,        \* concurrent gateway invocations (API requests, worker activities)
  Ops,          \* logical operations: (tenant, tool definition, operation_id)
  Versions,     \* authorization snapshots: agent, tool and permission versions
  Inputs,       \* normalized inputs
  Policy,       \* Policy[v]: the permission engine's decision under snapshot v
  MaxAttempts,  \* bound on the execution attempts of one operation
  None

ASSUME NoneAssumption == None \notin Procs /\ None \notin Ops
ASSUME PolicyAssumption ==
  Policy \in [Versions -> {"ALLOW", "REQUIRES_APPROVAL", "DENY"}]
ASSUME BoundAssumption == MaxAttempts \in Nat

VARIABLES
  active,     \* [version, enabled]: the snapshot the registries would resolve now
  call,       \* tool_calls, by operation
  rec,        \* idempotency_records, by operation
  approval,   \* approval request, decision and revocation rows, by operation
  callLock,   \* transaction holding the tool_calls row or its unique key
  recLock,    \* transaction holding the idempotency_records row or its unique key
  started,    \* attempts begun so far: the next one gets a fresh uuid4
  effects,    \* how many times the provider has applied the operation
  inflight,   \* a request the executor gave up on may still reach the provider
  emitted,    \* outbox events appended for the operation, by kind
  inv         \* the invocations in progress

authVars == <<active, approval>>
lockVars == <<callLock, recLock>>
provider == <<effects, inflight>>
worldVars == <<started, provider, emitted>>
vars == <<call, rec, authVars, lockVars, worldVars, inv>>

-----------------------------------------------------------------------------
(* Rows.                                                                   *)

Digests == Versions \X Inputs
NoDigest == <<>>

CallStatus == {"AWAITING_APPROVAL", "READY", "EXECUTING", "SUCCEEDED",
               "FAILED_PRE_EFFECT", "UNKNOWN_EXTERNAL_OUTCOME"}
ExternalOutcome == {"NOT_STARTED", "CONFIRMED", "UNKNOWN", "RECONCILED"}
NoCall == [status |-> "NONE", digest |-> NoDigest, outcome |-> "NOT_STARTED", attempt |-> 0]

RecordState == {"EXECUTING", "SUCCEEDED", "FAILED_PRE_EFFECT",
                "UNKNOWN_EXTERNAL_OUTCOME", "RECONCILED"}
Reconciliation == {"EFFECT_CONFIRMED", "NO_EFFECT_CONFIRMED"}
NoRecord == [state |-> "NONE", digest |-> NoDigest, count |-> 0, attempt |-> 0,
             reconciled |-> "NONE"]

NoApproval == [requested |-> FALSE, decision |-> "NONE", revoked |-> FALSE, expired |-> FALSE]

EventKind == {"approval.requested", "approval.decided", "approval.revoked",
              "tool.succeeded", "tool.failed", "tool.unknown"}

Results == {"DENIED", "OPERATION_CONFLICT", "AWAITING_APPROVAL", "APPROVAL_INVALID",
            "IN_PROGRESS", "REPLAYED", "BLOCKED_RECONCILIATION", "EXECUTED",
            "RESULT_CONTRACT_INVALID", "FAILED_PRE_EFFECT", "UNKNOWN_OUTCOME",
            "CRITICAL_AMBIGUOUS", "RAISED"}

\* An invocation: its program counter and the values its coroutine holds.
\*   execute  invoke (TRUE) or request (FALSE)
\*   late     the approval had expired when the invocation read its clock
\*   seen     the ToolCall status it read; count the attempt_count it read
\*   attempt  the attempt it owns; target the terminal status it will record
\*   rescue   it is recording UNKNOWN after recording SUCCEEDED raised
Idle == [pc |-> "idle", op |-> None, digest |-> NoDigest, execute |-> TRUE, late |-> FALSE,
         seen |-> "NONE", count |-> 0, attempt |-> 0, target |-> "NONE",
         rescue |-> FALSE, result |-> "NONE"]

At(p, label) == inv[p].pc = label
Becomes(p, next) == inv' = [inv EXCEPT ![p] = next]
Goto(p, label) == Becomes(p, [inv[p] EXCEPT !.pc = label])
Op(p) == inv[p].op
Decision(p) == Policy[inv[p].digest[1]]

\* Leaving the unit of work without a commit rolls back and drops its locks.
Release(lock, p) == [o \in Ops |-> IF lock[o] = p THEN None ELSE lock[o]]
ReleaseLocks(p) == callLock' = Release(callLock, p) /\ recLock' = Release(recLock, p)

Answered(p, result) == [Idle EXCEPT !.pc = "answered", !.op = Op(p), !.result = result]
AnswerWith(p, result) == Becomes(p, Answered(p, result))

Emit(o, kind) == emitted' = [emitted EXCEPT ![o][kind] = @ + 1]

Init ==
  /\ active \in [version : Versions, enabled : {TRUE}]
  /\ call = [o \in Ops |-> NoCall]
  /\ rec = [o \in Ops |-> NoRecord]
  /\ approval = [o \in Ops |-> NoApproval]
  /\ callLock = [o \in Ops |-> None]
  /\ recLock = [o \in Ops |-> None]
  /\ started = [o \in Ops |-> 0]
  /\ effects = [o \in Ops |-> 0]
  /\ inflight = [o \in Ops |-> FALSE]
  /\ emitted = [o \in Ops |-> [k \in EventKind |-> 0]]
  /\ inv = [p \in Procs |-> Idle]

-----------------------------------------------------------------------------
(* Decisions the code takes on the rows it has read.                       *)

\* reservation_outcome: what an existing record means for a new invocation.
ReservationOutcome(r, digest) ==
  IF r.digest # digest THEN "CONFLICT"
  ELSE IF r.state = "EXECUTING" THEN "IN_PROGRESS"
  ELSE IF r.state = "SUCCEEDED" \/ r.reconciled = "EFFECT_CONFIRMED" THEN "REPLAY_SUCCEEDED"
  ELSE IF r.state = "FAILED_PRE_EFFECT" \/ r.reconciled = "NO_EFFECT_CONFIRMED" THEN "RETRY_ALLOWED"
  ELSE "UNKNOWN_REQUIRES_RECONCILIATION"

\* protect_idempotency_transition, for an update of r to EXECUTING with the
\* given attempt_count: the trigger sees the row as last committed.
RecordMayStart(r, count) ==
  /\ \/ r.state = "FAILED_PRE_EFFECT"
     \/ r.state = "RECONCILED" /\ r.reconciled = "NO_EFFECT_CONFIRMED"
  /\ count \in {r.count, r.count + 1}

\* transition_call on the status read, and protect_tool_call on the row updated.
CallMayStart(seen, c) ==
  /\ seen \in {"READY", "AWAITING_APPROVAL", "FAILED_PRE_EFFECT", "UNKNOWN_EXTERNAL_OUTCOME"}
  /\ \/ c.status \in {"NONE", "READY", "AWAITING_APPROVAL", "FAILED_PRE_EFFECT"}
     \/ c.status = "UNKNOWN_EXTERNAL_OUTCOME" /\ c.outcome = "UNKNOWN"

\* Mutant: an approval is looked at before its revocation.
ApprovalBeforeRevocation(a, late) ==
  IF a.decision = "DENY" THEN "DENIED"
  ELSE IF late THEN "EXPIRED"
  ELSE IF a.decision = "APPROVE" THEN "APPROVED"
  ELSE IF a.revoked THEN "REVOKED" ELSE "PENDING"

\* Mutant: any decision counts as an approval.
AnyDecisionApproves(a, late) ==
  IF a.revoked THEN "REVOKED"
  ELSE IF late THEN "EXPIRED"
  ELSE IF a.decision # "NONE" THEN "APPROVED" ELSE "PENDING"

\* effective_approval_state, in its order of precedence.
ApprovalState(a, late) ==
  IF a.revoked THEN "REVOKED"
  ELSE IF a.decision = "DENY" THEN "DENIED"
  ELSE IF late THEN "EXPIRED"
  ELSE IF a.decision = "APPROVE" THEN "APPROVED" ELSE "PENDING"

\* verify_authorization_snapshot: every version the call is bound to is active.
SnapshotActive(digest) == active.enabled /\ digest[1] = active.version

\* The bound: once an operation has had MaxAttempts attempts, it is invoked
\* again only if it is settled, to be replayed.
WithinBound(o) ==
  started[o] < MaxAttempts \/ ReservationOutcome(rec[o], rec[o].digest) = "REPLAY_SUCCEEDED"

-----------------------------------------------------------------------------
(* The transaction that reserves the operation and starts an attempt.      *)

\* _invoke up to _prepare_and_execute: resolve, evaluate the permission, bind
\* the action, read the clock.  Nothing is locked and nothing is written.
Invoke(p, o, i, execute) ==
  /\ At(p, "idle") /\ (active.enabled => WithinBound(o))
  /\ IF active.enabled /\ Policy[active.version] # "DENY"
       THEN Becomes(p, [Idle EXCEPT !.pc = "reserve", !.op = o, !.execute = execute,
                          !.digest = <<active.version, i>>, !.late = approval[o].expired])
       ELSE Becomes(p, [Idle EXCEPT !.pc = "answered", !.op = o, !.result = "DENIED"])
  /\ UNCHANGED <<call, rec, authVars, lockVars, worldVars>>

\* tool_calls.reserve.  An uncommitted insert of the same key makes it wait.
ReserveCanRun(p) == call[Op(p)] # NoCall \/ callLock[Op(p)] = None

\* The first invocation of an operation that needs approval inserts the
\* ToolCall and its approval request, and commits.
RequestApproval(p) ==
  LET o == Op(p) IN
  /\ At(p, "reserve") /\ ReserveCanRun(p) /\ call[o] = NoCall
  /\ Decision(p) = "REQUIRES_APPROVAL"
  /\ call' = [call EXCEPT ![o] = [NoCall EXCEPT !.status = "AWAITING_APPROVAL",
                                                !.digest = inv[p].digest]]
  /\ approval' = [approval EXCEPT ![o].requested = TRUE]
  /\ Emit(o, "approval.requested")
  /\ AnswerWith(p, "AWAITING_APPROVAL")
  /\ UNCHANGED <<active, rec, lockVars, started, provider>>

\* Otherwise the new row stays uncommitted, holding its key.
InsertCall(p) ==
  LET o == Op(p) IN
  /\ At(p, "reserve") /\ ReserveCanRun(p) /\ call[o] = NoCall
  /\ Decision(p) = "ALLOW"
  /\ callLock' = [callLock EXCEPT ![o] = p]
  /\ Becomes(p, [inv[p] EXCEPT !.pc = "verify", !.seen = "READY"])
  /\ UNCHANGED <<call, rec, authVars, recLock, worldVars>>

\* The operation exists: a plain SELECT, no lock.
ReadCall(p) ==
  LET o == Op(p) IN
  /\ At(p, "reserve") /\ call[o] # NoCall
  /\ IF call[o].digest # inv[p].digest
       THEN AnswerWith(p, "OPERATION_CONFLICT")
       ELSE Becomes(p, [inv[p] EXCEPT
              !.pc = IF Decision(p) = "REQUIRES_APPROVAL" THEN "approval" ELSE "verify",
              !.seen = call[o].status])
  /\ UNCHANGED <<call, rec, authVars, lockVars, worldVars>>

\* ApprovalValidator.validate on rows read without a lock.
ValidateApproval(p) ==
  /\ At(p, "approval")
  /\ LET state == ApprovalState(approval[Op(p)], inv[p].late) IN
       CASE state = "APPROVED" -> Goto(p, "verify")
         [] state = "PENDING" -> AnswerWith(p, "AWAITING_APPROVAL")
         [] OTHER -> AnswerWith(p, "APPROVAL_INVALID")
  /\ UNCHANGED <<call, rec, authVars, lockVars, worldVars>>

\* Mutant: a deferred request leaves its transaction open.
VerifySnapshotLeaksTransaction(p) ==
  /\ At(p, "verify")
  /\ IF SnapshotActive(inv[p].digest) /\ inv[p].execute
       THEN Goto(p, "record")
       ELSE AnswerWith(p, IF SnapshotActive(inv[p].digest) THEN "IN_PROGRESS" ELSE "DENIED")
  /\ UNCHANGED <<call, rec, authVars, lockVars, worldVars>>

\* verify_authorization_snapshot, also without a lock; request() stops here
\* and leaves the unit of work uncommitted.
VerifySnapshot(p) ==
  /\ At(p, "verify")
  /\ IF SnapshotActive(inv[p].digest) /\ inv[p].execute
       THEN Goto(p, "record") /\ UNCHANGED lockVars
       ELSE /\ AnswerWith(p, IF SnapshotActive(inv[p].digest) THEN "IN_PROGRESS" ELSE "DENIED")
            /\ ReleaseLocks(p)
  /\ UNCHANGED <<call, rec, authVars, worldVars>>

\* idempotency.reserve inserts the first record of the operation; the same
\* transaction moves its own row to EXECUTING, so no trigger stands in the way.
InsertRecord(p) ==
  LET o == Op(p) IN
  /\ At(p, "record") /\ rec[o] = NoRecord /\ recLock[o] = None
  /\ recLock' = [recLock EXCEPT ![o] = p]
  /\ Becomes(p, [inv[p] EXCEPT !.pc = "start", !.count = 1])
  /\ UNCHANGED <<call, rec, authVars, callLock, worldVars>>

\* Or it finds the record there and reads it, without a lock.
ReadRecord(p) ==
  LET o == Op(p)
      outcome == ReservationOutcome(rec[o], inv[p].digest)
      answer == [CONFLICT |-> "OPERATION_CONFLICT", IN_PROGRESS |-> "IN_PROGRESS",
                 REPLAY_SUCCEEDED |-> "REPLAYED",
                 UNKNOWN_REQUIRES_RECONCILIATION |-> "BLOCKED_RECONCILIATION"]
  IN
  /\ At(p, "record") /\ rec[o] # NoRecord
  /\ \/ /\ outcome = "RETRY_ALLOWED"
        /\ Becomes(p, [inv[p] EXCEPT !.pc = "acquire", !.count = rec[o].count + 1])
        /\ UNCHANGED lockVars
     \/ /\ outcome = "REPLAY_SUCCEEDED"
        /\ inv[p].seen = "UNKNOWN_EXTERNAL_OUTCOME" /\ rec[o].reconciled = "EFFECT_CONFIRMED"
        /\ Goto(p, "replay")
        /\ UNCHANGED lockVars
     \/ /\ outcome # "RETRY_ALLOWED"
        /\ ~(outcome = "REPLAY_SUCCEEDED" /\ inv[p].seen = "UNKNOWN_EXTERNAL_OUTCOME"
             /\ rec[o].reconciled = "EFFECT_CONFIRMED")
        /\ AnswerWith(p, answer[outcome])
        /\ ReleaseLocks(p)
  /\ UNCHANGED <<call, rec, authVars, worldVars>>

\* The ToolCall catches up with a reconciliation that confirmed the effect.
\* Another invocation may have done so first: then the trigger refuses.
ReplayReconciled(p) ==
  LET o == Op(p) IN
  /\ At(p, "replay") /\ callLock[o] = None
  /\ IF call[o].status = "UNKNOWN_EXTERNAL_OUTCOME"
       THEN /\ call' = [call EXCEPT ![o] = [@ EXCEPT !.status = "SUCCEEDED", !.outcome = "RECONCILED"]]
            /\ Emit(o, "tool.succeeded")
            /\ AnswerWith(p, "REPLAYED")
       ELSE AnswerWith(p, "RAISED") /\ UNCHANGED <<call, emitted>>
  /\ UNCHANGED <<rec, authVars, lockVars, started, provider>>

\* begin_attempt on the record read, then the UPDATE: it waits for the row
\* lock, and the trigger judges the row as it is by then.
AcquireAttempt(p) ==
  LET o == Op(p) IN
  /\ At(p, "acquire") /\ recLock[o] = None
  /\ IF RecordMayStart(rec[o], inv[p].count)
       THEN recLock' = [recLock EXCEPT ![o] = p] /\ Goto(p, "start")
       ELSE AnswerWith(p, "RAISED") /\ UNCHANGED recLock
  /\ UNCHANGED <<call, rec, authVars, callLock, worldVars>>

\* tool_calls.update to EXECUTING and the commit of both rows.
CommitExecuting(p) ==
  LET o == Op(p) IN
  /\ At(p, "start") /\ callLock[o] \in {None, p}
  /\ IF CallMayStart(inv[p].seen, call[o])
       THEN /\ started' = [started EXCEPT ![o] = @ + 1]
            /\ rec' = [rec EXCEPT ![o] =
                 [state |-> "EXECUTING", count |-> inv[p].count, attempt |-> started[o] + 1,
                  reconciled |-> "NONE",
                  digest |-> IF rec[o] = NoRecord THEN inv[p].digest ELSE rec[o].digest]]
            /\ call' = [call EXCEPT ![o] =
                 [status |-> "EXECUTING", outcome |-> "NOT_STARTED", attempt |-> started[o] + 1,
                  digest |-> IF call[o] = NoCall THEN inv[p].digest ELSE call[o].digest]]
            /\ Becomes(p, [inv[p] EXCEPT !.pc = "execute", !.attempt = started[o] + 1])
       ELSE AnswerWith(p, "RAISED") /\ UNCHANGED <<started, rec, call>>
  /\ ReleaseLocks(p)
  /\ UNCHANGED <<authVars, provider, emitted>>

-----------------------------------------------------------------------------
(* The executor runs between the two transactions.                         *)

\* The provider applies the effect (external: the executor's contract).
ExternalEffect(p) ==
  /\ At(p, "execute")
  /\ effects' = [effects EXCEPT ![Op(p)] = @ + 1]
  /\ Goto(p, "effected")
  /\ UNCHANGED <<call, rec, authVars, lockVars, started, inflight, emitted>>

\* Mutant: every exception of the executor is taken for a pre-effect failure.
ExecutorOutcomeUnclassified(p, target, late) ==
  /\ \/ At(p, "execute") /\ target = "FAILED_PRE_EFFECT"
     \/ At(p, "effected") /\ target \in {"SUCCEEDED", "FAILED_PRE_EFFECT"} /\ ~late
  /\ inflight' = [inflight EXCEPT ![Op(p)] = late]
  /\ Becomes(p, [inv[p] EXCEPT !.pc = "complete", !.target = target])
  /\ UNCHANGED <<call, rec, authVars, lockVars, started, effects, emitted>>

\* The executor returns, or raises: PreEffectFailure only when the provider was
\* not reached, any other exception whether it was, was not, or may yet be.
ExecutorOutcome(p, target, late) ==
  /\ \/ At(p, "execute") /\ target = "FAILED_PRE_EFFECT" /\ ~late
     \/ At(p, "execute") /\ target = "UNKNOWN_EXTERNAL_OUTCOME"
     \/ At(p, "effected") /\ target \in {"SUCCEEDED", "UNKNOWN_EXTERNAL_OUTCOME"} /\ ~late
  /\ inflight' = [inflight EXCEPT ![Op(p)] = late]
  /\ Becomes(p, [inv[p] EXCEPT !.pc = "complete", !.target = target])
  /\ UNCHANGED <<call, rec, authVars, lockVars, started, effects, emitted>>

\* A request left in flight reaches the provider after all, or is lost.
LateEffect(o, applied) ==
  /\ inflight[o]
  /\ inflight' = [inflight EXCEPT ![o] = FALSE]
  /\ effects' = [effects EXCEPT ![o] = @ + (IF applied THEN 1 ELSE 0)]
  /\ UNCHANGED <<call, rec, authVars, lockVars, started, emitted, inv>>

-----------------------------------------------------------------------------
(* The transaction that records the outcome: _complete.                    *)

CompleteLocksCall(p) ==
  /\ At(p, "complete") /\ callLock[Op(p)] = None
  /\ callLock' = [callLock EXCEPT ![Op(p)] = p]
  /\ Goto(p, "completing")
  /\ UNCHANGED <<call, rec, authVars, recLock, worldVars>>

\* Mutant: the ToolCall status is written as its external outcome.
OutcomeIsStatus(target) == target

OutcomeOf(target) == CASE target = "SUCCEEDED" -> "CONFIRMED"
                       [] target = "FAILED_PRE_EFFECT" -> "NOT_STARTED"
                       [] OTHER -> "UNKNOWN"
EventOf(target) == CASE target = "SUCCEEDED" -> "tool.succeeded"
                     [] target = "FAILED_PRE_EFFECT" -> "tool.failed"
                     [] OTHER -> "tool.unknown"
AnswersOf(target) == CASE target = "SUCCEEDED" -> {"EXECUTED", "RESULT_CONTRACT_INVALID"}
                       [] target = "FAILED_PRE_EFFECT" -> {"FAILED_PRE_EFFECT"}
                       [] OTHER -> {"UNKNOWN_OUTCOME"}

\* Mutant: any attempt may complete, current or not.
AnyAttemptCompletes(p) == inv[p].attempt > 0

\* complete_attempt: only the current attempt may complete.
OwnsAttempt(p) == rec[Op(p)].state = "EXECUTING" /\ rec[Op(p)].attempt = inv[p].attempt

\* Both rows, the audit record and the outbox event commit together.
RecordOutcome(p) ==
  LET o == Op(p) IN
  /\ rec' = [rec EXCEPT ![o] = [@ EXCEPT !.state = inv[p].target, !.attempt = 0]]
  /\ call' = [call EXCEPT ![o] = [@ EXCEPT !.status = inv[p].target, !.attempt = 0,
                                           !.outcome = OutcomeOf(inv[p].target)]]
  /\ Emit(o, EventOf(inv[p].target))

\* Mutant: a success that could not be recorded is recorded as a failure.
CompletionRaisesAsFailure(p) ==
  IF inv[p].target = "SUCCEEDED"
    THEN Becomes(p, [inv[p] EXCEPT !.pc = "complete", !.rescue = TRUE,
                                   !.target = "FAILED_PRE_EFFECT"])
    ELSE AnswerWith(p, IF inv[p].rescue THEN "CRITICAL_AMBIGUOUS" ELSE "RAISED")

\* _complete raised: a SUCCEEDED outcome is recorded again as UNKNOWN, a second
\* failure answers CRITICAL_AMBIGUOUS, anything else propagates.
CompletionRaises(p) ==
  IF inv[p].target = "SUCCEEDED"
    THEN Becomes(p, [inv[p] EXCEPT !.pc = "complete", !.rescue = TRUE,
                                   !.target = "UNKNOWN_EXTERNAL_OUTCOME"])
    ELSE AnswerWith(p, IF inv[p].rescue THEN "CRITICAL_AMBIGUOUS" ELSE "RAISED")

CompleteCommits(p) ==
  /\ At(p, "completing") /\ recLock[Op(p)] = None /\ OwnsAttempt(p)
  /\ RecordOutcome(p)
  /\ \E answer \in AnswersOf(inv[p].target) : AnswerWith(p, answer)
  /\ ReleaseLocks(p)
  /\ UNCHANGED <<authVars, started, provider>>

\* The commit took effect but its acknowledgement was lost.
CompleteCommitsUnseen(p) ==
  /\ At(p, "completing") /\ recLock[Op(p)] = None /\ OwnsAttempt(p)
  /\ RecordOutcome(p)
  /\ CompletionRaises(p)
  /\ ReleaseLocks(p)
  /\ UNCHANGED <<authVars, started, provider>>

\* The transaction failed, or complete_attempt raised StaleExecutionAttempt.
CompleteFails(p) ==
  /\ At(p, "completing")
  /\ CompletionRaises(p)
  /\ ReleaseLocks(p)
  /\ UNCHANGED <<call, rec, authVars, worldVars>>

\* The caller takes its answer; the worker may serve another invocation.
Return(p) ==
  /\ At(p, "answered")
  /\ Becomes(p, Idle)
  /\ UNCHANGED <<call, rec, authVars, lockVars, worldVars>>

\* The process dies, or a statement or the first commit raises: the
\* transaction rolls back, what was committed stays, and a request to the
\* provider may be left in flight.
Crash(p, late) ==
  /\ inv[p].pc \notin {"idle", "answered"}
  /\ late => At(p, "execute")
  /\ Becomes(p, Idle)
  /\ inflight' = [inflight EXCEPT ![Op(p)] = @ \/ late]
  /\ ReleaseLocks(p)
  /\ UNCHANGED <<call, rec, authVars, started, effects, emitted>>

-----------------------------------------------------------------------------
(* People and time.                                                        *)

\* DecideApproval by an authorized owner or admin, once, before revocation and
\* expiry.
Decide(o, decision) ==
  /\ approval[o].requested /\ approval[o].decision = "NONE"
  /\ ~approval[o].revoked /\ ~approval[o].expired
  /\ approval' = [approval EXCEPT ![o].decision = decision]
  /\ Emit(o, "approval.decided")
  /\ UNCHANGED <<active, call, rec, lockVars, started, provider, inv>>

\* RevokeApproval, allowed in every state but revoked.
Revoke(o) ==
  /\ approval[o].requested /\ ~approval[o].revoked
  /\ approval' = [approval EXCEPT ![o].revoked = TRUE]
  /\ Emit(o, "approval.revoked")
  /\ UNCHANGED <<active, call, rec, lockVars, started, provider, inv>>

\* The clock passes the request's expires_at.
Expire(o) ==
  /\ approval[o].requested /\ ~approval[o].expired
  /\ approval' = [approval EXCEPT ![o].expired = TRUE]
  /\ UNCHANGED <<active, call, rec, lockVars, worldVars, inv>>

\* Mutant: an attempt whose process seems gone is reconciled as well.
ReconcileExecuting(o) ==
  /\ rec[o].state \in {"UNKNOWN_EXTERNAL_OUTCOME", "EXECUTING"} /\ recLock[o] = None
  /\ ~inflight[o]
  /\ rec' = [rec EXCEPT ![o] = [@ EXCEPT
               !.state = "RECONCILED", !.attempt = 0,
               !.reconciled = IF effects[o] > 0 THEN "EFFECT_CONFIRMED" ELSE "NO_EFFECT_CONFIRMED"]]
  /\ UNCHANGED <<call, authVars, lockVars, worldVars, inv>>

\* ReconcileUnknownOutcome, by someone who has established what the provider
\* did for good.  Only the record changes; the ToolCall follows at the next
\* invocation.
Reconcile(o) ==
  /\ rec[o].state = "UNKNOWN_EXTERNAL_OUTCOME" /\ recLock[o] = None
  /\ ~inflight[o]
  /\ rec' = [rec EXCEPT ![o] = [@ EXCEPT
               !.state = "RECONCILED",
               !.reconciled = IF effects[o] > 0 THEN "EFFECT_CONFIRMED" ELSE "NO_EFFECT_CONFIRMED"]]
  /\ UNCHANGED <<call, authVars, lockVars, worldVars, inv>>

\* Another version of the agent, tool or permission is activated.
Activate(v) ==
  /\ active.enabled /\ active.version # v
  /\ active' = [active EXCEPT !.version = v]
  /\ UNCHANGED <<call, rec, approval, lockVars, worldVars, inv>>

\* The permission (agent, tool) is disabled or archived, for good.
Disable ==
  /\ active.enabled
  /\ active' = [active EXCEPT !.enabled = FALSE]
  /\ UNCHANGED <<call, rec, approval, lockVars, worldVars, inv>>

-----------------------------------------------------------------------------
\* What an invocation does once it has begun.
Proceed(p) ==
  \/ RequestApproval(p) \/ InsertCall(p) \/ ReadCall(p)
  \/ ValidateApproval(p) \/ VerifySnapshot(p)
  \/ InsertRecord(p) \/ ReadRecord(p) \/ ReplayReconciled(p)
  \/ AcquireAttempt(p) \/ CommitExecuting(p)
  \/ ExternalEffect(p)
  \/ \E target \in {"SUCCEEDED", "FAILED_PRE_EFFECT", "UNKNOWN_EXTERNAL_OUTCOME"},
        late \in BOOLEAN : ExecutorOutcome(p, target, late)
  \/ CompleteLocksCall(p) \/ CompleteCommits(p) \/ CompleteCommitsUnseen(p) \/ CompleteFails(p)
  \/ Return(p)

Environment ==
  \/ \E o \in Ops :
       \/ \E decision \in {"APPROVE", "DENY"} : Decide(o, decision)
       \/ Revoke(o) \/ Expire(o) \/ Reconcile(o)
       \/ \E applied \in BOOLEAN : LateEffect(o, applied)
  \/ \E v \in Versions : Activate(v)
  \/ Disable

Next ==
  \/ \E p \in Procs :
       \/ \E o \in Ops, i \in Inputs, execute \in BOOLEAN : Invoke(p, o, i, execute)
       \/ Proceed(p)
       \/ \E late \in BOOLEAN : Crash(p, late)
  \/ Environment

Spec == Init /\ [][Next]_vars

-----------------------------------------------------------------------------
(* Scheduling.  A worker keeps running what it has begun (asyncio); it may    *)
(* crash at any time, and nothing makes people or new invocations act.     *)
(* Fairness is strong because PostgreSQL queues the waiters of a lock: one *)
(* whose turn keeps coming is not passed over for ever.                    *)
FairSpec == Spec /\ \A p \in Procs : SF_vars(Proceed(p))

-----------------------------------------------------------------------------
(* Types.                                                                  *)

CallRow == [status : CallStatus \cup {"NONE"}, digest : Digests \cup {NoDigest},
            outcome : ExternalOutcome, attempt : Nat]
RecordRow == [state : RecordState \cup {"NONE"}, digest : Digests \cup {NoDigest},
              count : Nat, attempt : Nat, reconciled : Reconciliation \cup {"NONE"}]
ApprovalRow == [requested : BOOLEAN, decision : {"NONE", "APPROVE", "DENY"},
                revoked : BOOLEAN, expired : BOOLEAN]
Labels == {"idle", "reserve", "approval", "verify", "record", "acquire", "start", "replay",
           "execute", "effected", "complete", "completing", "answered"}
Targets == {"NONE", "SUCCEEDED", "FAILED_PRE_EFFECT", "UNKNOWN_EXTERNAL_OUTCOME"}
Invocation == [pc : Labels, op : Ops \cup {None}, digest : Digests \cup {NoDigest},
               execute : BOOLEAN, late : BOOLEAN, seen : CallStatus \cup {"NONE"},
               count : Nat, attempt : Nat, target : Targets, rescue : BOOLEAN,
               result : Results \cup {"NONE"}]

\* An invocation under way names its operation and its binding, and one that
\* records an outcome knows which.
Bound(i) == /\ i.pc # "idle" => i.op \in Ops
            /\ i.pc \notin {"idle", "answered"} => i.digest \in Digests
            /\ i.pc \in {"complete", "completing"} => i.target # "NONE"

\* Every variable has its type, and an invocation under way names the
\* operation, the binding and the outcome it works on.
TypeOK ==
  /\ active \in [version : Versions, enabled : BOOLEAN]
  /\ call \in [Ops -> CallRow]
  /\ rec \in [Ops -> RecordRow]
  /\ approval \in [Ops -> ApprovalRow]
  /\ callLock \in [Ops -> Procs \cup {None}]
  /\ recLock \in [Ops -> Procs \cup {None}]
  /\ started \in [Ops -> Nat]
  /\ effects \in [Ops -> Nat]
  /\ inflight \in [Ops -> BOOLEAN]
  /\ emitted \in [Ops -> [EventKind -> Nat]]
  /\ inv \in [Procs -> Invocation]
  /\ \A p \in Procs : Bound(inv[p])

-----------------------------------------------------------------------------
(* Safety.                                                                 *)

\* The provider never applies an operation twice, whatever retries, races,
\* crashes, lost acknowledgements and reconciliations it went through
\* (ADR-012, ADR-020).
AtMostOneEffect == \A o \in Ops : effects[o] <= 1

\* What the durable rows and the callers say of the effect is true: success
\* is recorded, confirmed or answered only if it happened, and absence is
\* recorded only if it did not and cannot any more.
AnsweredSuccess(p) ==
  At(p, "answered") /\ inv[p].result \in {"EXECUTED", "RESULT_CONTRACT_INVALID", "REPLAYED"}
OutcomesAreTrue ==
  /\ \A o \in Ops :
       /\ rec[o].state = "SUCCEEDED" \/ rec[o].reconciled = "EFFECT_CONFIRMED" => effects[o] = 1
       /\ rec[o].state \in {"NONE", "FAILED_PRE_EFFECT"} \/ rec[o].reconciled = "NO_EFFECT_CONFIRMED"
            => effects[o] = 0 /\ ~inflight[o]
  /\ \A p \in Procs : AnsweredSuccess(p) => effects[Op(p)] = 1

\* No attempt runs, and no effect is applied, without the policy the operation
\* is bound to allowing it and, where that policy requires approval, a human
\* having approved it.
OnlyGovernedEffects ==
  \A o \in Ops :
    started[o] > 0 \/ effects[o] > 0 \/ inflight[o] =>
      \/ Policy[call[o].digest[1]] = "ALLOW"
      \/ Policy[call[o].digest[1]] = "REQUIRES_APPROVAL" /\ approval[o].decision = "APPROVE"

-----------------------------------------------------------------------------
(* What a step may never do.                                               *)

\* An attempt whose process is gone keeps its operation blocked: no lease
\* expiry, retry or reconciliation takes it over (ADR-012, ADR-022).
Attempting(p) == inv[p].pc \in {"execute", "effected", "complete", "completing"}
Owned(o) == \E p \in Procs : Op(p) = o /\ inv[p].attempt = rec[o].attempt /\ Attempting(p)
OrphanStaysBlocked ==
  [][\A o \in Ops : rec[o].state = "EXECUTING" /\ ~Owned(o)
       => rec'[o] = rec[o] /\ call'[o] = call[o]]_vars

\* Once an approval is denied or revoked and no invocation is already past
\* reading it, the operation never starts (again).
Closed(o) ==
  /\ approval[o].revoked \/ approval[o].decision = "DENY"
  /\ \A p \in Procs : Op(p) = o => inv[p].pc \notin {"verify", "record", "acquire", "start"}
RefusalIsFinal == [][\A o \in Ops : Closed(o) => Closed(o)' /\ started'[o] = started[o]]_vars

-----------------------------------------------------------------------------
(* Why effects are not repeated: what the rows and each invocation know of  *)
(* the provider, strong enough to be preserved by every step.              *)

Startable(r) == \/ r.state \in {"NONE", "FAILED_PRE_EFFECT"}
                \/ r.state = "RECONCILED" /\ r.reconciled = "NO_EFFECT_CONFIRMED"
Settled(r) == \/ r.state = "SUCCEEDED"
              \/ r.state = "RECONCILED" /\ r.reconciled = "EFFECT_CONFIRMED"

\* What the committed record of an operation implies.
RecordKnows(o) ==
  /\ rec[o].state = "RECONCILED" <=> rec[o].reconciled # "NONE"
  /\ Startable(rec[o]) => effects[o] = 0 /\ ~inflight[o]
  /\ Settled(rec[o]) => effects[o] = 1 /\ ~inflight[o]
  /\ inflight[o] => effects[o] = 0
  /\ effects[o] <= 1

\* What an invocation's progress implies.  One that has lost the
\* acknowledgement of its success is bound to fail recording it as UNKNOWN.
InvocationKnows(p) ==
  LET o == Op(p)
      target == inv[p].target
      recording == At(p, "complete") \/ At(p, "completing")
  IN
  /\ At(p, "start") => recLock[o] = p /\ Startable(rec[o])
  /\ At(p, "execute") => rec[o].state = "EXECUTING" /\ effects[o] = 0 /\ ~inflight[o]
  /\ At(p, "effected") => rec[o].state = "EXECUTING" /\ effects[o] = 1 /\ ~inflight[o]
  /\ recording => \/ rec[o].state = "EXECUTING"
                  \/ rec[o].state = "SUCCEEDED" /\ target = "UNKNOWN_EXTERNAL_OUTCOME"
  /\ recording /\ target = "SUCCEEDED" => effects[o] = 1 /\ ~inflight[o]
  /\ recording /\ target = "FAILED_PRE_EFFECT" => effects[o] = 0 /\ ~inflight[o]
  /\ At(p, "replay") => effects[o] = 1
  /\ AnsweredSuccess(p) => effects[o] = 1

\* At most one invocation is in an attempt of an operation, whatever its row says.
OneAttempt ==
  \A p, q \in Procs : Attempting(p) /\ Attempting(q) /\ Op(p) = Op(q) => p = q

\* The inductive invariant behind AtMostOneEffect, OutcomesAreTrue and
\* ImplementsEffectOnce: an attempt starts only under the record's lock on an
\* operation that has had no effect and has none under way, and it is alone
\* until its outcome is recorded (ADR-022's two-transaction protocol).
KnowledgeIsSound ==
  /\ \A o \in Ops : RecordKnows(o)
  /\ \A p \in Procs : InvocationKnows(p)
  /\ OneAttempt

-----------------------------------------------------------------------------
(* Refinement and liveness.                                                *)

Phase(r) ==
  CASE r.state = "EXECUTING" -> "attempting"
    [] r.state = "UNKNOWN_EXTERNAL_OUTCOME" -> "unknown"
    [] r.state = "SUCCEEDED" \/ r.reconciled = "EFFECT_CONFIRMED" -> "settled"
    [] OTHER -> "open"

Abstract == INSTANCE EffectOnce
  WITH phase <- [o \in Ops |-> Phase(rec[o])], applied <- effects

\* The gateway implements the at-most-once operation of EffectOnce.
ImplementsEffectOnce == Abstract!Spec

\* Every invocation ends: it answers, raises, or its process dies.  No wait on
\* a row lock or on another's uncommitted insert lasts for ever.
InvocationEnds == \A p \in Procs : ~At(p, "idle") ~> At(p, "idle")

=============================================================================
