------------------------- MODULE ToolGatewayProofs --------------------------
(***************************************************************************)
(* Theorems about ToolGateway, for every set of invocations, operations,   *)
(* versions and inputs, every policy and every bound on attempts: its types; *)
(* an operation's effect is applied at most once, and what its rows and its *)
(* answers say of it is true (KnowledgeIsSound is the inductive invariant); *)
(* nothing is applied without policy and approval, an orphaned attempt stays *)
(* blocked and nothing starts that was refused (Governance is the invariant); *)
(* and the gateway implements EffectOnce.                                  *)
(***************************************************************************)
EXTENDS ToolGateway, TLAPS

-----------------------------------------------------------------------------
(* Type correctness.                                                       *)

\* The initial states are well typed.
LEMMA InitTypeOK == Init => TypeOK
<1> SUFFICES ASSUME Init PROVE TypeOK
  OBVIOUS
<1>1. NoCall \in CallRow /\ NoRecord \in RecordRow /\ NoApproval \in ApprovalRow
  BY DEF NoCall, NoRecord, NoApproval, CallRow, RecordRow, ApprovalRow, ExternalOutcome
<1>2. Idle \in Invocation /\ Bound(Idle)
  BY DEF Idle, Invocation, Labels, Targets, Bound
<1>3. active \in [version : Versions, enabled : BOOLEAN]
  BY DEF Init
<1> QED
  BY <1>1, <1>2, <1>3 DEF Init, TypeOK

\* Releasing a transaction's locks leaves every other lock as it is.
LEMMA ReleaseType ==
  ASSUME NEW lock \in [Ops -> Procs \cup {None}], NEW p
  PROVE  Release(lock, p) \in [Ops -> Procs \cup {None}]
  BY DEF Release

\* A lock is taken by a process.
LEMMA TakeType ==
  ASSUME NEW lock \in [Ops -> Procs \cup {None}], NEW p \in Procs, NEW o
  PROVE  [lock EXCEPT ![o] = p] \in [Ops -> Procs \cup {None}]
  OBVIOUS

\* A step of one invocation keeps all of them well typed.
Typed(i) == i \in Invocation /\ Bound(i)
InvTyped == inv \in [Procs -> Invocation] /\ \A p \in Procs : Bound(inv[p])
LEMMA BecomesType ==
  ASSUME InvTyped, NEW p \in Procs, NEW r, Typed(r), Becomes(p, r)
  PROVE  InvTyped'
  BY DEF InvTyped, Becomes, Typed

\* An invocation that moves on keeps its operation and its binding.
LEMMA MoveType ==
  ASSUME NEW i, Typed(i), i.pc \notin {"idle", "answered"},
         NEW l \in Labels \ {"complete", "completing"},
         NEW s \in CallStatus \cup {"NONE"}, NEW n \in Nat
  PROVE  /\ Typed([i EXCEPT !.pc = l])
         /\ Typed([i EXCEPT !.pc = l, !.seen = s])
         /\ Typed([i EXCEPT !.pc = l, !.count = n])
         /\ Typed([i EXCEPT !.pc = l, !.attempt = n])
<1>1. Typed([i EXCEPT !.pc = l])
  BY DEF Typed, Invocation, Bound
<1>2. Typed([i EXCEPT !.pc = l, !.seen = s])
  BY DEF Typed, Invocation, Bound
<1>3. Typed([i EXCEPT !.pc = l, !.count = n])
  BY DEF Typed, Invocation, Bound
<1>4. Typed([i EXCEPT !.pc = l, !.attempt = n])
  BY DEF Typed, Invocation, Bound
<1> QED
  BY <1>1, <1>2, <1>3, <1>4

\* Likewise one that records an outcome, which it knows.
LEMMA SettleType ==
  ASSUME NEW i, Typed(i), i.pc \notin {"idle", "answered"}, NEW t \in Targets, t # "NONE"
  PROVE  /\ Typed([i EXCEPT !.pc = "complete", !.target = t])
         /\ Typed([i EXCEPT !.pc = "complete", !.rescue = TRUE, !.target = t])
         /\ i.pc = "complete" => Typed([i EXCEPT !.pc = "completing"])
<1>0. "complete" \in Labels /\ "completing" \in Labels
  BY DEF Labels
<1>1. Typed([i EXCEPT !.pc = "complete", !.target = t])
  BY <1>0 DEF Typed, Invocation, Bound
<1>2. Typed([i EXCEPT !.pc = "complete", !.rescue = TRUE, !.target = t])
  BY <1>0 DEF Typed, Invocation, Bound
<1>3. i.pc = "complete" => Typed([i EXCEPT !.pc = "completing"])
  BY <1>0 DEF Typed, Invocation, Bound
<1> QED
  BY <1>1, <1>2, <1>3

LEMMA GotoType ==
  ASSUME InvTyped, NEW p \in Procs, inv[p].pc \notin {"idle", "answered"},
         NEW l \in Labels \ {"complete", "completing"}, Goto(p, l)
  PROVE  InvTyped'
<1>1. Typed(inv[p])
  BY DEF InvTyped, Typed
<1>2. Typed([inv[p] EXCEPT !.pc = l])
  BY <1>1, MoveType DEF CallStatus
<1> QED
  BY <1>2, BecomesType DEF Goto

LEMMA AnswerType ==
  ASSUME InvTyped, NEW p \in Procs, inv[p].pc # "idle", NEW result \in Results, AnswerWith(p, result)
  PROVE  InvTyped'
<1>1. inv[p].op \in Ops
  BY DEF InvTyped, Bound
<1>2. Typed(Answered(p, result))
  BY <1>1 DEF Answered, Idle, Op, Invocation, Labels, Targets, Bound, Typed
<1> QED
  BY <1>2, BecomesType DEF AnswerWith

LEMMA EmitType ==
  ASSUME emitted \in [Ops -> [EventKind -> Nat]], NEW o \in Ops, NEW k \in EventKind, Emit(o, k)
  PROVE  emitted' \in [Ops -> [EventKind -> Nat]]
  BY DEF Emit

\* Replacing an operation's row by a well typed one.
LEMMA RowType ==
  ASSUME NEW S, NEW f \in [Ops -> S], NEW o, NEW r \in S
  PROVE  [f EXCEPT ![o] = r] \in [Ops -> S]
  OBVIOUS

\* The rest of TypeOK.
RestTyped ==
  /\ active \in [version : Versions, enabled : BOOLEAN]
  /\ call \in [Ops -> CallRow]
  /\ rec \in [Ops -> RecordRow]
  /\ approval \in [Ops -> ApprovalRow]
  /\ callLock \in [Ops -> Procs \cup {None}]
  /\ recLock \in [Ops -> Procs \cup {None}]
  /\ started \in [Ops -> Nat]
  /\ effects \in [Ops -> Nat]
  /\ inflight \in [Ops -> BOOLEAN]
  /\ emitted \in [Ops -> [EventKind -> Nat]]

LEMMA TypeParts == TypeOK <=> InvTyped /\ RestTyped
  BY DEF TypeOK, InvTyped, RestTyped

\* A transaction that ends releases its locks.
LEMMA ReleaseLocksType ==
  ASSUME RestTyped, NEW p, ReleaseLocks(p)
  PROVE  callLock' \in [Ops -> Procs \cup {None}] /\ recLock' \in [Ops -> Procs \cup {None}]
<1>1. callLock \in [Ops -> Procs \cup {None}] /\ recLock \in [Ops -> Procs \cup {None}]
  BY DEF RestTyped
<1> QED
  BY <1>1, ReleaseType DEF ReleaseLocks

\* The answers and events of an outcome, and the rows that record it.
LEMMA OutcomeType ==
  ASSUME RestTyped, NEW p \in Procs, Op(p) \in Ops, inv[p].target \in Targets \ {"NONE"}, RecordOutcome(p)
  PROVE  /\ rec' \in [Ops -> RecordRow] /\ call' \in [Ops -> CallRow]
         /\ emitted' \in [Ops -> [EventKind -> Nat]]
<1> DEFINE o == Op(p)
           t == inv[p].target
           r == [rec[o] EXCEPT !.state = t, !.attempt = 0]
           c == [call[o] EXCEPT !.status = t, !.attempt = 0, !.outcome = OutcomeOf(t)]
<1>1. rec \in [Ops -> RecordRow] /\ call \in [Ops -> CallRow] /\ rec[o] \in RecordRow /\ call[o] \in CallRow
  BY DEF RestTyped
<1>2. OutcomeOf(t) \in ExternalOutcome /\ EventOf(t) \in EventKind
  BY DEF OutcomeOf, EventOf, ExternalOutcome, EventKind
<1>3. r \in RecordRow
  BY <1>1 DEF Targets, RecordRow, RecordState
<1>4. c \in CallRow
  BY <1>1, <1>2 DEF Targets, CallRow, CallStatus
<1>5. rec' = [rec EXCEPT ![o] = r] /\ call' = [call EXCEPT ![o] = c] /\ Emit(o, EventOf(t))
  BY DEF RecordOutcome
<1>6. emitted \in [Ops -> [EventKind -> Nat]]
  BY DEF RestTyped
<1>7. rec' \in [Ops -> RecordRow]
  BY <1>1, <1>3, <1>5, RowType
<1>8. call' \in [Ops -> CallRow]
  BY <1>1, <1>4, <1>5, RowType
<1> QED
  BY <1>2, <1>5, <1>6, <1>7, <1>8, EmitType

\* What follows when recording an outcome raises.
LEMMA RaisesType ==
  ASSUME InvTyped, NEW p \in Procs, At(p, "completing"), CompletionRaises(p)
  PROVE  InvTyped'
<1> DEFINE r == [inv[p] EXCEPT !.pc = "complete", !.rescue = TRUE, !.target = "UNKNOWN_EXTERNAL_OUTCOME"]
<1>1. Typed(inv[p]) /\ inv[p].pc = "completing"
  BY DEF InvTyped, Typed, At
<1>2. Typed(r)
  BY <1>1, SettleType DEF Targets
<1>3. Becomes(p, r) => InvTyped'
  BY <1>2, BecomesType
<1>4. AnswerWith(p, "CRITICAL_AMBIGUOUS") \/ AnswerWith(p, "RAISED") => InvTyped'
  BY <1>1, AnswerType DEF Results
<1> QED
  BY <1>3, <1>4 DEF CompletionRaises

\* Every step keeps the invocations well typed.
LEMMA StepInvTyped == InvTyped /\ RestTyped /\ [Next]_vars => InvTyped'
<1> SUFFICES ASSUME InvTyped, RestTyped, [Next]_vars PROVE InvTyped'
  OBVIOUS
<1>a. ASSUME NEW p \in Procs, inv[p].pc \notin {"idle", "answered"}
      PROVE  Op(p) \in Ops /\ Typed(inv[p]) /\ inv[p].digest \in Digests
  BY <1>a DEF InvTyped, Op, Bound, Typed
<1>b. ASSUME NEW p \in Procs, Becomes(p, Idle) PROVE InvTyped'
  <2>1. Typed(Idle)
    BY DEF Idle, Invocation, Labels, Targets, Bound, Typed
  <2> QED
    BY <1>b, <2>1, BecomesType
<1>1. ASSUME NEW p \in Procs, NEW o \in Ops, NEW i \in Inputs, NEW e \in BOOLEAN, Invoke(p, o, i, e)
      PROVE  InvTyped'
  <2> DEFINE a == [Idle EXCEPT !.pc = "answered", !.op = o, !.result = "DENIED"]
             r == [Idle EXCEPT !.pc = "reserve", !.op = o, !.execute = e,
                     !.digest = <<active.version, i>>, !.late = approval[o].expired]
  <2>1. Typed(a)
    BY DEF Idle, Invocation, Labels, Targets, Results, Bound, Typed
  <2>2. active.version \in Versions /\ approval[o].expired \in BOOLEAN
    BY DEF RestTyped, ApprovalRow
  <2>3. Typed(r)
    BY <2>2 DEF Idle, Invocation, Labels, Targets, Bound, Digests, Typed
  <2>4. Becomes(p, a) \/ Becomes(p, r)
    BY <1>1 DEF Invoke
  <2> QED
    BY <2>1, <2>3, <2>4, BecomesType
<1>2. ASSUME NEW p \in Procs, RequestApproval(p) PROVE InvTyped'
  BY <1>2, AnswerType DEF RequestApproval, Results, At
<1>3. ASSUME NEW p \in Procs, InsertCall(p) PROVE InvTyped'
  <2> DEFINE r == [inv[p] EXCEPT !.pc = "verify", !.seen = "READY"]
  <2>1. Typed(r)
    BY <1>3, <1>a, MoveType DEF InsertCall, Labels, CallStatus, At
  <2> QED
    BY <1>3, <2>1, BecomesType DEF InsertCall
<1>4. ASSUME NEW p \in Procs, ReadCall(p) PROVE InvTyped'
  <2> DEFINE l == IF Decision(p) = "REQUIRES_APPROVAL" THEN "approval" ELSE "verify"
             r == [inv[p] EXCEPT !.pc = l, !.seen = call[Op(p)].status]
  <2>1. inv[p].pc = "reserve" /\ (AnswerWith(p, "OPERATION_CONFLICT") \/ Becomes(p, r))
    BY <1>4 DEF ReadCall, At
  <2>2. call[Op(p)].status \in CallStatus \cup {"NONE"} /\ l \in Labels \ {"complete", "completing"}
    BY <2>1, <1>a DEF RestTyped, CallRow, Labels
  <2>3. Typed(r)
    BY <2>1, <2>2, <1>a, MoveType
  <2> QED
    BY <2>1, <2>3, BecomesType, AnswerType DEF Results
<1>5. ASSUME NEW p \in Procs, ValidateApproval(p) PROVE InvTyped'
  BY <1>5, GotoType, AnswerType DEF ValidateApproval, Results, Labels, At
<1>6. ASSUME NEW p \in Procs, VerifySnapshot(p) PROVE InvTyped'
  BY <1>6, GotoType, AnswerType DEF VerifySnapshot, Results, Labels, At
<1>7. ASSUME NEW p \in Procs, InsertRecord(p) PROVE InvTyped'
  <2> DEFINE r == [inv[p] EXCEPT !.pc = "start", !.count = 1]
  <2>1. Typed(r)
    BY <1>7, <1>a, MoveType DEF InsertRecord, Labels, CallStatus, At
  <2> QED
    BY <1>7, <2>1, BecomesType DEF InsertRecord
<1>8. ASSUME NEW p \in Procs, ReadRecord(p) PROVE InvTyped'
  <2> DEFINE n == rec[Op(p)].count + 1
             r == [inv[p] EXCEPT !.pc = "acquire", !.count = n]
  <2>1. inv[p].pc = "record"
    BY <1>8 DEF ReadRecord, At
  <2>2. n \in Nat /\ "acquire" \in Labels /\ "NONE" \in CallStatus \cup {"NONE"}
    BY <2>1, <1>a DEF RestTyped, RecordRow, Labels
  <2>3. Typed(r)
    BY <2>1, <2>2, <1>a, MoveType
  <2>4. ReservationOutcome(rec[Op(p)], inv[p].digest) \in
          {"CONFLICT", "IN_PROGRESS", "REPLAY_SUCCEEDED", "RETRY_ALLOWED", "UNKNOWN_REQUIRES_RECONCILIATION"}
    BY DEF ReservationOutcome
  <2>5. Becomes(p, r) \/ Goto(p, "replay") \/ \E x \in Results : AnswerWith(p, x)
    BY <1>8, <2>4 DEF ReadRecord, Results
  <2>6. "replay" \in Labels
    BY DEF Labels
  <2> QED
    BY <2>1, <2>3, <2>5, <2>6, BecomesType, GotoType, AnswerType
<1>9. ASSUME NEW p \in Procs, ReplayReconciled(p) PROVE InvTyped'
  BY <1>9, AnswerType DEF ReplayReconciled, Results, At
<1>10. ASSUME NEW p \in Procs, AcquireAttempt(p) PROVE InvTyped'
  BY <1>10, GotoType, AnswerType DEF AcquireAttempt, Results, Labels, At
<1>11. ASSUME NEW p \in Procs, CommitExecuting(p) PROVE InvTyped'
  <2> DEFINE n == started[Op(p)] + 1
             r == [inv[p] EXCEPT !.pc = "execute", !.attempt = n]
  <2>1. inv[p].pc = "start" /\ (Becomes(p, r) \/ AnswerWith(p, "RAISED"))
    BY <1>11 DEF CommitExecuting, At
  <2>2. n \in Nat /\ "execute" \in Labels /\ "NONE" \in CallStatus \cup {"NONE"}
    BY <2>1, <1>a DEF RestTyped, Labels
  <2>3. Typed(r)
    BY <2>1, <2>2, <1>a, MoveType
  <2> QED
    BY <2>1, <2>3, BecomesType, AnswerType DEF Results
<1>12. ASSUME NEW p \in Procs, ExternalEffect(p) PROVE InvTyped'
  BY <1>12, GotoType DEF ExternalEffect, Labels, At
<1>13. ASSUME NEW p \in Procs, NEW t \in Targets, NEW late \in BOOLEAN, ExecutorOutcome(p, t, late)
       PROVE  InvTyped'
  <2> DEFINE r == [inv[p] EXCEPT !.pc = "complete", !.target = t]
  <2>1. Typed(r)
    BY <1>13, <1>a, SettleType DEF ExecutorOutcome, At
  <2> QED
    BY <1>13, <2>1, BecomesType DEF ExecutorOutcome
<1>14. ASSUME NEW p \in Procs, CompleteLocksCall(p) PROVE InvTyped'
  <2>1. inv[p].pc = "complete" /\ Goto(p, "completing")
    BY <1>14 DEF CompleteLocksCall, At
  <2>2. Typed([inv[p] EXCEPT !.pc = "completing"])
    BY <2>1, <1>a, SettleType DEF Targets
  <2> QED
    BY <2>1, <2>2, BecomesType DEF Goto
<1>15. ASSUME NEW p \in Procs, CompleteCommits(p) PROVE InvTyped'
  BY <1>15, AnswerType DEF CompleteCommits, AnswersOf, Results, At
<1>16. ASSUME NEW p \in Procs, CompleteCommitsUnseen(p) \/ CompleteFails(p) PROVE InvTyped'
  BY <1>16, RaisesType DEF CompleteCommitsUnseen, CompleteFails
<1>17. ASSUME NEW p \in Procs, Return(p) \/ Crash(p, TRUE) \/ Crash(p, FALSE) PROVE InvTyped'
  BY <1>17, <1>b DEF Return, Crash
<1>18. ASSUME UNCHANGED inv PROVE InvTyped'
  BY <1>18 DEF InvTyped
<1>19. CASE Environment
  BY <1>19, <1>18 DEF Environment, Decide, Revoke, Expire, Reconcile, LateEffect, Activate, Disable
<1>20. CASE UNCHANGED vars
  BY <1>20, <1>18 DEF vars
<1> QED
  BY <1>1, <1>2, <1>3, <1>4, <1>5, <1>6, <1>7, <1>8, <1>9, <1>10, <1>11, <1>12, <1>13, <1>14,
     <1>15, <1>16, <1>17, <1>19, <1>20 DEF Next, Proceed, Targets

\* Every step keeps the rows, locks and counters well typed.
LEMMA StepRestTyped == InvTyped /\ RestTyped /\ [Next]_vars => RestTyped'
<1> SUFFICES ASSUME InvTyped, RestTyped, [Next]_vars PROVE RestTyped'
  OBVIOUS
<1>a. ASSUME NEW p \in Procs, inv[p].pc \notin {"idle", "answered"}
      PROVE  Op(p) \in Ops /\ inv[p] \in Invocation /\ inv[p].digest \in Digests
  BY <1>a DEF InvTyped, Op, Bound
<1>b. ASSUME UNCHANGED <<call, rec, authVars, lockVars, worldVars>> PROVE RestTyped'
  BY <1>b DEF RestTyped, authVars, lockVars, provider, worldVars
<1>c. ASSUME NEW p, ReleaseLocks(p), UNCHANGED <<call, rec, authVars, worldVars>> PROVE RestTyped'
  BY <1>c, ReleaseLocksType DEF RestTyped, authVars, provider, worldVars
<1>d. ASSUME NEW p \in Procs,
             \/ UNCHANGED callLock /\ recLock' = [recLock EXCEPT ![Op(p)] = p]
             \/ UNCHANGED recLock /\ callLock' = [callLock EXCEPT ![Op(p)] = p],
             UNCHANGED <<call, rec, authVars, worldVars>>
      PROVE  RestTyped'
  <2>1. callLock \in [Ops -> Procs \cup {None}] /\ recLock \in [Ops -> Procs \cup {None}]
    BY DEF RestTyped
  <2>2. callLock' \in [Ops -> Procs \cup {None}] /\ recLock' \in [Ops -> Procs \cup {None}]
    BY <1>d, <2>1, TakeType
  <2> QED
    BY <1>d, <2>2 DEF RestTyped, authVars, provider, worldVars
<1>1. ASSUME NEW p \in Procs, NEW o \in Ops, NEW i \in Inputs, NEW e \in BOOLEAN, Invoke(p, o, i, e)
      PROVE  RestTyped'
  BY <1>1, <1>b DEF Invoke
<1>2. ASSUME NEW p \in Procs, RequestApproval(p) PROVE RestTyped'
  <2> DEFINE o == Op(p)
             c == [NoCall EXCEPT !.status = "AWAITING_APPROVAL", !.digest = inv[p].digest]
             a == [approval[o] EXCEPT !.requested = TRUE]
  <2>1. o \in Ops /\ inv[p].digest \in Digests
    BY <1>2, <1>a DEF RequestApproval, At
  <2>2. c \in CallRow
    BY <2>1 DEF NoCall, CallRow, CallStatus, ExternalOutcome
  <2>3. approval \in [Ops -> ApprovalRow] /\ approval[o] \in ApprovalRow
    BY <2>1 DEF RestTyped
  <2>7. a \in ApprovalRow
    BY <2>3 DEF ApprovalRow
  <2>4. call' = [call EXCEPT ![o] = c] /\ approval' = [approval EXCEPT ![o] = a]
        /\ Emit(o, "approval.requested") /\ UNCHANGED <<active, rec, lockVars, started, provider>>
    BY <1>2 DEF RequestApproval
  <2>5. call' \in [Ops -> CallRow] /\ approval' \in [Ops -> ApprovalRow]
    BY <2>2, <2>3, <2>7, <2>4 DEF RestTyped
  <2>6. emitted' \in [Ops -> [EventKind -> Nat]]
    BY <2>1, <2>4, EmitType DEF RestTyped, EventKind
  <2> QED
    BY <2>4, <2>5, <2>6 DEF RestTyped, lockVars, provider
<1>3. ASSUME NEW p \in Procs, InsertCall(p) PROVE RestTyped'
  BY <1>3, <1>d DEF InsertCall
<1>4. ASSUME NEW p \in Procs, ReadCall(p) \/ ValidateApproval(p) \/ Return(p) PROVE RestTyped'
  BY <1>4, <1>b DEF ReadCall, ValidateApproval, Return
<1>5. ASSUME NEW p \in Procs, VerifySnapshot(p) PROVE RestTyped'
  BY <1>5, <1>b, <1>c DEF VerifySnapshot
<1>6. ASSUME NEW p \in Procs, InsertRecord(p) \/ CompleteLocksCall(p) PROVE RestTyped'
  BY <1>6, <1>d DEF InsertRecord, CompleteLocksCall
<1>7. ASSUME NEW p \in Procs, ReadRecord(p) PROVE RestTyped'
  BY <1>7, <1>b, <1>c DEF ReadRecord
<1>8. ASSUME NEW p \in Procs, ReplayReconciled(p) PROVE RestTyped'
  <2> DEFINE o == Op(p)
             c == [call[o] EXCEPT !.status = "SUCCEEDED", !.outcome = "RECONCILED"]
  <2>1. o \in Ops
    BY <1>8, <1>a DEF ReplayReconciled, At
  <2>6. call[o] \in CallRow
    BY <2>1 DEF RestTyped
  <2>2. c \in CallRow
    BY <2>6 DEF CallRow, CallStatus, ExternalOutcome
  <2>3. /\ UNCHANGED <<rec, authVars, lockVars, started, provider>>
        /\ \/ call' = [call EXCEPT ![o] = c] /\ Emit(o, "tool.succeeded")
           \/ UNCHANGED <<call, emitted>>
    BY <1>8 DEF ReplayReconciled
  <2>4. call' \in [Ops -> CallRow]
    BY <2>2, <2>3 DEF RestTyped
  <2>5. emitted' \in [Ops -> [EventKind -> Nat]]
    BY <2>1, <2>3, EmitType DEF RestTyped, EventKind
  <2> QED
    BY <2>3, <2>4, <2>5 DEF RestTyped, authVars, lockVars, provider
<1>9. ASSUME NEW p \in Procs, AcquireAttempt(p) PROVE RestTyped'
  BY <1>9, <1>b, <1>d DEF AcquireAttempt, lockVars
<1>10. ASSUME NEW p \in Procs, CommitExecuting(p) PROVE RestTyped'
  <2> DEFINE o == Op(p)
             n == started[o] + 1
             dr == IF rec[o] = NoRecord THEN inv[p].digest ELSE rec[o].digest
             dc == IF call[o] = NoCall THEN inv[p].digest ELSE call[o].digest
             r == [state |-> "EXECUTING", count |-> inv[p].count, attempt |-> n,
                   reconciled |-> "NONE", digest |-> dr]
             c == [status |-> "EXECUTING", outcome |-> "NOT_STARTED", attempt |-> n, digest |-> dc]
  <2>1. o \in Ops /\ inv[p] \in Invocation /\ inv[p].digest \in Digests
    BY <1>10, <1>a DEF CommitExecuting, At
  <2>2. n \in Nat /\ inv[p].count \in Nat
    BY <2>1 DEF RestTyped, Invocation
  <2>3. dr \in Digests \cup {NoDigest} /\ dc \in Digests \cup {NoDigest}
    BY <2>1 DEF RestTyped, RecordRow, CallRow
  <2> HIDE DEF n, dr, dc
  <2>4. r \in RecordRow
    BY <2>2, <2>3 DEF RecordRow, RecordState
  <2>5. c \in CallRow
    BY <2>2, <2>3 DEF CallRow, CallStatus, ExternalOutcome
  <2>6. /\ ReleaseLocks(p) /\ UNCHANGED <<authVars, provider, emitted>>
        /\ \/ /\ started' = [started EXCEPT ![o] = n]
              /\ rec' = [rec EXCEPT ![o] = r] /\ call' = [call EXCEPT ![o] = c]
           \/ UNCHANGED <<started, rec, call>>
    BY <1>10 DEF CommitExecuting, n, dr, dc
  <2> HIDE DEF o, r, c
  <2>7. started' \in [Ops -> Nat] /\ rec' \in [Ops -> RecordRow] /\ call' \in [Ops -> CallRow]
    <3>1. started \in [Ops -> Nat] /\ rec \in [Ops -> RecordRow] /\ call \in [Ops -> CallRow]
      BY DEF RestTyped
    <3>2. CASE UNCHANGED <<started, rec, call>>
      BY <3>1, <3>2
    <3>3. CASE started' = [started EXCEPT ![o] = n] /\ rec' = [rec EXCEPT ![o] = r]
               /\ call' = [call EXCEPT ![o] = c]
      BY <3>1, <3>3, <2>2, <2>4, <2>5, RowType
    <3> QED
      BY <2>6, <3>2, <3>3
  <2> QED
    BY <2>6, <2>7, ReleaseLocksType DEF RestTyped, authVars, provider
<1>11. ASSUME NEW p \in Procs, ExternalEffect(p) PROVE RestTyped'
  <2>1. Op(p) \in Ops /\ effects \in [Ops -> Nat] /\ effects[Op(p)] + 1 \in Nat
    BY <1>11, <1>a DEF ExternalEffect, RestTyped, At
  <2>2. effects' \in [Ops -> Nat]
    BY <1>11, <2>1, RowType DEF ExternalEffect
  <2> QED
    BY <1>11, <2>2 DEF ExternalEffect, RestTyped, authVars, lockVars
<1>12. ASSUME NEW p \in Procs, NEW t, NEW late \in BOOLEAN, ExecutorOutcome(p, t, late) PROVE RestTyped'
  BY <1>12 DEF ExecutorOutcome, RestTyped, authVars, lockVars
<1>13. ASSUME NEW p \in Procs, CompleteCommits(p) \/ CompleteCommitsUnseen(p) PROVE RestTyped'
  <2>1. At(p, "completing") /\ RecordOutcome(p) /\ ReleaseLocks(p) /\ UNCHANGED <<authVars, started, provider>>
    BY <1>13 DEF CompleteCommits, CompleteCommitsUnseen
  <2>2. Op(p) \in Ops /\ inv[p] \in Invocation
    BY <2>1, <1>a DEF At
  <2>3. inv[p].target \in Targets \ {"NONE"}
    BY <2>1, <2>2 DEF InvTyped, Bound, Invocation, At
  <2>4. /\ rec' \in [Ops -> RecordRow] /\ call' \in [Ops -> CallRow]
        /\ emitted' \in [Ops -> [EventKind -> Nat]]
    BY <2>1, <2>2, <2>3, OutcomeType
  <2> QED
    BY <2>1, <2>4, ReleaseLocksType DEF RestTyped, authVars, provider
<1>14. ASSUME NEW p \in Procs, CompleteFails(p) PROVE RestTyped'
  BY <1>14, <1>c DEF CompleteFails
<1>15. ASSUME NEW p \in Procs, NEW late \in BOOLEAN, Crash(p, late) PROVE RestTyped'
  <2>1. inflight' \in [Ops -> BOOLEAN]
    BY <1>15 DEF Crash, RestTyped
  <2> QED
    BY <1>15, <2>1, ReleaseLocksType DEF Crash, RestTyped, authVars
<1>16. ASSUME NEW o \in Ops, NEW d \in {"APPROVE", "DENY"}, Decide(o, d) PROVE RestTyped'
  <2>1. approval' \in [Ops -> ApprovalRow]
    BY <1>16 DEF Decide, RestTyped, ApprovalRow
  <2>2. emitted' \in [Ops -> [EventKind -> Nat]]
    BY <1>16, EmitType DEF Decide, RestTyped, EventKind
  <2> QED
    BY <1>16, <2>1, <2>2 DEF Decide, RestTyped, lockVars, provider
<1>17. ASSUME NEW o \in Ops, Revoke(o) PROVE RestTyped'
  <2>1. approval' \in [Ops -> ApprovalRow]
    BY ZenonT(60), <1>17 DEF Revoke, RestTyped, ApprovalRow
  <2>2. emitted' \in [Ops -> [EventKind -> Nat]]
    BY <1>17, EmitType DEF Revoke, RestTyped, EventKind
  <2> QED
    BY <1>17, <2>1, <2>2 DEF Revoke, RestTyped, lockVars, provider
<1>18. ASSUME NEW o \in Ops, Expire(o) PROVE RestTyped'
  <2>1. approval' \in [Ops -> ApprovalRow]
    BY ZenonT(60), <1>18 DEF Expire, RestTyped, ApprovalRow
  <2> QED
    BY <1>18, <2>1 DEF Expire, RestTyped, lockVars, worldVars, provider
<1>19. ASSUME NEW o \in Ops, Reconcile(o) PROVE RestTyped'
  <2> DEFINE v == IF effects[o] > 0 THEN "EFFECT_CONFIRMED" ELSE "NO_EFFECT_CONFIRMED"
             r == [rec[o] EXCEPT !.state = "RECONCILED", !.reconciled = v]
  <2>1. v \in Reconciliation
    BY DEF Reconciliation
  <2> HIDE DEF v
  <2>5. rec[o] \in RecordRow
    BY DEF RestTyped
  <2>2. r \in RecordRow
    BY <2>1, <2>5 DEF RecordRow, RecordState
  <2>3. rec' = [rec EXCEPT ![o] = r] /\ UNCHANGED <<call, authVars, lockVars, worldVars, inv>>
    BY <1>19 DEF Reconcile, v
  <2>4. rec' \in [Ops -> RecordRow]
    BY <2>2, <2>3 DEF RestTyped
  <2> QED
    BY <2>3, <2>4 DEF RestTyped, authVars, lockVars, worldVars, provider
<1>20. ASSUME NEW o \in Ops, NEW applied \in BOOLEAN, LateEffect(o, applied) PROVE RestTyped'
  <2>1. effects' \in [Ops -> Nat] /\ inflight' \in [Ops -> BOOLEAN]
    BY <1>20 DEF LateEffect, RestTyped
  <2> QED
    BY <1>20, <2>1 DEF LateEffect, RestTyped, authVars, lockVars
<1>21. CASE Disable \/ \E v \in Versions : Activate(v)
  BY <1>21 DEF Disable, Activate, RestTyped, lockVars, worldVars, provider
<1>22. CASE UNCHANGED vars
  BY <1>22, <1>b DEF vars
<1> QED
  BY <1>1, <1>2, <1>3, <1>4, <1>5, <1>6, <1>7, <1>8, <1>9, <1>10, <1>11, <1>12, <1>13, <1>14,
     <1>15, <1>16, <1>17, <1>18, <1>19, <1>20, <1>21, <1>22 DEF Next, Proceed, Environment

\* The gateway's rows, locks, counters and invocations keep their types.
THEOREM TypeCorrect == Spec => []TypeOK
<1>1. TypeOK /\ [Next]_vars => TypeOK'
  BY StepInvTyped, StepRestTyped, TypeParts, PTL
<1> QED
  BY InitTypeOK, <1>1, PTL DEF Spec

-----------------------------------------------------------------------------
(* Lemmas on a step of one invocation.                                     *)

\* A step of p replaces p's coroutine and no other.
LEMMA OnlyMoves ==
  ASSUME InvTyped, NEW p \in Procs, NEW r, Becomes(p, r)
  PROVE  inv'[p] = r /\ \A q \in Procs : q # p => inv'[q] = inv[q]
  BY DEF InvTyped, Becomes

\* Rows other than o's, and the record locks of others, stay as they are.
OnlyTouches(o) ==
  \A x \in Ops \ {o} : rec'[x] = rec[x] /\ effects'[x] = effects[x] /\ inflight'[x] = inflight[x]
KeepsLocks(p) == \A o \in Ops : recLock[o] \in Procs \ {p} => recLock'[o] = recLock[o]

\* Ending a transaction keeps the locks of the others.
LEMMA ReleaseKeeps ==
  ASSUME RestTyped, NEW p, ReleaseLocks(p)
  PROVE  KeepsLocks(p)
  BY DEF RestTyped, ReleaseLocks, Release, KeepsLocks

\* So does taking a free lock.
LEMMA TakeKeeps ==
  ASSUME RestTyped, NEW p, NEW o, recLock[o] = None, recLock' = [recLock EXCEPT ![o] = p]
  PROVE  KeepsLocks(p)
  BY NoneAssumption DEF RestTyped, KeepsLocks

\* What an invocation knows of another operation is not disturbed.
LEMMA OthersKnow ==
  ASSUME InvTyped, NEW p, NEW o, OnlyTouches(o), KeepsLocks(p),
         NEW q \in Procs, q # p, inv'[q] = inv[q], Op(q) # o, InvocationKnows(q)
  PROVE  InvocationKnows(q)'
<1>1. CASE inv[q].pc = "idle"
  BY <1>1 DEF InvocationKnows, At, AnsweredSuccess, Op
<1>2. CASE inv[q].pc # "idle"
  <2>1. inv[q].op \in Ops \ {o}
    BY <1>2 DEF InvTyped, Bound, Op
  <2> QED
    BY <2>1 DEF InvocationKnows, At, AnsweredSuccess, Op, OnlyTouches, KeepsLocks
<1> QED
  BY <1>1, <1>2

\* While p is in an attempt that its record shows, every other invocation of
\* the operation is outside the labels that know more than the effect count.
LEMMA Alone ==
  ASSUME KnowledgeIsSound, NEW p \in Procs, Attempting(p), rec[Op(p)].state = "EXECUTING",
         NEW q \in Procs, q # p, Op(q) = Op(p)
  PROVE  inv[q].pc \notin {"start", "execute", "effected", "complete", "completing"}
<1>1. ~Attempting(q)
  BY DEF KnowledgeIsSound, OneAttempt
<1>2. inv[q].pc # "start"
  BY DEF KnowledgeIsSound, InvocationKnows, At, Startable
<1> QED
  BY <1>1, <1>2 DEF Attempting

\* Attempts stay alone when p at most continues its own.
LEMMA StaysAlone ==
  ASSUME KnowledgeIsSound, InvTyped, NEW p \in Procs, NEW r, Becomes(p, r),
         r.pc \in {"execute", "effected", "complete", "completing"} => Attempting(p) /\ r.op = Op(p)
  PROVE  OneAttempt'
<1>1. inv'[p] = r /\ \A q \in Procs : q # p => inv'[q] = inv[q]
  BY OnlyMoves
<1> QED
  BY <1>1 DEF KnowledgeIsSound, OneAttempt, Attempting, Op

\* A step that changes neither records nor the provider preserves what is
\* known, if the invocation that makes it does not claim more.
LEMMA QuietStep ==
  ASSUME KnowledgeIsSound, InvTyped, NEW p \in Procs, NEW r, Becomes(p, r),
         UNCHANGED <<rec, effects, inflight>>, KeepsLocks(p), InvocationKnows(p)',
         r.pc \in {"execute", "effected", "complete", "completing"} => Attempting(p) /\ r.op = Op(p)
  PROVE  KnowledgeIsSound'
<1>1. \A o \in Ops : RecordKnows(o)'
  BY DEF KnowledgeIsSound, RecordKnows, Startable, Settled
<1>2. ASSUME NEW q \in Procs, q # p PROVE InvocationKnows(q)'
  <2>1. inv'[q] = inv[q]
    BY <1>2, OnlyMoves
  <2>2. CASE inv[q].pc = "start"
    <3>1. inv[q].op \in Ops /\ recLock[inv[q].op] = q /\ Startable(rec[inv[q].op])
      BY <2>2 DEF InvTyped, Bound, KnowledgeIsSound, InvocationKnows, At, Op
    <3>2. recLock'[inv[q].op] = q
      BY <1>2, <3>1 DEF KeepsLocks
    <3> QED
      BY <2>1, <2>2, <3>1, <3>2 DEF InvocationKnows, At, AnsweredSuccess, Op, Startable
  <2>3. CASE inv[q].pc # "start"
    <3>1. InvocationKnows(q)
      BY DEF KnowledgeIsSound
    <3> QED
      BY <2>1, <2>3, <3>1 DEF InvocationKnows, At, AnsweredSuccess, Op
  <2> QED
    BY <2>2, <2>3
<1>3. OneAttempt'
  BY StaysAlone
<1> QED
  BY <1>1, <1>2, <1>3 DEF KnowledgeIsSound

\* Labels that claim nothing.
LEMMA KnowsNothing ==
  ASSUME InvTyped, NEW p \in Procs, NEW r, Becomes(p, r),
         r.pc \in {"idle", "reserve", "approval", "verify", "record", "acquire"}
  PROVE  InvocationKnows(p)'
<1>1. inv'[p] = r
  BY OnlyMoves
<1> QED
  BY <1>1 DEF InvocationKnows, At, AnsweredSuccess

\* An answer that claims no success.
LEMMA AnswersNothing ==
  ASSUME InvTyped, NEW p \in Procs, NEW x, AnswerWith(p, x),
         x \notin {"EXECUTED", "RESULT_CONTRACT_INVALID", "REPLAYED"}
  PROVE  InvocationKnows(p)'
<1>1. inv'[p] = Answered(p, x)
  BY OnlyMoves DEF AnswerWith
<1>2. Answered(p, x).pc = "answered" /\ Answered(p, x).result = x
  BY DEF Answered, Idle
<1> QED
  BY <1>1, <1>2 DEF InvocationKnows, At, AnsweredSuccess

\* An answer that claims success of an operation whose effect has happened.
LEMMA AnswersSuccess ==
  ASSUME InvTyped, NEW p \in Procs, NEW x, AnswerWith(p, x), effects'[Op(p)] = 1
  PROVE  InvocationKnows(p)'
<1>1. inv'[p] = Answered(p, x)
  BY OnlyMoves DEF AnswerWith
<1>2. Answered(p, x).pc = "answered" /\ Answered(p, x).op = Op(p)
  BY DEF Answered, Idle
<1> QED
  BY <1>1, <1>2 DEF InvocationKnows, At, AnsweredSuccess, Op

\* The two quiet steps: moving on before the attempt, and answering no success.
LEMMA QuietMove ==
  ASSUME KnowledgeIsSound, InvTyped, NEW p \in Procs, NEW r, Becomes(p, r),
         r.pc \in {"idle", "reserve", "approval", "verify", "record", "acquire"},
         UNCHANGED <<rec, effects, inflight>>, KeepsLocks(p)
  PROVE  KnowledgeIsSound'
  BY KnowsNothing, QuietStep

LEMMA QuietAnswer ==
  ASSUME KnowledgeIsSound, InvTyped, NEW p \in Procs, NEW x, AnswerWith(p, x),
         x \notin {"EXECUTED", "RESULT_CONTRACT_INVALID", "REPLAYED"} \/ effects[Op(p)] = 1,
         UNCHANGED <<rec, effects, inflight>>, KeepsLocks(p)
  PROVE  KnowledgeIsSound'
<1>1. InvocationKnows(p)'
  BY AnswersNothing, AnswersSuccess
<1>2. Becomes(p, Answered(p, x)) /\ Answered(p, x).pc = "answered"
  BY DEF AnswerWith, Answered, Idle
<1> QED
  BY <1>1, <1>2, QuietStep

\* A step of p that changes o's record or effect, and leaves every other
\* operation alone: what the other invocations of o know has to be shown.
LEMMA LoudStep ==
  ASSUME KnowledgeIsSound, InvTyped, NEW p \in Procs, NEW r, Becomes(p, r), NEW o \in Ops,
         OnlyTouches(o), KeepsLocks(p), RecordKnows(o)', InvocationKnows(p)', OneAttempt',
         \A q \in Procs : q # p /\ Op(q) = o => InvocationKnows(q)'
  PROVE  KnowledgeIsSound'
<1>1. \A q \in Procs : q # p => inv'[q] = inv[q]
  BY OnlyMoves
<1>2. ASSUME NEW q \in Procs, q # p, Op(q) # o PROVE InvocationKnows(q)'
  BY <1>1, <1>2, OthersKnow DEF KnowledgeIsSound
<1>3. ASSUME NEW x \in Ops, x # o PROVE RecordKnows(x)'
  BY <1>3 DEF KnowledgeIsSound, OnlyTouches, RecordKnows, Startable, Settled
<1> QED
  BY <1>2, <1>3 DEF KnowledgeIsSound

-----------------------------------------------------------------------------
(* The inductive invariant.                                                *)

\* Initially nothing has started and nobody knows anything.
LEMMA InitKnows == Init => KnowledgeIsSound
<1> SUFFICES ASSUME Init PROVE KnowledgeIsSound
  OBVIOUS
<1>1. ASSUME NEW o \in Ops PROVE RecordKnows(o)
  BY DEF Init, RecordKnows, NoRecord, Startable, Settled
<1>2. ASSUME NEW p \in Procs PROVE inv[p].pc = "idle"
  BY DEF Init, Idle
<1>3. ASSUME NEW p \in Procs PROVE InvocationKnows(p)
  BY <1>2 DEF InvocationKnows, At, AnsweredSuccess
<1> QED
  BY <1>1, <1>2, <1>3 DEF KnowledgeIsSound, OneAttempt, Attempting

\* The first transaction up to the record: nothing is known yet.
LEMMA ReservingKnows ==
  ASSUME InvTyped, RestTyped, KnowledgeIsSound, NEW p \in Procs,
         \/ \E o \in Ops, i \in Inputs, e \in BOOLEAN : Invoke(p, o, i, e)
         \/ RequestApproval(p) \/ InsertCall(p) \/ ReadCall(p)
         \/ ValidateApproval(p) \/ VerifySnapshot(p)
  PROVE  KnowledgeIsSound'
<1>1. UNCHANGED <<rec, effects, inflight>>
  BY DEF Invoke, RequestApproval, InsertCall, ReadCall, ValidateApproval, VerifySnapshot,
         provider, worldVars
<1>2. UNCHANGED recLock \/ ReleaseLocks(p)
  BY DEF Invoke, RequestApproval, InsertCall, ReadCall, ValidateApproval, VerifySnapshot, lockVars
<1>3. KeepsLocks(p)
  BY <1>2, ReleaseKeeps DEF KeepsLocks
<1>4. CASE \E o \in Ops, i \in Inputs, e \in BOOLEAN : Invoke(p, o, i, e)
  <2> PICK o \in Ops, i \in Inputs, e \in BOOLEAN : Invoke(p, o, i, e)
    BY <1>4
  <2> DEFINE r == [Idle EXCEPT !.pc = "reserve", !.op = o, !.execute = e,
                     !.digest = <<active.version, i>>, !.late = approval[o].expired]
             a == [Idle EXCEPT !.pc = "answered", !.op = o, !.result = "DENIED"]
  <2>1. Becomes(p, r) \/ Becomes(p, a)
    BY DEF Invoke
  <2>2. r.pc = "reserve" /\ a.pc = "answered" /\ a.result = "DENIED"
    BY DEF Idle
  <2> HIDE DEF r, a
  <2>3. CASE Becomes(p, a)
    <3>1. inv'[p] = a
      BY <2>3, OnlyMoves
    <3>2. InvocationKnows(p)'
      BY <3>1, <2>2 DEF InvocationKnows, At, AnsweredSuccess
    <3> QED
      BY <2>2, <2>3, <3>2, <1>1, <1>3, QuietStep
  <2> QED
    BY <2>1, <2>2, <2>3, <1>1, <1>3, QuietMove
<1>5. CASE \/ RequestApproval(p) \/ InsertCall(p) \/ ReadCall(p) \/ ValidateApproval(p) \/ VerifySnapshot(p)
  <2>1. inv[p] \in Invocation
    BY DEF InvTyped
  <2>2. \/ \E x \in Results : AnswerWith(p, x) /\ x \notin {"EXECUTED", "RESULT_CONTRACT_INVALID", "REPLAYED"}
        \/ \E r : Becomes(p, r) /\ r.pc \in {"approval", "verify", "record"}
    <3>1. CASE RequestApproval(p)
      BY <3>1 DEF RequestApproval, Results
    <3>2. CASE InsertCall(p)
      <4> DEFINE r == [inv[p] EXCEPT !.pc = "verify", !.seen = "READY"]
      <4>1. Becomes(p, r)
        BY <3>2 DEF InsertCall
      <4>2. r.pc = "verify"
        BY <2>1 DEF Invocation
      <4> QED
        BY <4>1, <4>2
    <3>3. CASE ReadCall(p)
      <4> DEFINE l == IF Decision(p) = "REQUIRES_APPROVAL" THEN "approval" ELSE "verify"
                 r == [inv[p] EXCEPT !.pc = l, !.seen = call[Op(p)].status]
      <4>1. Becomes(p, r) \/ AnswerWith(p, "OPERATION_CONFLICT")
        BY <3>3 DEF ReadCall
      <4>2. r.pc \in {"approval", "verify"}
        BY <2>1 DEF Invocation
      <4> QED
        BY <4>1, <4>2 DEF Results
    <3>4. CASE ValidateApproval(p)
      BY <3>4, <2>1 DEF ValidateApproval, Goto, Invocation, Results
    <3>5. CASE VerifySnapshot(p)
      BY <3>5, <2>1 DEF VerifySnapshot, Goto, Invocation, Results
    <3> QED
      BY <1>5, <3>1, <3>2, <3>3, <3>4, <3>5
  <2> QED
    BY <1>1, <1>3, <2>2, QuietAnswer, QuietMove
<1> QED
  BY <1>4, <1>5

\* The first transaction at the record, up to the commit.
LEMMA AcquiringKnows ==
  ASSUME InvTyped, RestTyped, KnowledgeIsSound, NEW p \in Procs,
         InsertRecord(p) \/ ReadRecord(p) \/ ReplayReconciled(p) \/ AcquireAttempt(p)
  PROVE  KnowledgeIsSound'
<1>0. inv[p] \in Invocation /\ InvocationKnows(p) /\ p # None
  BY NoneAssumption DEF InvTyped, KnowledgeIsSound
<1>o. Op(p) \in Ops
  BY DEF InsertRecord, ReadRecord, ReplayReconciled, AcquireAttempt, At, Op, InvTyped, Bound
<1>1. UNCHANGED <<rec, effects, inflight>>
  BY DEF InsertRecord, ReadRecord, ReplayReconciled, AcquireAttempt, provider, worldVars
<1>2. KeepsLocks(p)
  <2>1. \/ UNCHANGED recLock
        \/ ReleaseLocks(p)
        \/ recLock[Op(p)] = None /\ recLock' = [recLock EXCEPT ![Op(p)] = p]
    BY DEF InsertRecord, ReadRecord, ReplayReconciled, AcquireAttempt, lockVars
  <2> QED
    BY <2>1, ReleaseKeeps, TakeKeeps DEF KeepsLocks
<1>3. CASE InsertRecord(p)
  <2> DEFINE r == [inv[p] EXCEPT !.pc = "start", !.count = 1]
  <2>1. Becomes(p, r) /\ rec[Op(p)] = NoRecord /\ recLock' = [recLock EXCEPT ![Op(p)] = p]
    BY <1>3 DEF InsertRecord
  <2>2. r.pc = "start" /\ r.op = Op(p)
    BY <1>0 DEF Invocation, Op
  <2> HIDE DEF r
  <2>3. inv'[p] = r
    BY <2>1, OnlyMoves
  <2>4. recLock'[Op(p)] = p /\ Startable(rec[Op(p)])
    BY <2>1, <1>o DEF RestTyped, NoRecord, Startable
  <2>5. InvocationKnows(p)'
    BY <2>2, <2>3, <2>4, <1>1 DEF InvocationKnows, At, AnsweredSuccess, Op, Startable
  <2> QED
    BY <1>1, <1>2, <2>1, <2>2, <2>5, QuietStep
<1>4. CASE ReadRecord(p)
  <2> DEFINE outcome == ReservationOutcome(rec[Op(p)], inv[p].digest)
             r == [inv[p] EXCEPT !.pc = "acquire", !.count = rec[Op(p)].count + 1]
             t == [inv[p] EXCEPT !.pc = "replay"]
  <2>1. \/ outcome = "RETRY_ALLOWED" /\ Becomes(p, r)
        \/ outcome = "REPLAY_SUCCEEDED" /\ (Becomes(p, t) \/ AnswerWith(p, "REPLAYED"))
        \/ \E x \in {"OPERATION_CONFLICT", "IN_PROGRESS", "BLOCKED_RECONCILIATION"} : AnswerWith(p, x)
    <3>1. outcome \in {"CONFLICT", "IN_PROGRESS", "REPLAY_SUCCEEDED", "RETRY_ALLOWED",
                       "UNKNOWN_REQUIRES_RECONCILIATION"}
      BY DEF ReservationOutcome
    <3> QED
      BY <1>4, <3>1 DEF ReadRecord, Goto
  <2>2. r.pc = "acquire" /\ t.pc = "replay" /\ t.op = Op(p)
    BY <1>0 DEF Invocation, Op
  <2>3. outcome = "REPLAY_SUCCEEDED" => effects[Op(p)] = 1
    <3>1. RecordKnows(Op(p))
      BY <1>o DEF KnowledgeIsSound
    <3> QED
      BY <3>1 DEF ReservationOutcome, RecordKnows, Settled
  <2> HIDE DEF outcome, r, t
  <2>4. CASE effects[Op(p)] = 1 /\ Becomes(p, t)
    <3>1. inv'[p] = t
      BY <2>4, OnlyMoves
    <3>2. InvocationKnows(p)'
      BY <2>2, <2>4, <3>1, <1>1 DEF InvocationKnows, At, AnsweredSuccess, Op
    <3> QED
      BY <2>2, <2>4, <3>2, <1>1, <1>2, QuietStep
  <2> QED
    BY <1>1, <1>2, <2>1, <2>2, <2>3, <2>4, QuietMove, QuietAnswer
<1>5. CASE ReplayReconciled(p)
  <2>1. effects[Op(p)] = 1
    BY <1>0, <1>5 DEF ReplayReconciled, InvocationKnows
  <2>2. \E x : AnswerWith(p, x)
    BY <1>5 DEF ReplayReconciled
  <2> QED
    BY <1>1, <1>2, <2>1, <2>2, QuietAnswer
<1>6. CASE AcquireAttempt(p)
  <2> DEFINE r == [inv[p] EXCEPT !.pc = "start"]
  <2>1. r.pc = "start" /\ r.op = Op(p)
    BY <1>0 DEF Invocation, Op
  <2>2. \/ /\ RecordMayStart(rec[Op(p)], inv[p].count)
           /\ recLock' = [recLock EXCEPT ![Op(p)] = p] /\ Becomes(p, r)
        \/ AnswerWith(p, "RAISED")
    BY <1>6 DEF AcquireAttempt, Goto
  <2> HIDE DEF r
  <2>3. CASE /\ RecordMayStart(rec[Op(p)], inv[p].count)
             /\ recLock' = [recLock EXCEPT ![Op(p)] = p] /\ Becomes(p, r)
    <3>1. inv'[p] = r
      BY <2>3, OnlyMoves
    <3>2. recLock'[Op(p)] = p /\ Startable(rec[Op(p)])
      BY <2>3, <1>o DEF RestTyped, RecordMayStart, Startable
    <3>3. InvocationKnows(p)'
      BY <2>1, <3>1, <3>2, <1>1 DEF InvocationKnows, At, AnsweredSuccess, Op, Startable
    <3> QED
      BY <2>1, <2>3, <3>3, <1>1, <1>2, QuietStep
  <2> QED
    BY <1>1, <1>2, <2>2, <2>3, QuietAnswer
<1> QED
  BY <1>3, <1>4, <1>5, <1>6

\* The attempt starts: its commit makes the operation EXECUTING under the lock
\* that kept it startable, so no other invocation knew anything of it.
LEMMA StartingKnows ==
  ASSUME InvTyped, RestTyped, KnowledgeIsSound, NEW p \in Procs, CommitExecuting(p)
  PROVE  KnowledgeIsSound'
<1>0. Op(p) \in Ops
  BY DEF CommitExecuting, InvTyped, Bound, At, Op
<1> PICK o \in Ops : o = Op(p)
  BY <1>0
<1> DEFINE e == [state |-> "EXECUTING", count |-> inv[p].count, attempt |-> started[o] + 1,
                 reconciled |-> "NONE",
                 digest |-> IF rec[o] = NoRecord THEN inv[p].digest ELSE rec[o].digest]
           r == [inv[p] EXCEPT !.pc = "execute", !.attempt = started[o] + 1]
<1>1. /\ At(p, "start") /\ ReleaseLocks(p) /\ UNCHANGED <<effects, inflight>>
      /\ \/ rec' = [rec EXCEPT ![o] = e] /\ Becomes(p, r)
         \/ UNCHANGED rec /\ AnswerWith(p, "RAISED")
  BY DEF CommitExecuting, provider
<1>2. KeepsLocks(p)
  BY <1>1, ReleaseKeeps
<1>3. r.pc = "execute" /\ r.op = o
  BY DEF InvTyped, Invocation, Op
<1>4. e.state = "EXECUTING" /\ e.reconciled = "NONE"
  OBVIOUS
<1>5. Startable(rec[o]) /\ recLock[o] = p /\ effects[o] = 0 /\ ~inflight[o] /\ RecordKnows(o)
  BY <1>1, <1>2 DEF KnowledgeIsSound, InvocationKnows, RecordKnows
<1> HIDE DEF e, r
<1>6. CASE UNCHANGED rec /\ AnswerWith(p, "RAISED")
  BY <1>1, <1>2, <1>6, QuietAnswer
<1>7. CASE rec' = [rec EXCEPT ![o] = e] /\ Becomes(p, r)
  <2>1. rec'[o] = e /\ OnlyTouches(o) /\ UNCHANGED <<effects, inflight>>
    BY <1>1, <1>2, <1>7 DEF RestTyped, OnlyTouches
  <2>2. RecordKnows(o)'
    BY <2>1, <1>4, <1>5 DEF RecordKnows, Startable, Settled
  <2>3. inv'[p] = r /\ \A q \in Procs : q # p => inv'[q] = inv[q]
    BY <1>7, OnlyMoves
  <2>4. InvocationKnows(p)'
    BY <2>1, <2>3, <1>3, <1>4, <1>5 DEF InvocationKnows, At, AnsweredSuccess, Op
  <2>5. ASSUME NEW q \in Procs, q # p, Op(q) = o
        PROVE  inv[q].pc \notin {"start", "execute", "effected", "complete", "completing", "replay"}
               /\ ~AnsweredSuccess(q)
    <3>1. InvocationKnows(q) /\ rec[o].state \notin {"EXECUTING", "SUCCEEDED"}
      BY <1>5 DEF KnowledgeIsSound, Startable
    <3> QED
      BY <2>5, <3>1, <1>5 DEF InvocationKnows, At
  <2>6. \A q \in Procs : q # p /\ Op(q) = o => InvocationKnows(q)'
    BY <2>3, <2>5 DEF InvocationKnows, At, AnsweredSuccess, Op
  <2>7. OneAttempt'
    BY <2>3, <2>5, <1>3 DEF OneAttempt, Attempting, Op, KnowledgeIsSound
  <2> QED
    BY <1>2, <1>7, <2>1, <2>2, <2>4, <2>6, <2>7, LoudStep
<1> QED
  BY <1>1, <1>6, <1>7

\* What the others of p's operation know, when p's attempt changes what the
\* provider did or what the record says of it.
LEMMA AloneKnows ==
  ASSUME InvTyped, KnowledgeIsSound, NEW p \in Procs, Attempting(p), NEW o \in Ops, o = Op(p),
         rec[o].state = "EXECUTING", effects'[o] = effects[o] \/ effects[o] = 0,
         NEW q \in Procs, q # p, Op(q) = o, inv'[q] = inv[q]
  PROVE  InvocationKnows(q)'
<1>1. inv[q].pc \notin {"start", "execute", "effected", "complete", "completing"}
  BY Alone
<1>2. InvocationKnows(q)
  BY DEF KnowledgeIsSound
<1> QED
  BY <1>1, <1>2 DEF InvocationKnows, At, AnsweredSuccess, Op

\* The executor acts, and returns or raises.
LEMMA ExecutingKnows ==
  ASSUME InvTyped, RestTyped, KnowledgeIsSound, NEW p \in Procs,
         \/ ExternalEffect(p)
         \/ \E t \in Targets, late \in BOOLEAN : ExecutorOutcome(p, t, late)
  PROVE  KnowledgeIsSound'
<1>0. Attempting(p) /\ Op(p) \in Ops /\ UNCHANGED <<rec, recLock>> /\ inv[p] \in Invocation
  BY DEF ExternalEffect, ExecutorOutcome, InvTyped, Bound, At, Op, Attempting, lockVars
<1> PICK o \in Ops : o = Op(p)
  BY <1>0
<1>1. InvocationKnows(p) /\ RecordKnows(o) /\ KeepsLocks(p)
  BY <1>0 DEF KnowledgeIsSound, KeepsLocks
<1>2. CASE ExternalEffect(p)
  <2> DEFINE r == [inv[p] EXCEPT !.pc = "effected"]
  <2>1. /\ Becomes(p, r) /\ At(p, "execute") /\ UNCHANGED inflight
        /\ effects' = [effects EXCEPT ![o] = effects[o] + 1]
    BY <1>2 DEF ExternalEffect, Goto
  <2>2. r.pc = "effected" /\ r.op = o
    BY <1>0 DEF Invocation, Op
  <2> HIDE DEF r
  <2>3. rec[o].state = "EXECUTING" /\ effects[o] = 0 /\ ~inflight[o]
    BY <1>1, <2>1 DEF InvocationKnows
  <2>4. effects'[o] = 1 /\ OnlyTouches(o)
    BY <1>0, <2>1, <2>3 DEF OnlyTouches, RestTyped
  <2>5. RecordKnows(o)'
    BY <1>0, <1>1, <2>1, <2>3, <2>4 DEF RecordKnows, Startable, Settled
  <2>6. inv'[p] = r /\ \A q \in Procs : q # p => inv'[q] = inv[q]
    BY <2>1, OnlyMoves
  <2>7. InvocationKnows(p)'
    BY <1>0, <2>1, <2>2, <2>3, <2>4, <2>6 DEF InvocationKnows, At, AnsweredSuccess, Op
  <2>8. \A q \in Procs : q # p /\ Op(q) = o => InvocationKnows(q)'
    BY <1>0, <2>3, <2>6, AloneKnows
  <2>9. OneAttempt'
    BY <1>0, <2>1, <2>2, StaysAlone
  <2> QED
    BY <1>1, <2>1, <2>4, <2>5, <2>7, <2>8, <2>9, LoudStep
<1>3. CASE \E t \in Targets, late \in BOOLEAN : ExecutorOutcome(p, t, late)
  <2> PICK t \in Targets, late \in BOOLEAN : ExecutorOutcome(p, t, late)
    BY <1>3
  <2> DEFINE r == [inv[p] EXCEPT !.pc = "complete", !.target = t]
  <2>1. /\ Becomes(p, r) /\ UNCHANGED effects
        /\ inflight' = [inflight EXCEPT ![o] = late]
        /\ \/ At(p, "execute") /\ t = "FAILED_PRE_EFFECT" /\ ~late
           \/ At(p, "execute") /\ t = "UNKNOWN_EXTERNAL_OUTCOME"
           \/ At(p, "effected") /\ t \in {"SUCCEEDED", "UNKNOWN_EXTERNAL_OUTCOME"} /\ ~late
    BY DEF ExecutorOutcome
  <2>2. r.pc = "complete" /\ r.op = o /\ r.target = t
    BY <1>0 DEF Invocation, Op
  <2> HIDE DEF r
  <2>3. rec[o].state = "EXECUTING" /\ ~inflight[o]
        /\ (At(p, "execute") => effects[o] = 0) /\ (At(p, "effected") => effects[o] = 1)
    BY <1>1, <2>1 DEF InvocationKnows
  <2>4. inflight'[o] = late /\ OnlyTouches(o)
    BY <1>0, <2>1 DEF OnlyTouches, RestTyped
  <2>5. RecordKnows(o)'
    BY <1>0, <1>1, <2>1, <2>3, <2>4 DEF RecordKnows, Startable, Settled, At
  <2>6. inv'[p] = r /\ \A q \in Procs : q # p => inv'[q] = inv[q]
    BY <2>1, OnlyMoves
  <2>7. InvocationKnows(p)'
    BY <1>0, <2>1, <2>2, <2>3, <2>4, <2>6 DEF InvocationKnows, At, AnsweredSuccess, Op
  <2>8. \A q \in Procs : q # p /\ Op(q) = o => InvocationKnows(q)'
    BY <1>0, <2>1, <2>3, <2>6, AloneKnows
  <2>9. OneAttempt'
    BY <1>0, <2>1, <2>2, StaysAlone
  <2> QED
    BY <1>1, <2>1, <2>4, <2>5, <2>7, <2>8, <2>9, LoudStep
<1> QED
  BY <1>2, <1>3

\* The outcome that could not be recorded, or whose commit went unseen.
LEMMA RaisingKnows ==
  ASSUME InvTyped, NEW p \in Procs, At(p, "completing"), CompletionRaises(p), NEW o \in Ops, o = Op(p),
         \/ rec'[o].state = "EXECUTING"
         \/ rec'[o].state = "SUCCEEDED"
         \/ inv[p].target # "SUCCEEDED"
  PROVE  /\ InvocationKnows(p)'
         /\ \E r : /\ Becomes(p, r)
                   /\ r.pc \in {"execute", "effected", "complete", "completing"} => Attempting(p) /\ r.op = o
<1> DEFINE r == [inv[p] EXCEPT !.pc = "complete", !.rescue = TRUE, !.target = "UNKNOWN_EXTERNAL_OUTCOME"]
<1>1. r.pc = "complete" /\ r.op = o /\ r.target = "UNKNOWN_EXTERNAL_OUTCOME"
  BY DEF InvTyped, Invocation, Op
<1>2. Attempting(p)
  BY DEF At, Attempting
<1>3. \/ inv[p].target = "SUCCEEDED" /\ Becomes(p, r)
      \/ \E x \in {"CRITICAL_AMBIGUOUS", "RAISED"} : AnswerWith(p, x)
  BY DEF CompletionRaises
<1> HIDE DEF r
<1>4. CASE inv[p].target = "SUCCEEDED" /\ Becomes(p, r)
  <2>1. inv'[p] = r
    BY <1>4, OnlyMoves
  <2>2. InvocationKnows(p)'
    BY <1>1, <1>4, <2>1 DEF InvocationKnows, At, AnsweredSuccess, Op
  <2> QED
    BY <1>1, <1>2, <1>4, <2>2
<1>5. CASE \E x \in {"CRITICAL_AMBIGUOUS", "RAISED"} : AnswerWith(p, x)
  <2> PICK x \in {"CRITICAL_AMBIGUOUS", "RAISED"} : AnswerWith(p, x)
    BY <1>5
  <2>1. InvocationKnows(p)'
    BY AnswersNothing
  <2>2. Becomes(p, Answered(p, x)) /\ Answered(p, x).pc = "answered"
    BY DEF AnswerWith, Answered, Idle
  <2> QED
    BY <2>1, <2>2
<1> QED
  BY <1>3, <1>4, <1>5

\* The second transaction: only the owner of an EXECUTING record writes it, and
\* what it writes is what its attempt established.
LEMMA CompletingKnows ==
  ASSUME InvTyped, RestTyped, KnowledgeIsSound, NEW p \in Procs,
         CompleteLocksCall(p) \/ CompleteCommits(p) \/ CompleteCommitsUnseen(p) \/ CompleteFails(p)
  PROVE  KnowledgeIsSound'
<1>0. /\ Attempting(p) /\ Op(p) \in Ops /\ inv[p] \in Invocation /\ Bound(inv[p])
      /\ At(p, "complete") \/ At(p, "completing")
      /\ UNCHANGED <<effects, inflight>> /\ (UNCHANGED recLock \/ ReleaseLocks(p))
  BY DEF CompleteLocksCall, CompleteCommits, CompleteCommitsUnseen, CompleteFails,
         InvTyped, Bound, At, Op, Attempting, provider, worldVars
<1> PICK o \in Ops : o = Op(p)
  BY <1>0
<1>1. InvocationKnows(p) /\ RecordKnows(o) /\ KeepsLocks(p)
  BY <1>0, ReleaseKeeps DEF KnowledgeIsSound, KeepsLocks
<1>2. CASE CompleteLocksCall(p)
  <2> DEFINE r == [inv[p] EXCEPT !.pc = "completing"]
  <2>1. Becomes(p, r) /\ UNCHANGED rec /\ At(p, "complete")
    BY <1>2 DEF CompleteLocksCall, Goto
  <2>2. r.pc = "completing" /\ r.op = o /\ r.target = inv[p].target
    BY <1>0 DEF Invocation, Op
  <2> HIDE DEF r
  <2>3. inv'[p] = r
    BY <2>1, OnlyMoves
  <2>4. InvocationKnows(p)'
    BY <1>0, <1>1, <2>1, <2>2, <2>3 DEF InvocationKnows, At, AnsweredSuccess, Op
  <2> QED
    BY <1>0, <1>1, <2>1, <2>2, <2>4, QuietStep
<1>3. CASE CompleteFails(p)
  <2>1. At(p, "completing") /\ CompletionRaises(p) /\ UNCHANGED rec
    BY <1>3 DEF CompleteFails
  <2>2. rec'[o].state \in {"EXECUTING", "SUCCEEDED"}
    BY <1>0, <1>1, <2>1 DEF InvocationKnows
  <2>3. /\ InvocationKnows(p)'
        /\ \E r : /\ Becomes(p, r)
                  /\ r.pc \in {"execute", "effected", "complete", "completing"} => Attempting(p) /\ r.op = Op(p)
    BY <2>1, <2>2, RaisingKnows
  <2> QED
    BY <1>0, <1>1, <2>1, <2>3, QuietStep
<1>4. CASE CompleteCommits(p) \/ CompleteCommitsUnseen(p)
  <2> DEFINE t == inv[p].target
             c == [rec[o] EXCEPT !.state = t, !.attempt = 0]
  <2>1. At(p, "completing") /\ rec[o].state = "EXECUTING" /\ rec' = [rec EXCEPT ![o] = c]
    BY <1>4 DEF CompleteCommits, CompleteCommitsUnseen, OwnsAttempt, RecordOutcome
  <2>2. t \in {"SUCCEEDED", "FAILED_PRE_EFFECT", "UNKNOWN_EXTERNAL_OUTCOME"}
    BY <1>0, <2>1 DEF Invocation, Bound, Targets, At
  <2>3. rec[o] \in RecordRow
    BY DEF RestTyped
  <2>4. c.state = t /\ c.reconciled = rec[o].reconciled
    BY <2>3 DEF RecordRow
  <2>5. rec'[o].state = t /\ rec'[o].reconciled = rec[o].reconciled /\ OnlyTouches(o)
    BY <1>0, <2>1, <2>4 DEF RestTyped, OnlyTouches
  <2>6. /\ t = "SUCCEEDED" => effects[o] = 1 /\ ~inflight[o]
        /\ t = "FAILED_PRE_EFFECT" => effects[o] = 0 /\ ~inflight[o]
    BY <1>1, <2>1 DEF InvocationKnows
  <2>7. RecordKnows(o)'
    BY <1>0, <1>1, <2>1, <2>2, <2>5, <2>6 DEF RecordKnows, Startable, Settled
  <2>8. /\ InvocationKnows(p)'
        /\ \E r : /\ Becomes(p, r)
                  /\ r.pc \in {"execute", "effected", "complete", "completing"} => Attempting(p) /\ r.op = o
    <3>1. CASE CompleteCommitsUnseen(p)
      <4>1. CompletionRaises(p)
        BY <3>1 DEF CompleteCommitsUnseen
      <4> QED
        BY <2>1, <2>2, <2>5, <4>1, RaisingKnows
    <3>2. CASE CompleteCommits(p)
      <4> PICK x \in AnswersOf(t) : AnswerWith(p, x)
        BY <3>2 DEF CompleteCommits
      <4>1. x \notin {"EXECUTED", "RESULT_CONTRACT_INVALID", "REPLAYED"} \/ t = "SUCCEEDED"
        BY <2>2 DEF AnswersOf
      <4>2. InvocationKnows(p)'
        BY <1>0, <2>6, <4>1, AnswersNothing, AnswersSuccess
      <4>3. Becomes(p, Answered(p, x)) /\ Answered(p, x).pc = "answered"
        BY DEF AnswerWith, Answered, Idle
      <4> QED
        BY <4>2, <4>3
    <3> QED
      BY <1>4, <3>1, <3>2
  <2> PICK r : /\ Becomes(p, r)
               /\ r.pc \in {"execute", "effected", "complete", "completing"} => Attempting(p) /\ r.op = o
    BY <2>8
  <2>9. \A q \in Procs : q # p => inv'[q] = inv[q]
    BY OnlyMoves
  <2>10. \A q \in Procs : q # p /\ Op(q) = o => InvocationKnows(q)'
    BY <1>0, <2>1, <2>9, AloneKnows
  <2>11. OneAttempt'
    BY StaysAlone
  <2> QED
    BY <1>1, <2>5, <2>7, <2>8, <2>10, <2>11, LoudStep
<1> QED
  BY <1>2, <1>3, <1>4

\* A process that dies forgets what it knew; its request may stay in flight.
LEMMA CrashingKnows ==
  ASSUME InvTyped, RestTyped, KnowledgeIsSound, NEW p \in Procs, NEW late \in BOOLEAN, Crash(p, late)
  PROVE  KnowledgeIsSound'
<1>0. /\ Becomes(p, Idle) /\ Op(p) \in Ops /\ ReleaseLocks(p) /\ UNCHANGED <<rec, effects>>
      /\ inv[p].pc # "idle" /\ (late => At(p, "execute"))
      /\ inflight' = [inflight EXCEPT ![Op(p)] = inflight[Op(p)] \/ late]
  BY DEF Crash, InvTyped, Bound, Op
<1>1. Idle.pc = "idle" /\ KeepsLocks(p)
  BY <1>0, ReleaseKeeps DEF Idle
<1>2. CASE ~late
  <2>1. UNCHANGED inflight
    BY <1>0, <1>2 DEF RestTyped
  <2> QED
    BY <1>0, <1>1, <2>1, QuietMove
<1>3. CASE late
  <2> PICK o \in Ops : o = Op(p)
    BY <1>0
  <2>1. rec[o].state = "EXECUTING" /\ effects[o] = 0 /\ Attempting(p) /\ RecordKnows(o)
    BY <1>0, <1>3 DEF KnowledgeIsSound, InvocationKnows, Attempting, At
  <2>2. OnlyTouches(o) /\ RecordKnows(o)'
    BY <1>0, <2>1 DEF OnlyTouches, RecordKnows, RestTyped, Startable, Settled
  <2>3. InvocationKnows(p)' /\ OneAttempt'
    BY <1>0, <1>1, KnowsNothing, StaysAlone
  <2>4. \A q \in Procs : q # p => inv'[q] = inv[q]
    BY <1>0, OnlyMoves
  <2>5. \A q \in Procs : q # p /\ Op(q) = o => InvocationKnows(q)'
    BY <1>0, <2>1, <2>4, AloneKnows
  <2> QED
    BY <1>0, <1>1, <2>2, <2>3, <2>5, LoudStep
<1> QED
  BY <1>2, <1>3

\* A step outside the invocations that touches one operation.
LEMMA OutsideStep ==
  ASSUME InvTyped, KnowledgeIsSound, NEW o \in Ops, UNCHANGED <<inv, recLock>>, OnlyTouches(o),
         RecordKnows(o)', \A q \in Procs : Op(q) = o => InvocationKnows(q)'
  PROVE  KnowledgeIsSound'
<1>1. KeepsLocks(None)
  BY DEF KeepsLocks
<1>2. ASSUME NEW q \in Procs, Op(q) # o PROVE InvocationKnows(q)'
  BY <1>1, <1>2, OthersKnow, NoneAssumption DEF KnowledgeIsSound
<1>3. ASSUME NEW x \in Ops, x # o PROVE RecordKnows(x)'
  BY <1>3 DEF KnowledgeIsSound, OnlyTouches, RecordKnows, Startable, Settled
<1>4. OneAttempt'
  BY DEF KnowledgeIsSound, OneAttempt, Attempting, Op
<1> QED
  BY <1>2, <1>3, <1>4 DEF KnowledgeIsSound

\* People, the clock, reconciliation and late requests.
LEMMA EnvironmentKnows ==
  ASSUME InvTyped, RestTyped, KnowledgeIsSound, Environment
  PROVE  KnowledgeIsSound'
<1>1. ASSUME UNCHANGED <<rec, recLock, effects, inflight, inv>> PROVE KnowledgeIsSound'
  BY <1>1 DEF KnowledgeIsSound, RecordKnows, InvocationKnows, OneAttempt, Startable, Settled,
              At, AnsweredSuccess, Attempting, Op
<1>2. ASSUME NEW o \in Ops, Reconcile(o) PROVE KnowledgeIsSound'
  <2> DEFINE v == IF effects[o] > 0 THEN "EFFECT_CONFIRMED" ELSE "NO_EFFECT_CONFIRMED"
             c == [rec[o] EXCEPT !.state = "RECONCILED", !.reconciled = v]
  <2>1. /\ rec' = [rec EXCEPT ![o] = c] /\ rec[o].state = "UNKNOWN_EXTERNAL_OUTCOME" /\ ~inflight[o]
        /\ UNCHANGED <<effects, inflight, inv, recLock>>
    BY <1>2 DEF Reconcile, lockVars, worldVars, provider
  <2>2. rec[o] \in RecordRow /\ effects[o] \in Nat /\ RecordKnows(o)
    BY DEF RestTyped, KnowledgeIsSound
  <2>3. c.state = "RECONCILED" /\ c.reconciled = v
    BY <2>2 DEF RecordRow
  <2>4. rec'[o].state = "RECONCILED" /\ rec'[o].reconciled = v /\ OnlyTouches(o)
    BY <2>1, <2>3 DEF RestTyped, OnlyTouches
  <2>5. RecordKnows(o)'
    BY <2>1, <2>2, <2>4 DEF RecordKnows, Startable, Settled
  <2>6. ASSUME NEW q \in Procs, Op(q) = o PROVE InvocationKnows(q)'
    <3>1. InvocationKnows(q)
      BY DEF KnowledgeIsSound
    <3>2. inv[q].pc \notin {"start", "execute", "effected", "complete", "completing"}
      BY <2>1, <2>6, <3>1 DEF InvocationKnows, At, Startable
    <3> QED
      BY <2>1, <2>6, <3>1, <3>2 DEF InvocationKnows, At, AnsweredSuccess, Op
  <2> QED
    BY <2>1, <2>4, <2>5, <2>6, OutsideStep
<1>3. ASSUME NEW o \in Ops, NEW applied \in BOOLEAN, LateEffect(o, applied) PROVE KnowledgeIsSound'
  <2>1. /\ inflight[o] /\ inflight' = [inflight EXCEPT ![o] = FALSE]
        /\ effects' = [effects EXCEPT ![o] = effects[o] + (IF applied THEN 1 ELSE 0)]
        /\ UNCHANGED <<rec, inv, recLock>>
    BY <1>3 DEF LateEffect, lockVars
  <2>2. RecordKnows(o) /\ effects[o] = 0 /\ ~Startable(rec[o]) /\ ~Settled(rec[o])
    BY <2>1 DEF KnowledgeIsSound, RecordKnows
  <2>3. ~inflight'[o] /\ effects'[o] \in {0, 1} /\ OnlyTouches(o)
    BY <2>1, <2>2 DEF RestTyped, OnlyTouches
  <2>4. RecordKnows(o)'
    BY <2>1, <2>2, <2>3 DEF RecordKnows, Startable, Settled
  <2>5. ASSUME NEW q \in Procs, Op(q) = o PROVE InvocationKnows(q)'
    <3>1. InvocationKnows(q)
      BY DEF KnowledgeIsSound
    <3>2. /\ inv[q].pc \notin {"start", "execute", "effected", "replay"} /\ ~AnsweredSuccess(q)
          /\ inv[q].pc \in {"complete", "completing"} =>
               inv[q].target \notin {"SUCCEEDED", "FAILED_PRE_EFFECT"}
      BY <2>1, <2>2, <2>5, <3>1 DEF InvocationKnows, At
    <3> QED
      BY <2>1, <2>5, <3>1, <3>2 DEF InvocationKnows, At, AnsweredSuccess, Op
  <2> QED
    BY <2>1, <2>3, <2>4, <2>5, OutsideStep
<1>4. \/ \E o \in Ops : Reconcile(o) \/ \E applied \in BOOLEAN : LateEffect(o, applied)
      \/ UNCHANGED <<rec, recLock, effects, inflight, inv>>
  BY DEF Environment, Decide, Revoke, Expire, Activate, Disable, lockVars, worldVars, provider
<1> QED
  BY <1>1, <1>2, <1>3, <1>4

\* Every step preserves it.
LEMMA StepKnows == TypeOK /\ KnowledgeIsSound /\ [Next]_vars => KnowledgeIsSound'
<1> SUFFICES ASSUME InvTyped, RestTyped, KnowledgeIsSound, [Next]_vars PROVE KnowledgeIsSound'
  BY TypeParts
<1>1. CASE UNCHANGED vars
  BY <1>1 DEF vars, lockVars, worldVars, provider, KnowledgeIsSound, RecordKnows, InvocationKnows,
              OneAttempt, Startable, Settled, At, AnsweredSuccess, Attempting, Op
<1>2. ASSUME NEW p \in Procs, Return(p) PROVE KnowledgeIsSound'
  <2>1. Becomes(p, Idle) /\ Idle.pc = "idle" /\ UNCHANGED <<rec, effects, inflight>> /\ KeepsLocks(p)
    BY <1>2 DEF Return, Idle, worldVars, provider, lockVars, KeepsLocks
  <2> QED
    BY <2>1, QuietMove
<1> QED
  BY <1>1, <1>2, ReservingKnows, AcquiringKnows, StartingKnows, ExecutingKnows, CompletingKnows,
     CrashingKnows, EnvironmentKnows DEF Next, Proceed, Targets

\* What rows and invocations know of the provider stays sound for ever.
THEOREM KnowledgeStaysSound == Spec => []KnowledgeIsSound
<1>1. TypeOK /\ KnowledgeIsSound /\ [Next]_vars => KnowledgeIsSound'
  BY StepKnows
<1> QED
  BY InitKnows, TypeCorrect, <1>1, PTL DEF Spec

\* The provider applies every operation at most once.
THEOREM EffectAtMostOnce == Spec => []AtMostOneEffect
<1>1. KnowledgeIsSound => AtMostOneEffect
  BY DEF KnowledgeIsSound, RecordKnows, AtMostOneEffect
<1> QED
  BY KnowledgeStaysSound, <1>1, PTL

\* Recorded and answered outcomes are true of the provider.
THEOREM OutcomesStayTrue == Spec => []OutcomesAreTrue
<1>1. TypeOK /\ KnowledgeIsSound => OutcomesAreTrue
  <2> SUFFICES ASSUME TypeOK, KnowledgeIsSound PROVE OutcomesAreTrue
    OBVIOUS
  <2>1. ASSUME NEW o \in Ops
        PROVE  /\ rec[o].state = "SUCCEEDED" \/ rec[o].reconciled = "EFFECT_CONFIRMED" => effects[o] = 1
               /\ \/ rec[o].state \in {"NONE", "FAILED_PRE_EFFECT"}
                  \/ rec[o].reconciled = "NO_EFFECT_CONFIRMED"
                  => effects[o] = 0 /\ ~inflight[o]
    BY DEF KnowledgeIsSound, RecordKnows, Startable, Settled
  <2>2. \A p \in Procs : AnsweredSuccess(p) => effects[Op(p)] = 1
    BY DEF KnowledgeIsSound, InvocationKnows
  <2> QED
    BY <2>1, <2>2 DEF OutcomesAreTrue
<1> QED
  BY KnowledgeStaysSound, TypeCorrect, <1>1, PTL

-----------------------------------------------------------------------------
(* Who may start an attempt, for how long one stays, and what a refusal    *)
(* ends.                                                                   *)

\* What an operation's rows say of the policy it is under.
Governed(o) ==
  /\ call[o].digest # NoDigest
  /\ \/ Policy[call[o].digest[1]] = "ALLOW"
     \/ Policy[call[o].digest[1]] = "REQUIRES_APPROVAL" /\ approval[o].decision = "APPROVE"
RowIsGoverned(o) ==
  /\ rec[o].state = "EXECUTING" => call[o].status = "EXECUTING"
  /\ call[o].digest = NoDigest => call[o] = NoCall
  /\ approval[o].requested =>
       call[o].digest # NoDigest /\ Policy[call[o].digest[1]] = "REQUIRES_APPROVAL"
  /\ approval[o].revoked \/ approval[o].decision # "NONE" => approval[o].requested
  /\ effects[o] > 0 \/ inflight[o] => started[o] > 0
  /\ started[o] > 0 => Governed(o)

\* What an invocation's progress says of it.  One that is cleared to start has
\* the row's binding, or holds the key of the row it will insert.
Cleared(p) == inv[p].pc \in {"verify", "record", "acquire", "start"}
Binds(p) == \/ call[Op(p)].digest = inv[p].digest
            \/ call[Op(p)] = NoCall /\ callLock[Op(p)] = p
InvocationIsGoverned(p) ==
  /\ inv[p].pc \notin {"idle", "answered"} => Decision(p) # "DENY"
  /\ At(p, "approval") => call[Op(p)].digest = inv[p].digest /\ Decision(p) = "REQUIRES_APPROVAL"
  /\ Cleared(p) => Binds(p) /\ (Decision(p) = "ALLOW" \/ approval[Op(p)].decision = "APPROVE")
  /\ Attempting(p) => started[Op(p)] > 0
Governance ==
  /\ \A o \in Ops : RowIsGoverned(o)
  /\ \A p \in Procs : InvocationIsGoverned(p)


\* A binding is not the absence of one.
LEMMA DigestIsBound == \A d \in Digests : d # NoDigest
  BY DEF Digests, NoDigest

\* Bindings, approvals and attempts are not taken back.
Advances ==
  \A o \in Ops : /\ call[o].digest # NoDigest => call'[o].digest = call[o].digest
                 /\ approval[o].decision = "APPROVE" => approval'[o].decision = "APPROVE"
                 /\ started[o] > 0 => started'[o] > 0
\* An uncommitted insert of another transaction stays so.
InsertsStay(p) ==
  \A o \in Ops, q \in Procs \ {p} :
    call[o] = NoCall /\ callLock[o] = q => call'[o] = NoCall /\ callLock'[o] = q

\* What is so of an invocation that does not move stays so.
LEMMA OthersStayGoverned ==
  ASSUME InvTyped, NEW p, NEW q \in Procs, q # p, inv'[q] = inv[q], Advances, InsertsStay(p),
         InvocationIsGoverned(q)
  PROVE  InvocationIsGoverned(q)'
<1>1. CASE inv[q].pc \in {"idle", "answered"}
  BY <1>1 DEF InvocationIsGoverned, Cleared, Attempting, At
<1>2. CASE inv[q].pc \notin {"idle", "answered"}
  <2>1. inv[q].op \in Ops /\ inv[q].digest \in Digests /\ inv[q].digest # NoDigest
    BY <1>2, DigestIsBound DEF InvTyped, Bound
  <2>2. Binds(q) => Binds(q)'
    BY <2>1 DEF Binds, Op, Advances, InsertsStay
  <2> QED
    BY <2>1, <2>2 DEF InvocationIsGoverned, Cleared, Attempting, At, Op, Decision, Advances
<1> QED
  BY <1>1, <1>2

\* A step of one invocation.
LEMMA MoveIsGoverned ==
  ASSUME InvTyped, Governance, NEW p \in Procs, NEW r, Becomes(p, r), Advances, InsertsStay(p),
         \A o \in Ops : RowIsGoverned(o)', InvocationIsGoverned(p)'
  PROVE  Governance'
<1>1. ASSUME NEW q \in Procs, q # p PROVE InvocationIsGoverned(q)'
  BY <1>1, OnlyMoves, OthersStayGoverned DEF Governance
<1> QED
  BY <1>1 DEF Governance

\* Ending a transaction keeps the uncommitted inserts of the others, and so
\* does taking a free row.
LEMMA ReleaseKeepsInserts ==
  ASSUME RestTyped, NEW p, ReleaseLocks(p), call' = call
  PROVE  InsertsStay(p)
  BY DEF RestTyped, ReleaseLocks, Release, InsertsStay
LEMMA TakeKeepsInserts ==
  ASSUME RestTyped, NEW p, call' = call,
         \/ callLock' = callLock
         \/ \E o \in Ops : callLock[o] = None /\ callLock' = [callLock EXCEPT ![o] = p]
  PROVE  InsertsStay(p)
  BY NoneAssumption DEF RestTyped, InsertsStay

\* One that commits nothing to the governed rows.
LEMMA QuietMoveIsGoverned ==
  ASSUME InvTyped, Governance, NEW p \in Procs, NEW r, Becomes(p, r),
         UNCHANGED <<call, rec, approval, started>>, InsertsStay(p), InvocationIsGoverned(p)',
         \A o \in Ops : effects'[o] > 0 \/ inflight'[o] => effects[o] > 0 \/ inflight[o] \/ started[o] > 0
  PROVE  Governance'
<1>1. Advances
  BY DEF Advances
<1>2. ASSUME NEW o \in Ops PROVE RowIsGoverned(o)'
  BY DEF Governance, RowIsGoverned, Governed
<1> QED
  BY <1>1, <1>2, MoveIsGoverned

\* An invocation that is over claims nothing.
LEMMA AnswerIsGoverned ==
  ASSUME InvTyped, NEW p \in Procs, NEW r, Becomes(p, r), r.pc \in {"idle", "answered"}
  PROVE  InvocationIsGoverned(p)'
<1>1. inv'[p] = r
  BY OnlyMoves
<1> QED
  BY <1>1 DEF InvocationIsGoverned, Cleared, Attempting, At
LEMMA AnsweredIsOver == \A p, x : Answered(p, x).pc = "answered" /\ Idle.pc = "idle"
  BY DEF Answered, Idle

\* A permission that is not refused allows or requires an approval.
LEMMA PolicyOf ==
  ASSUME InvTyped, NEW p \in Procs, inv[p].pc \notin {"idle", "answered"}
  PROVE  Decision(p) \in {"ALLOW", "REQUIRES_APPROVAL", "DENY"}
  BY PolicyAssumption DEF InvTyped, Bound, Digests, Decision

\* Up to the record: what each answer of the permission engine, the operation's
\* row and the approval lets through.
LEMMA ReservingIsGoverned ==
  ASSUME InvTyped, RestTyped, Governance, NEW p \in Procs,
         \/ \E o \in Ops, i \in Inputs, execute \in BOOLEAN : Invoke(p, o, i, execute)
         \/ InsertCall(p) \/ ReadCall(p) \/ ValidateApproval(p) \/ VerifySnapshot(p)
  PROVE  Governance'
<1> DEFINE Quiet == UNCHANGED <<call, rec, approval, started, effects, inflight>>
<1>1. ASSUME NEW r, Becomes(p, r), r.pc \in {"idle", "answered"}, Quiet, InsertsStay(p)
      PROVE  Governance'
  BY <1>1, AnswerIsGoverned, QuietMoveIsGoverned
<1>2. ASSUME NEW o \in Ops, NEW i \in Inputs, NEW execute \in BOOLEAN, Invoke(p, o, i, execute)
      PROVE  Governance'
  <2>1. Quiet /\ InsertsStay(p)
    BY <1>2, TakeKeepsInserts DEF Invoke, authVars, worldVars, provider, lockVars
  <2>2. CASE active.enabled /\ Policy[active.version] # "DENY"
    <3> DEFINE r == [Idle EXCEPT !.pc = "reserve", !.op = o, !.execute = execute,
                       !.digest = <<active.version, i>>, !.late = approval[o].expired]
    <3>1. Becomes(p, r) /\ r.pc = "reserve" /\ r.digest[1] = active.version
      BY <1>2, <2>2 DEF Invoke, Idle
    <3>2. InvocationIsGoverned(p)'
      BY <2>2, <3>1, OnlyMoves DEF InvocationIsGoverned, Cleared, Attempting, At, Decision
    <3> QED
      BY <2>1, <3>1, <3>2, QuietMoveIsGoverned
  <2>3. CASE ~(active.enabled /\ Policy[active.version] # "DENY")
    <3> DEFINE r == [Idle EXCEPT !.pc = "answered", !.op = o, !.result = "DENIED"]
    <3>1. Becomes(p, r) /\ r.pc = "answered"
      BY <1>2, <2>3 DEF Invoke, Idle
    <3> QED
      BY <1>1, <2>1, <3>1
  <2> QED
    BY <2>2, <2>3
<1>3. CASE InsertCall(p)
  <2> DEFINE r == [inv[p] EXCEPT !.pc = "verify", !.seen = "READY"]
  <2>1. Becomes(p, r) /\ Quiet /\ inv[p].pc = "reserve" /\ Decision(p) = "ALLOW" /\ call[Op(p)] = NoCall
    BY <1>3 DEF InsertCall, authVars, worldVars, provider, At
  <2>2. /\ r.pc = "verify" /\ r.op = Op(p) /\ r.digest = inv[p].digest /\ inv'[p] = r
        /\ Op(p) \in Ops
    BY <2>1, OnlyMoves DEF InvTyped, Invocation, Op, Bound
  <2>3. callLock[Op(p)] = None /\ callLock' = [callLock EXCEPT ![Op(p)] = p]
    BY <1>3, <2>1 DEF InsertCall, ReserveCanRun
  <2>4. InsertsStay(p) /\ callLock'[Op(p)] = p
    BY <2>1, <2>2, <2>3, TakeKeepsInserts DEF RestTyped
  <2>5. InvocationIsGoverned(p)'
    BY <2>1, <2>2, <2>4 DEF InvocationIsGoverned, Cleared, Binds, Attempting, At, Decision, Op
  <2> QED
    BY <2>1, <2>4, <2>5, QuietMoveIsGoverned
<1>4. ASSUME ReadCall(p) \/ ValidateApproval(p) \/ VerifySnapshot(p), NEW l \in {"approval", "verify", "record"},
             NEW n, Becomes(p, [inv[p] EXCEPT !.pc = l, !.seen = n]), UNCHANGED lockVars,
             l = "approval" => call[Op(p)].digest = inv[p].digest /\ Decision(p) = "REQUIRES_APPROVAL",
             l # "approval" => call[Op(p)].digest = inv[p].digest \/ Binds(p),
             l # "approval" => Decision(p) = "ALLOW" \/ approval[Op(p)].decision = "APPROVE"
      PROVE  Governance'
  <2> DEFINE r == [inv[p] EXCEPT !.pc = l, !.seen = n]
  <2>1. Quiet /\ InsertsStay(p)
    BY <1>4, TakeKeepsInserts DEF ReadCall, ValidateApproval, VerifySnapshot, authVars, worldVars,
                                  provider, lockVars
  <2>2. r.pc = l /\ r.op = Op(p) /\ r.digest = inv[p].digest /\ inv'[p] = r
    BY <1>4, OnlyMoves DEF InvTyped, Invocation, Op
  <2>3. inv[p].pc \notin {"idle", "answered"}
    BY <1>4 DEF ReadCall, ValidateApproval, VerifySnapshot, At
  <2>4. Decision(p) # "DENY"
    BY <2>3 DEF Governance, InvocationIsGoverned
  <2>5. InvocationIsGoverned(p)'
    BY <1>4, <2>1, <2>2, <2>4 DEF InvocationIsGoverned, Cleared, Binds, Attempting, At, Decision, Op, lockVars
  <2> QED
    BY <1>4, <2>1, <2>5, QuietMoveIsGoverned
<1>5. ASSUME ReadCall(p) \/ ValidateApproval(p) \/ VerifySnapshot(p), NEW x, AnswerWith(p, x),
             UNCHANGED lockVars \/ ReleaseLocks(p)
      PROVE  Governance'
  <2>1. Quiet
    BY <1>5 DEF ReadCall, ValidateApproval, VerifySnapshot, authVars, worldVars, provider
  <2>2. InsertsStay(p)
    BY <1>5, <2>1, TakeKeepsInserts, ReleaseKeepsInserts DEF lockVars
  <2> QED
    BY <1>1, <1>5, <2>1, <2>2, AnsweredIsOver DEF AnswerWith
<1>6. CASE ReadCall(p)
  <2>1. inv[p].pc = "reserve" /\ UNCHANGED lockVars
    BY <1>6 DEF ReadCall, At
  <2>2. CASE call[Op(p)].digest # inv[p].digest
    BY <1>5, <1>6, <2>1, <2>2 DEF ReadCall
  <2>3. CASE call[Op(p)].digest = inv[p].digest
    <3>1. Decision(p) \in {"ALLOW", "REQUIRES_APPROVAL"}
      BY <2>1, PolicyOf DEF Governance, InvocationIsGoverned
    <3>2. Becomes(p, [inv[p] EXCEPT
            !.pc = IF Decision(p) = "REQUIRES_APPROVAL" THEN "approval" ELSE "verify",
            !.seen = call[Op(p)].status])
      BY <1>6, <2>3 DEF ReadCall
    <3>3. CASE Decision(p) = "REQUIRES_APPROVAL"
      BY <1>4, <1>6, <2>1, <2>3, <3>2, <3>3
    <3>4. CASE Decision(p) = "ALLOW"
      <4>1. Becomes(p, [inv[p] EXCEPT !.pc = "verify", !.seen = call[Op(p)].status])
        BY <3>2, <3>4
      <4> QED
        BY <1>4, <1>6, <2>1, <2>3, <3>4, <4>1
    <3> QED
      BY <3>1, <3>3, <3>4
  <2> QED
    BY <2>2, <2>3
<1>7. ASSUME NEW l, Goto(p, l) PROVE Becomes(p, [inv[p] EXCEPT !.pc = l, !.seen = inv[p].seen])
  BY <1>7 DEF Goto, InvTyped, Invocation
<1>8. CASE ValidateApproval(p)
  <2> DEFINE state == ApprovalState(approval[Op(p)], inv[p].late)
  <2>1. inv[p].pc = "approval" /\ UNCHANGED lockVars
    BY <1>8 DEF ValidateApproval, At
  <2>2. CASE state = "APPROVED"
    <3>1. Goto(p, "verify") /\ approval[Op(p)].decision = "APPROVE"
      BY <1>8, <2>2 DEF ValidateApproval, ApprovalState
    <3>2. call[Op(p)].digest = inv[p].digest
      BY <2>1 DEF Governance, InvocationIsGoverned, At
    <3> QED
      BY <1>4, <1>7, <1>8, <2>1, <3>1, <3>2
  <2>3. CASE state # "APPROVED"
    BY <1>5, <1>8, <2>1, <2>3 DEF ValidateApproval
  <2> QED
    BY <2>2, <2>3
<1>9. CASE VerifySnapshot(p)
  <2>1. inv[p].pc = "verify"
    BY <1>9 DEF VerifySnapshot, At
  <2>2. Binds(p) /\ (Decision(p) = "ALLOW" \/ approval[Op(p)].decision = "APPROVE")
    BY <2>1 DEF Governance, InvocationIsGoverned, Cleared
  <2>3. CASE SnapshotActive(inv[p].digest) /\ inv[p].execute
    <3>1. Goto(p, "record") /\ UNCHANGED lockVars
      BY <1>9, <2>3 DEF VerifySnapshot
    <3> QED
      BY <1>4, <1>7, <1>9, <2>2, <3>1
  <2>4. CASE ~(SnapshotActive(inv[p].digest) /\ inv[p].execute)
    BY <1>5, <1>9, <2>4 DEF VerifySnapshot
  <2> QED
    BY <2>3, <2>4
<1> QED
  BY <1>2, <1>3, <1>6, <1>8, <1>9

\* What another step of an invocation leaves as it was of its own knowledge.
LEMMA OwnStaysGoverned ==
  ASSUME InvTyped, Governance, NEW p \in Procs, NEW r, Becomes(p, r),
         r.op = Op(p), r.digest = inv[p].digest, UNCHANGED <<call, approval, started>>,
         inv[p].pc \notin {"idle", "answered"},
         \/ r.pc = "replay"
         \/ Cleared(p) /\ r.pc \in {"record", "acquire", "start"} /\ callLock' = callLock
         \/ Attempting(p) /\ r.pc \in {"effected", "complete", "completing"}
  PROVE  InvocationIsGoverned(p)'
<1>1. inv'[p] = r
  BY OnlyMoves
<1>2. InvocationIsGoverned(p)
  BY DEF Governance
<1> QED
  BY <1>1, <1>2 DEF InvocationIsGoverned, Cleared, Binds, Attempting, At, Op, Decision

\* The record of the operation.
LEMMA AcquiringIsGoverned ==
  ASSUME InvTyped, RestTyped, Governance, NEW p \in Procs,
         InsertRecord(p) \/ ReadRecord(p) \/ AcquireAttempt(p)
  PROVE  Governance'
<1>1. /\ UNCHANGED <<call, rec, approval, started, effects, inflight>> /\ inv[p].pc \in {"record", "acquire"}
      /\ Cleared(p) /\ Op(p) \in Ops /\ inv[p] \in Invocation
  BY DEF InsertRecord, ReadRecord, AcquireAttempt, authVars, worldVars, provider, At, Cleared,
         InvTyped, Bound, Op
<1>2. ASSUME NEW r, Becomes(p, r), callLock' = callLock, r.op = Op(p), r.digest = inv[p].digest,
             r.pc \in {"replay", "acquire", "start"}
      PROVE  Governance'
  <2>1. InsertsStay(p)
    BY <1>1, <1>2, TakeKeepsInserts
  <2>2. InvocationIsGoverned(p)'
    BY <1>1, <1>2, OwnStaysGoverned
  <2> QED
    BY <1>1, <1>2, <2>1, <2>2, QuietMoveIsGoverned
<1>3. ASSUME NEW x, AnswerWith(p, x), UNCHANGED callLock \/ ReleaseLocks(p) PROVE Governance'
  <2>1. InsertsStay(p)
    BY <1>1, <1>3, TakeKeepsInserts, ReleaseKeepsInserts
  <2>2. InvocationIsGoverned(p)'
    BY <1>3, AnswerIsGoverned, AnsweredIsOver DEF AnswerWith
  <2> QED
    BY <1>1, <1>3, <2>1, <2>2, QuietMoveIsGoverned DEF AnswerWith
<1>4. CASE InsertRecord(p)
  <2> DEFINE r == [inv[p] EXCEPT !.pc = "start", !.count = 1]
  <2>1. Becomes(p, r) /\ callLock' = callLock
    BY <1>4 DEF InsertRecord
  <2>2. r.op = Op(p) /\ r.digest = inv[p].digest /\ r.pc = "start"
    BY <1>1 DEF Op, Invocation
  <2> QED
    BY <1>2, <2>1, <2>2
<1>5. ASSUME NEW l \in {"replay", "start"}, Goto(p, l), callLock' = callLock PROVE Governance'
  <2> DEFINE r == [inv[p] EXCEPT !.pc = l]
  <2>1. r.op = Op(p) /\ r.digest = inv[p].digest /\ r.pc = l /\ Becomes(p, r)
    BY <1>1, <1>5 DEF Op, Invocation, Goto
  <2> QED
    BY <1>2, <1>5, <2>1
<1>6. CASE AcquireAttempt(p)
  BY <1>3, <1>5, <1>6 DEF AcquireAttempt
<1>7. CASE ReadRecord(p)
  <2> DEFINE r == [inv[p] EXCEPT !.pc = "acquire", !.count = rec[Op(p)].count + 1]
  <2>1. r.op = Op(p) /\ r.digest = inv[p].digest /\ r.pc = "acquire"
    BY <1>1 DEF Op, Invocation
  <2>2. CASE Becomes(p, r) /\ UNCHANGED lockVars
    BY <1>2, <2>1, <2>2 DEF lockVars
  <2>3. CASE Goto(p, "replay") /\ UNCHANGED lockVars
    BY <1>5, <2>3 DEF lockVars
  <2>4. ASSUME NEW x, AnswerWith(p, x), ReleaseLocks(p) PROVE Governance'
    BY <1>3, <2>4
  <2> QED
    BY <1>7, <2>2, <2>3, <2>4 DEF ReadRecord
<1> QED
  BY <1>4, <1>6, <1>7

\* The executor: it acts in an attempt, which has been counted.
LEMMA ExecutingIsGoverned ==
  ASSUME InvTyped, RestTyped, Governance, NEW p \in Procs,
         \/ ExternalEffect(p)
         \/ \E target \in Targets, late \in BOOLEAN : ExecutorOutcome(p, target, late)
         \/ CompleteLocksCall(p) \/ CompleteFails(p)
         \/ \E late \in BOOLEAN : Crash(p, late)
         \/ Return(p)
  PROVE  Governance'
<1>1. /\ UNCHANGED <<call, rec, approval, started>>
      /\ inv[p].pc = "idle" \/ Op(p) \in Ops
      /\ inv[p] \in Invocation
  BY DEF ExternalEffect, ExecutorOutcome, CompleteLocksCall, CompleteFails, Crash, Return,
         authVars, worldVars, provider, InvTyped, Bound, Op
<1>2. Attempting(p) => started[Op(p)] > 0
  BY DEF Governance, InvocationIsGoverned
<1>3. \A o \in Ops : effects'[o] > 0 \/ inflight'[o] => effects[o] > 0 \/ inflight[o] \/ started[o] > 0
  <2>1. CASE ExternalEffect(p)
    <3>1. /\ effects' = [effects EXCEPT ![Op(p)] = @ + 1] /\ inflight' = inflight
          /\ Attempting(p) /\ Op(p) \in Ops
      BY <1>1, <2>1 DEF ExternalEffect, Attempting, At
    <3>2. \A o \in Ops : o # Op(p) => effects'[o] = effects[o]
      BY <3>1 DEF RestTyped
    <3> QED
      BY <1>2, <3>1, <3>2
  <2>2. ASSUME NEW target \in Targets, NEW late \in BOOLEAN, ExecutorOutcome(p, target, late)
        PROVE  \A o \in Ops : effects'[o] > 0 \/ inflight'[o] => effects[o] > 0 \/ inflight[o] \/ started[o] > 0
    <3>1. inflight' = [inflight EXCEPT ![Op(p)] = late] /\ effects' = effects /\ Attempting(p) /\ Op(p) \in Ops
      BY <1>1, <2>2 DEF ExecutorOutcome, Attempting, At
    <3>2. \A o \in Ops : o # Op(p) => inflight'[o] = inflight[o]
      BY <3>1 DEF RestTyped
    <3> QED
      BY <1>2, <3>1, <3>2
  <2>3. ASSUME NEW late \in BOOLEAN, Crash(p, late)
        PROVE  \A o \in Ops : effects'[o] > 0 \/ inflight'[o] => effects[o] > 0 \/ inflight[o] \/ started[o] > 0
    <3>1. /\ inflight' = [inflight EXCEPT ![Op(p)] = inflight[Op(p)] \/ late] /\ effects' = effects
          /\ Op(p) \in Ops /\ (late => Attempting(p))
      BY <1>1, <2>3 DEF Crash, Attempting, At
    <3>2. \A o \in Ops : o # Op(p) => inflight'[o] = inflight[o]
      BY <3>1 DEF RestTyped
    <3>3. inflight'[Op(p)] => inflight[Op(p)] \/ late
      BY <3>1 DEF RestTyped
    <3> QED
      BY <1>2, <3>1, <3>2, <3>3
  <2>4. CASE CompleteLocksCall(p) \/ CompleteFails(p) \/ Return(p)
    BY <2>4 DEF CompleteLocksCall, CompleteFails, Return, worldVars, provider
  <2> QED
    BY <2>1, <2>2, <2>3, <2>4
<1>4. ASSUME NEW r, Becomes(p, r), r.op = Op(p), r.digest = inv[p].digest, Attempting(p),
             r.pc \in {"effected", "complete", "completing"}, InsertsStay(p)
      PROVE  Governance'
  <2>1. InvocationIsGoverned(p)'
    BY <1>1, <1>4, OwnStaysGoverned DEF Attempting
  <2> QED
    BY <1>1, <1>3, <1>4, <2>1, QuietMoveIsGoverned
<1>5. ASSUME NEW r, Becomes(p, r), r.pc \in {"idle", "answered"}, InsertsStay(p) PROVE Governance'
  <2>1. InvocationIsGoverned(p)'
    BY <1>5, AnswerIsGoverned
  <2> QED
    BY <1>1, <1>3, <1>5, <2>1, QuietMoveIsGoverned
<1>6. CASE ExternalEffect(p)
  <2> DEFINE r == [inv[p] EXCEPT !.pc = "effected"]
  <2>1. Becomes(p, r) /\ r.op = Op(p) /\ r.digest = inv[p].digest /\ r.pc = "effected"
    BY <1>1, <1>6 DEF ExternalEffect, Goto, Op, Invocation
  <2>2. Attempting(p) /\ InsertsStay(p)
    BY <1>1, <1>6, TakeKeepsInserts DEF ExternalEffect, Attempting, At, lockVars
  <2> QED
    BY <1>4, <2>1, <2>2
<1>7. ASSUME NEW target \in Targets, NEW late \in BOOLEAN, ExecutorOutcome(p, target, late)
      PROVE  Governance'
  <2> DEFINE r == [inv[p] EXCEPT !.pc = "complete", !.target = target]
  <2>1. Becomes(p, r) /\ r.op = Op(p) /\ r.digest = inv[p].digest /\ r.pc = "complete"
    BY <1>1, <1>7 DEF ExecutorOutcome, Op, Invocation
  <2>2. Attempting(p) /\ InsertsStay(p)
    BY <1>1, <1>7, TakeKeepsInserts DEF ExecutorOutcome, Attempting, At, lockVars
  <2> QED
    BY <1>4, <2>1, <2>2
<1>8. CASE CompleteLocksCall(p)
  <2> DEFINE r == [inv[p] EXCEPT !.pc = "completing"]
  <2>1. Becomes(p, r) /\ r.op = Op(p) /\ r.digest = inv[p].digest /\ r.pc = "completing"
    BY <1>1, <1>8 DEF CompleteLocksCall, Goto, Op, Invocation
  <2>2. inv[p].pc = "complete" /\ callLock[Op(p)] = None /\ callLock' = [callLock EXCEPT ![Op(p)] = p]
    BY <1>8 DEF CompleteLocksCall, At
  <2>3. Attempting(p) /\ InsertsStay(p)
    BY <1>1, <2>2, TakeKeepsInserts DEF Attempting
  <2> QED
    BY <1>4, <2>1, <2>3
<1>9. CASE CompleteFails(p)
  <2>1. CompletionRaises(p) /\ Attempting(p) /\ InsertsStay(p)
    BY <1>1, <1>9, ReleaseKeepsInserts DEF CompleteFails, Attempting, At
  <2> DEFINE r == [inv[p] EXCEPT !.pc = "complete", !.rescue = TRUE, !.target = "UNKNOWN_EXTERNAL_OUTCOME"]
  <2>2. r.op = Op(p) /\ r.digest = inv[p].digest /\ r.pc = "complete"
    BY <1>1 DEF Op, Invocation
  <2>3. CASE Becomes(p, r)
    BY <1>4, <2>1, <2>2, <2>3
  <2>4. ASSUME NEW x, AnswerWith(p, x) PROVE Governance'
    BY <1>5, <2>1, <2>4, AnsweredIsOver DEF AnswerWith
  <2> QED
    BY <2>1, <2>3, <2>4 DEF CompletionRaises
<1>10. ASSUME NEW late \in BOOLEAN, Crash(p, late) PROVE Governance'
  <2>1. Becomes(p, Idle) /\ InsertsStay(p)
    BY <1>1, <1>10, ReleaseKeepsInserts DEF Crash
  <2> QED
    BY <1>5, <2>1, AnsweredIsOver
<1>11. CASE Return(p)
  <2>1. Becomes(p, Idle) /\ InsertsStay(p)
    BY <1>1, <1>11, TakeKeepsInserts DEF Return, lockVars
  <2> QED
    BY <1>5, <2>1, AnsweredIsOver
<1> QED
  BY <1>6, <1>7, <1>8, <1>9, <1>10, <1>11

\* A step that writes the rows of one operation.
LEMMA LoudMoveIsGoverned ==
  ASSUME InvTyped, Governance, NEW p \in Procs, NEW r, Becomes(p, r), NEW o \in Ops,
         \A x \in Ops \ {o} : /\ call'[x] = call[x] /\ rec'[x] = rec[x] /\ approval'[x] = approval[x]
                              /\ started'[x] = started[x],
         UNCHANGED <<effects, inflight>>,
         call[o].digest # NoDigest => call'[o].digest = call[o].digest,
         approval[o].decision = "APPROVE" => approval'[o].decision = "APPROVE",
         started[o] > 0 => started'[o] > 0,
         InsertsStay(p), RowIsGoverned(o)', InvocationIsGoverned(p)'
  PROVE  Governance'
<1>1. Advances
  BY DEF Advances
<1>2. ASSUME NEW x \in Ops, x # o PROVE RowIsGoverned(x)'
  BY <1>2 DEF Governance, RowIsGoverned, Governed
<1> QED
  BY <1>1, <1>2, MoveIsGoverned

\* Nobody else holds the key of an operation's row that p may write.
LEMMA InsertsElsewhereStay ==
  ASSUME RestTyped, NEW p \in Procs, NEW o \in Ops, callLock[o] \in {None, p},
         \A x \in Ops \ {o} : call'[x] = call[x], UNCHANGED callLock \/ ReleaseLocks(p)
  PROVE  InsertsStay(p)
  BY NoneAssumption DEF RestTyped, ReleaseLocks, Release, InsertsStay

\* The request for an approval: the row is bound to a policy that wants one.
LEMMA RequestingIsGoverned ==
  ASSUME InvTyped, RestTyped, Governance, NEW p \in Procs, NEW o \in Ops, o = Op(p), RequestApproval(p)
  PROVE  Governance'
<1> DEFINE c == [NoCall EXCEPT !.status = "AWAITING_APPROVAL", !.digest = inv[p].digest]
<1>1. /\ call[o] = NoCall /\ callLock[o] = None /\ call' = [call EXCEPT ![o] = c]
      /\ approval' = [approval EXCEPT ![o].requested = TRUE]
      /\ UNCHANGED <<rec, callLock, started, effects, inflight>>
      /\ Decision(p) = "REQUIRES_APPROVAL" /\ AnswerWith(p, "AWAITING_APPROVAL")
      /\ inv[p].pc = "reserve"
  BY DEF RequestApproval, ReserveCanRun, lockVars, provider, At
<1>2. o \in Ops /\ inv[p].digest \in Digests /\ inv[p].digest # NoDigest
  BY <1>1, DigestIsBound DEF InvTyped, Bound, Op
<1>3. c.digest = inv[p].digest /\ NoCall.digest = NoDigest /\ NoCall.status = "NONE"
  BY DEF NoCall
<1>4. call'[o] = c /\ approval'[o].requested /\ approval'[o].decision = approval[o].decision
  BY <1>1, <1>2 DEF RestTyped, ApprovalRow
<1>5. \A x \in Ops \ {o} : call'[x] = call[x] /\ approval'[x] = approval[x]
  BY <1>1 DEF RestTyped
<1>6. RowIsGoverned(o)
  BY <1>2 DEF Governance
<1>7. RowIsGoverned(o)'
  <2>1. rec[o].state # "EXECUTING" /\ started[o] = 0
    BY <1>1, <1>2, <1>3, <1>6 DEF RowIsGoverned, Governed, RestTyped
  <2>2. call'[o].digest = inv[p].digest /\ Policy[inv[p].digest[1]] = "REQUIRES_APPROVAL"
    BY <1>1, <1>3, <1>4 DEF Decision
  <2>3. ~(effects[o] > 0 \/ inflight[o])
    BY <1>6, <2>1 DEF RowIsGoverned
  <2> QED
    BY <1>1, <1>2, <1>4, <2>1, <2>2, <2>3 DEF RowIsGoverned
<1>8. InsertsStay(p)
  BY <1>1, <1>2, <1>5, InsertsElsewhereStay
<1>9. InvocationIsGoverned(p)'
  BY <1>1, AnswerIsGoverned, AnsweredIsOver DEF AnswerWith
<1> QED
  BY <1>1, <1>2, <1>3, <1>4, <1>5, <1>7, <1>8, <1>9, LoudMoveIsGoverned DEF AnswerWith

\* The row catches up with a reconciliation: the record is not EXECUTING then.
LEMMA ReplayingIsGoverned ==
  ASSUME InvTyped, RestTyped, Governance, NEW p \in Procs, NEW o \in Ops, o = Op(p), ReplayReconciled(p)
  PROVE  Governance'
<1> DEFINE c == [call[o] EXCEPT !.status = "SUCCEEDED", !.outcome = "RECONCILED"]
<1>1. /\ callLock[o] = None /\ UNCHANGED <<rec, approval, callLock, started, effects, inflight>>
      /\ inv[p].pc = "replay"
  BY DEF ReplayReconciled, authVars, lockVars, provider, At
<1>2. PICK x : AnswerWith(p, x)
  BY DEF ReplayReconciled
<1>3. InvocationIsGoverned(p)'
  BY <1>2, AnswerIsGoverned, AnsweredIsOver DEF AnswerWith
<1>4. CASE call[o].status = "UNKNOWN_EXTERNAL_OUTCOME"
  <2>1. call' = [call EXCEPT ![o] = c]
    BY <1>4 DEF ReplayReconciled
  <2>2. call[o] \in CallRow /\ RowIsGoverned(o)
    BY DEF RestTyped, Governance
  <2>3. /\ call'[o] = c /\ c.digest = call[o].digest /\ c.status = "SUCCEEDED"
        /\ \A n \in Ops \ {o} : call'[n] = call[n]
    BY <2>1, <2>2 DEF RestTyped, CallRow
  <2>4. RowIsGoverned(o)'
    <3>1. call[o].digest # NoDigest
      BY <1>4, <2>2 DEF RowIsGoverned, NoCall
    <3> QED
      BY <1>1, <1>4, <2>2, <2>3, <3>1 DEF RowIsGoverned, Governed
  <2>5. InsertsStay(p)
    BY <1>1, <2>3, InsertsElsewhereStay
  <2> QED
    BY <1>1, <1>2, <1>3, <2>3, <2>4, <2>5, LoudMoveIsGoverned DEF AnswerWith
<1>5. CASE call[o].status # "UNKNOWN_EXTERNAL_OUTCOME"
  <2>1. call' = call
    BY <1>5 DEF ReplayReconciled
  <2>2. InsertsStay(p)
    BY <1>1, <2>1, TakeKeepsInserts
  <2> QED
    BY <1>1, <1>2, <1>3, <2>1, <2>2, QuietMoveIsGoverned DEF AnswerWith
<1> QED
  BY <1>4, <1>5

\* The start of an attempt: the invocation is cleared, and the row it writes is
\* bound to what it was cleared for.
LEMMA StartingIsGoverned ==
  ASSUME InvTyped, RestTyped, Governance, NEW p \in Procs, NEW o \in Ops, o = Op(p), CommitExecuting(p)
  PROVE  Governance'
<1>1. /\ inv[p].pc = "start" /\ callLock[o] \in {None, p} /\ ReleaseLocks(p)
      /\ UNCHANGED <<approval, effects, inflight>>
  BY DEF CommitExecuting, authVars, provider, At
<1>2. o \in Ops /\ inv[p].digest \in Digests /\ inv[p].digest # NoDigest /\ inv[p] \in Invocation
  BY <1>1, DigestIsBound DEF InvTyped, Bound, Op
<1>3. Binds(p) /\ (Decision(p) = "ALLOW" \/ approval[o].decision = "APPROVE")
      /\ Decision(p) \in {"ALLOW", "REQUIRES_APPROVAL"}
  BY <1>1, PolicyOf DEF Governance, InvocationIsGoverned, Cleared
<1>4. CASE CallMayStart(inv[p].seen, call[o])
  <2> DEFINE c == [status |-> "EXECUTING", outcome |-> "NOT_STARTED", attempt |-> started[o] + 1,
                   digest |-> IF call[o] = NoCall THEN inv[p].digest ELSE call[o].digest]
             e == [inv[p] EXCEPT !.pc = "execute", !.attempt = started[o] + 1]
  <2>1. /\ started' = [started EXCEPT ![o] = started[o] + 1] /\ call' = [call EXCEPT ![o] = c]
        /\ Becomes(p, e)
    BY <1>4 DEF CommitExecuting
  <2>2. call'[o] = c /\ started'[o] > 0 /\ \A x \in Ops \ {o} : call'[x] = call[x] /\ started'[x] = started[x]
    BY <1>2, <2>1 DEF RestTyped
  <2>3. \A x \in Ops \ {o} : rec'[x] = rec[x]
    BY <1>2, <1>4 DEF CommitExecuting, RestTyped
  <2>4. c.digest = inv[p].digest /\ c.status = "EXECUTING"
    BY <1>3 DEF Binds
  <2>5. call[o].digest # NoDigest => c.digest = call[o].digest
    BY DEF NoCall
  <2>6. RowIsGoverned(o)
    BY <1>2 DEF Governance
  <2>7. Governed(o)'
    BY <1>1, <1>2, <1>3, <2>2, <2>4 DEF Governed, Decision
  <2>8. approval[o].requested => Policy[c.digest[1]] = "REQUIRES_APPROVAL"
    BY <2>5, <2>6 DEF RowIsGoverned
  <2>9. RowIsGoverned(o)'
    BY <1>1, <1>2, <2>2, <2>4, <2>6, <2>7, <2>8 DEF RowIsGoverned
  <2>10. inv'[p] = e /\ e.pc = "execute" /\ e.op = o /\ e.digest = inv[p].digest
    BY <1>2, <2>1, OnlyMoves DEF Invocation, Op
  <2>11. InvocationIsGoverned(p)'
    BY <1>3, <2>2, <2>10 DEF InvocationIsGoverned, Cleared, Attempting, At, Op, Decision
  <2>12. InsertsStay(p)
    BY <1>1, <1>2, <2>2, InsertsElsewhereStay
  <2> QED
    BY <1>1, <1>2, <2>1, <2>2, <2>3, <2>5, <2>9, <2>11, <2>12, LoudMoveIsGoverned
<1>5. CASE ~CallMayStart(inv[p].seen, call[o])
  <2>1. AnswerWith(p, "RAISED") /\ UNCHANGED <<started, rec, call>>
    BY <1>5 DEF CommitExecuting
  <2>2. InsertsStay(p) /\ InvocationIsGoverned(p)'
    BY <1>1, <2>1, ReleaseKeepsInserts, AnswerIsGoverned, AnsweredIsOver DEF AnswerWith
  <2> QED
    BY <1>1, <2>1, <2>2, QuietMoveIsGoverned DEF AnswerWith
<1> QED
  BY <1>4, <1>5

\* The outcome is written to both rows: neither is EXECUTING any more.
LEMMA RecordingIsGoverned ==
  ASSUME InvTyped, RestTyped, Governance, NEW p \in Procs, NEW o \in Ops, o = Op(p),
         CompleteCommits(p) \/ CompleteCommitsUnseen(p)
  PROVE  Governance'
<1> DEFINE t == inv[p].target
           c == [call[o] EXCEPT !.status = t, !.attempt = 0, !.outcome = OutcomeOf(t)]
           s == [rec[o] EXCEPT !.state = t, !.attempt = 0]
<1>1. /\ inv[p].pc = "completing" /\ ReleaseLocks(p) /\ OwnsAttempt(p)
      /\ UNCHANGED <<approval, started, effects, inflight>>
      /\ call' = [call EXCEPT ![o] = c] /\ rec' = [rec EXCEPT ![o] = s]
  BY DEF CompleteCommits, CompleteCommitsUnseen, RecordOutcome, authVars, provider, At
<1>2. /\ o \in Ops /\ t \in Targets \ {"NONE"} /\ inv[p] \in Invocation
      /\ call[o] \in CallRow /\ rec[o] \in RecordRow /\ RowIsGoverned(o)
  BY <1>1 DEF InvTyped, Invocation, Bound, Op, RestTyped, Governance
<1>3. call[o].digest # NoDigest
  BY <1>1, <1>2 DEF RowIsGoverned, OwnsAttempt, NoCall
<1>4. /\ c.digest = call[o].digest /\ s.state # "EXECUTING" /\ c # NoCall
  BY <1>2, <1>3 DEF CallRow, RecordRow, Targets, NoCall
<1>5. /\ call'[o] = c /\ rec'[o] = s
      /\ \A x \in Ops \ {o} : call'[x] = call[x] /\ rec'[x] = rec[x]
  BY <1>1, <1>2 DEF RestTyped
<1>6. RowIsGoverned(o)'
  <2>1. call'[o].digest = call[o].digest /\ rec'[o].state # "EXECUTING"
    BY <1>4, <1>5
  <2>2. Governed(o) => Governed(o)'
    BY <1>1, <2>1 DEF Governed
  <2> QED
    BY <1>1, <1>2, <1>3, <2>1, <2>2 DEF RowIsGoverned
<1>7. callLock[o] # p => callLock[o] \notin Procs \/ call[o] # NoCall
  BY <1>3 DEF NoCall
<1>8. InsertsStay(p)
  BY <1>1, <1>3, <1>5 DEF InsertsStay, ReleaseLocks, Release, NoCall, RestTyped
<1>9. \E r : Becomes(p, r) /\ InvocationIsGoverned(p)'
  <2> DEFINE r == [inv[p] EXCEPT !.pc = "complete", !.rescue = TRUE, !.target = "UNKNOWN_EXTERNAL_OUTCOME"]
  <2>1. ASSUME NEW x, AnswerWith(p, x) PROVE \E q : Becomes(p, q) /\ InvocationIsGoverned(p)'
    BY <2>1, AnswerIsGoverned, AnsweredIsOver DEF AnswerWith
  <2>2. CASE Becomes(p, r)
    <3>1. r.op = o /\ r.digest = inv[p].digest /\ r.pc = "complete" /\ inv'[p] = r
      BY <1>2, <2>2, OnlyMoves DEF Invocation, Op
    <3>2. InvocationIsGoverned(p) /\ Attempting(p)
      BY <1>1 DEF Governance, Attempting
    <3> QED
      BY <1>1, <2>2, <3>1, <3>2 DEF InvocationIsGoverned, Cleared, Attempting, At, Op, Decision
  <2> QED
    BY <2>1, <2>2 DEF CompleteCommits, CompleteCommitsUnseen, CompletionRaises
<1> QED
  BY <1>1, <1>2, <1>3, <1>4, <1>5, <1>6, <1>8, <1>9, LoudMoveIsGoverned

\* People, the clock, reconciliation and late requests: an approval is decided
\* once, and only a request of an attempt is in flight.
LEMMA EnvironmentIsGoverned ==
  ASSUME InvTyped, RestTyped, Governance, Environment
  PROVE  Governance'
<1>1. ASSUME UNCHANGED <<inv, call, callLock, started>>,
             \A o \in Ops : approval[o].decision = "APPROVE" => approval'[o].decision = "APPROVE",
             \A o \in Ops : RowIsGoverned(o)'
      PROVE  Governance'
  <2>1. Advances /\ InsertsStay(None)
    BY <1>1 DEF Advances, InsertsStay
  <2>2. ASSUME NEW q \in Procs PROVE InvocationIsGoverned(q)'
    BY <1>1, <2>1, OthersStayGoverned, NoneAssumption DEF Governance
  <2> QED
    BY <1>1, <2>2 DEF Governance
<1>2. ASSUME NEW o \in Ops, (\E d \in {"APPROVE", "DENY"} : Decide(o, d)) \/ Revoke(o) \/ Expire(o)
      PROVE  Governance'
  <2>1. /\ UNCHANGED <<inv, call, callLock, rec, started, effects, inflight>>
        /\ \A x \in Ops \ {o} : approval'[x] = approval[x]
        /\ approval'[o].requested = approval[o].requested /\ approval[o].requested
        /\ approval[o].decision # "NONE" => approval'[o].decision = approval[o].decision
    BY <1>2 DEF Decide, Revoke, Expire, RestTyped, ApprovalRow, lockVars, worldVars, provider
  <2>2. ASSUME NEW x \in Ops PROVE RowIsGoverned(x)'
    <3>1. RowIsGoverned(x)
      BY DEF Governance
    <3>2. Governed(x) => Governed(x)'
      BY <2>1 DEF Governed
    <3> QED
      BY <2>1, <3>1, <3>2 DEF RowIsGoverned
  <2> QED
    BY <1>1, <2>1, <2>2
<1>3. ASSUME NEW o \in Ops, Reconcile(o) PROVE Governance'
  <2>1. UNCHANGED <<inv, call, callLock, approval, started, effects, inflight>>
    BY <1>3 DEF Reconcile, authVars, lockVars, worldVars, provider
  <2>2. \A x \in Ops : rec'[x].state = "EXECUTING" => rec[x].state = "EXECUTING"
    BY <1>3 DEF Reconcile, RestTyped, RecordRow
  <2>3. ASSUME NEW x \in Ops PROVE RowIsGoverned(x)'
    BY <2>1, <2>2 DEF Governance, RowIsGoverned, Governed
  <2> QED
    BY <1>1, <2>1, <2>3
<1>4. ASSUME NEW o \in Ops, NEW applied \in BOOLEAN, LateEffect(o, applied) PROVE Governance'
  <2>1. UNCHANGED <<inv, call, rec, callLock, approval, started>>
    BY <1>4 DEF LateEffect, authVars, lockVars
  <2>2. \A x \in Ops : effects'[x] > 0 \/ inflight'[x] => effects[x] > 0 \/ inflight[x]
    BY <1>4 DEF LateEffect, RestTyped
  <2>3. ASSUME NEW x \in Ops PROVE RowIsGoverned(x)'
    BY <2>1, <2>2 DEF Governance, RowIsGoverned, Governed
  <2> QED
    BY <1>1, <2>1, <2>3
<1>5. ASSUME Disable \/ \E v \in Versions : Activate(v) PROVE Governance'
  <2>1. UNCHANGED <<inv, call, rec, callLock, approval, started, effects, inflight>>
    BY <1>5 DEF Disable, Activate, lockVars, worldVars, provider
  <2>2. ASSUME NEW x \in Ops PROVE RowIsGoverned(x)'
    BY <2>1 DEF Governance, RowIsGoverned, Governed
  <2> QED
    BY <1>1, <2>1, <2>2
<1> QED
  BY <1>2, <1>3, <1>4, <1>5 DEF Environment

\* No operation has begun, and no invocation is under way.
LEMMA InitIsGoverned == Init => Governance
<1> SUFFICES ASSUME Init PROVE Governance
  OBVIOUS
<1>1. /\ Idle.pc = "idle" /\ NoCall.digest = NoDigest /\ NoRecord.state = "NONE"
      /\ ~NoApproval.requested /\ ~NoApproval.revoked /\ NoApproval.decision = "NONE"
  BY DEF Idle, NoCall, NoRecord, NoApproval
<1>2. \A o \in Ops : RowIsGoverned(o)
  BY <1>1 DEF Init, RowIsGoverned
<1>3. \A p \in Procs : InvocationIsGoverned(p)
  BY <1>1 DEF Init, InvocationIsGoverned, Cleared, Attempting, At
<1> QED
  BY <1>2, <1>3 DEF Governance

\* Every step preserves it.
LEMMA StepIsGoverned == TypeOK /\ Governance /\ [Next]_vars => Governance'
<1> SUFFICES ASSUME InvTyped, RestTyped, Governance, [Next]_vars PROVE Governance'
  BY TypeParts
<1>1. CASE UNCHANGED vars
  BY <1>1 DEF vars, authVars, lockVars, worldVars, provider, Governance, RowIsGoverned, Governed,
              InvocationIsGoverned, Cleared, Binds, Attempting, At, Op, Decision
<1>2. ASSUME NEW p \in Procs,
             \/ RequestApproval(p) \/ ReplayReconciled(p) \/ CommitExecuting(p)
             \/ CompleteCommits(p) \/ CompleteCommitsUnseen(p)
      PROVE  Governance'
  <2>1. Op(p) \in Ops
    BY <1>2 DEF RequestApproval, ReplayReconciled, CommitExecuting, CompleteCommits,
                CompleteCommitsUnseen, At, InvTyped, Bound, Op
  <2> QED
    BY <1>2, <2>1, RequestingIsGoverned, ReplayingIsGoverned, StartingIsGoverned, RecordingIsGoverned
<1> QED
  BY <1>1, <1>2, ReservingIsGoverned, AcquiringIsGoverned, ExecutingIsGoverned, EnvironmentIsGoverned
  DEF Next, Proceed, Targets

\* So it holds for ever.
LEMMA GovernanceHolds == Spec => []Governance
<1>1. TypeOK /\ Governance /\ [Next]_vars => Governance'
  BY StepIsGoverned
<1> QED
  BY InitIsGoverned, TypeCorrect, <1>1, PTL DEF Spec

\* No attempt runs and no effect is applied that the policy the operation is
\* bound to does not allow, or that wants an approval and has none.
THEOREM EffectsStayGoverned == Spec => []OnlyGovernedEffects
<1>1. Governance => OnlyGovernedEffects
  BY DEF Governance, RowIsGoverned, Governed, OnlyGovernedEffects
<1> QED
  BY GovernanceHolds, <1>1, PTL

\* The steps that write neither the row nor the record of an operation.
LEMMA OthersLeaveRows ==
  /\ \A p \in Procs :
       \/ \E o \in Ops, i \in Inputs, execute \in BOOLEAN : Invoke(p, o, i, execute)
       \/ InsertCall(p) \/ ReadCall(p) \/ ValidateApproval(p) \/ VerifySnapshot(p)
       \/ InsertRecord(p) \/ ReadRecord(p) \/ AcquireAttempt(p) \/ ExternalEffect(p)
       \/ \E target \in Targets, late \in BOOLEAN : ExecutorOutcome(p, target, late)
       \/ CompleteLocksCall(p) \/ CompleteFails(p) \/ Return(p)
       \/ \E late \in BOOLEAN : Crash(p, late)
       => UNCHANGED <<rec, call>>
  /\ \A o \in Ops :
       \/ \E decision \in {"APPROVE", "DENY"} : Decide(o, decision)
       \/ Revoke(o) \/ Expire(o) \/ \E applied \in BOOLEAN : LateEffect(o, applied)
       => UNCHANGED <<rec, call>>
  /\ Disable \/ (\E v \in Versions : Activate(v)) => UNCHANGED <<rec, call>>
<1>1. ASSUME NEW p \in Procs,
             \/ \E o \in Ops, i \in Inputs, execute \in BOOLEAN : Invoke(p, o, i, execute)
             \/ InsertCall(p) \/ ReadCall(p) \/ ValidateApproval(p) \/ VerifySnapshot(p)
             \/ InsertRecord(p) \/ AcquireAttempt(p)
      PROVE  UNCHANGED <<rec, call>>
  BY <1>1 DEF Invoke, InsertCall, ReadCall, ValidateApproval, VerifySnapshot, InsertRecord, AcquireAttempt
<1>2. ASSUME NEW p \in Procs, ReadRecord(p) PROVE UNCHANGED <<rec, call>>
  BY <1>2, Zenon DEF ReadRecord
<1>3. ASSUME NEW p \in Procs,
             \/ ExternalEffect(p)
             \/ \E target \in Targets, late \in BOOLEAN : ExecutorOutcome(p, target, late)
             \/ CompleteLocksCall(p) \/ CompleteFails(p) \/ Return(p)
             \/ \E late \in BOOLEAN : Crash(p, late)
      PROVE  UNCHANGED <<rec, call>>
  BY <1>3 DEF ExternalEffect, ExecutorOutcome, CompleteLocksCall, CompleteFails, Return, Crash
<1>4. ASSUME NEW o \in Ops,
             \/ \E decision \in {"APPROVE", "DENY"} : Decide(o, decision)
             \/ Revoke(o) \/ Expire(o) \/ \E applied \in BOOLEAN : LateEffect(o, applied)
      PROVE  UNCHANGED <<rec, call>>
  BY <1>4 DEF Decide, Revoke, Expire, LateEffect
<1>5. ASSUME Disable \/ \E v \in Versions : Activate(v) PROVE UNCHANGED <<rec, call>>
  BY <1>5 DEF Disable, Activate
<1> QED
  BY <1>1, <1>2, <1>3, <1>4, <1>5

\* No step touches the rows of an attempt whose process is gone.
THEOREM OrphansStayBlocked == Spec => OrphanStaysBlocked
<1> DEFINE Stays == \A o \in Ops : rec[o].state = "EXECUTING" /\ ~Owned(o)
                      => rec'[o] = rec[o] /\ call'[o] = call[o]
<1>1. ASSUME TypeOK, KnowledgeIsSound, Governance, Next, NEW o \in Ops,
             rec[o].state = "EXECUTING", ~Owned(o)
      PROVE  rec'[o] = rec[o] /\ call'[o] = call[o]
  <2>0. InvTyped /\ RestTyped
    BY <1>1, TypeParts
  <2>1. call[o].status = "EXECUTING" /\ call[o] # NoCall
    BY <1>1 DEF Governance, RowIsGoverned, NoCall
  <2>2. ASSUME NEW p \in Procs, RequestApproval(p) \/ ReplayReconciled(p)
        PROVE  rec'[o] = rec[o] /\ call'[o] = call[o]
    <3>1. rec' = rec /\ call'[o] = call[o]
      BY <2>0, <2>1, <2>2 DEF RequestApproval, ReplayReconciled, RestTyped
    <3> QED
      BY <3>1
  <2>3. ASSUME NEW p \in Procs, CommitExecuting(p) PROVE rec'[o] = rec[o] /\ call'[o] = call[o]
    <3>1. Op(p) # o
      BY <1>1, <2>3 DEF CommitExecuting, KnowledgeIsSound, InvocationKnows, Startable
    <3> QED
      BY <2>0, <2>3, <3>1 DEF CommitExecuting, RestTyped
  <2>4. ASSUME NEW p \in Procs, CompleteCommits(p) \/ CompleteCommitsUnseen(p)
        PROVE  rec'[o] = rec[o] /\ call'[o] = call[o]
    <3>1. Attempting(p) /\ OwnsAttempt(p) /\ RecordOutcome(p)
      BY <2>4 DEF CompleteCommits, CompleteCommitsUnseen, Attempting, At
    <3>2. Op(p) # o
      BY <1>1, <3>1 DEF Owned, OwnsAttempt
    <3> QED
      BY <2>0, <3>1, <3>2 DEF RecordOutcome, RestTyped
  <2>5. ASSUME NEW x \in Ops, Reconcile(x) PROVE rec'[o] = rec[o] /\ call'[o] = call[o]
    <3>1. x # o /\ call' = call
      BY <1>1, <2>5 DEF Reconcile
    <3> QED
      BY <2>0, <2>5, <3>1 DEF Reconcile, RestTyped
  <2>6. \/ \E p \in Procs : \/ RequestApproval(p) \/ ReplayReconciled(p) \/ CommitExecuting(p)
                            \/ CompleteCommits(p) \/ CompleteCommitsUnseen(p)
        \/ \E x \in Ops : Reconcile(x)
        \/ UNCHANGED <<rec, call>>
    BY <1>1, OthersLeaveRows DEF Next, Proceed, Environment, Targets
  <2> QED
    BY <2>2, <2>3, <2>4, <2>5, <2>6
<1>2. TypeOK /\ KnowledgeIsSound /\ Governance /\ [Next]_vars => [Stays]_vars
  BY <1>1
<1> QED
  BY TypeCorrect, KnowledgeStaysSound, GovernanceHolds, <1>2, PTL DEF Spec, OrphanStaysBlocked

\* No invocation comes past the approval of an operation that is closed.
LEMMA ClosedKeepsOut ==
  ASSUME InvTyped, Governance, NEW o \in Ops, Closed(o), NEW p \in Procs,
         \/ \E x \in Ops, i \in Inputs, execute \in BOOLEAN : Invoke(p, x, i, execute)
         \/ Proceed(p)
         \/ \E late \in BOOLEAN : Crash(p, late)
  PROVE  (Op(p) = o => ~Cleared(p))'
<1> DEFINE Out(r) == r.op = o => r.pc \notin {"verify", "record", "acquire", "start"}
<1>1. ASSUME NEW r, Becomes(p, r), Out(r) PROVE (Op(p) = o => ~Cleared(p))'
  BY <1>1, OnlyMoves DEF Op, Cleared
<1>2. /\ call[o] # NoCall /\ Policy[call[o].digest[1]] = "REQUIRES_APPROVAL"
      /\ approval[o].revoked \/ approval[o].decision = "DENY"
      /\ Op(p) = o => ~Cleared(p)
  BY DEF Closed, Governance, RowIsGoverned, NoCall, Cleared
<1>3. inv[p] \in Invocation
  BY DEF InvTyped
<1>4. ASSUME NEW x, AnswerWith(p, x) PROVE (Op(p) = o => ~Cleared(p))'
  BY <1>1, <1>4, AnsweredIsOver DEF AnswerWith
<1>5. CASE \/ \E x \in Ops, i \in Inputs, execute \in BOOLEAN : Invoke(p, x, i, execute)
           \/ \E late \in BOOLEAN : Crash(p, late)
           \/ Return(p)
  <2>1. CASE Becomes(p, Idle)
    BY <1>1, <2>1, AnsweredIsOver
  <2>2. ASSUME NEW x \in Ops, NEW i \in Inputs, NEW execute \in BOOLEAN, Invoke(p, x, i, execute)
        PROVE  (Op(p) = o => ~Cleared(p))'
    <3> DEFINE r == [Idle EXCEPT !.pc = "reserve", !.op = x, !.execute = execute,
                       !.digest = <<active.version, i>>, !.late = approval[x].expired]
               d == [Idle EXCEPT !.pc = "answered", !.op = x, !.result = "DENIED"]
    <3>1. r.pc = "reserve" /\ d.pc = "answered"
      BY DEF Idle
    <3>2. Becomes(p, r) \/ Becomes(p, d)
      BY <2>2 DEF Invoke
    <3> QED
      BY <1>1, <3>1, <3>2
  <2> QED
    BY <1>5, <2>1, <2>2 DEF Crash, Return
<1>6. CASE InsertCall(p)
  <2>1. Op(p) # o /\ Becomes(p, [inv[p] EXCEPT !.pc = "verify", !.seen = "READY"])
    BY <1>2, <1>6 DEF InsertCall
  <2>2. [inv[p] EXCEPT !.pc = "verify", !.seen = "READY"].op = Op(p)
    BY <1>3 DEF Op, Invocation
  <2> QED
    BY <1>1, <2>1, <2>2
<1>7. CASE ReadCall(p)
  <2>1. CASE call[Op(p)].digest # inv[p].digest
    BY <1>4, <1>7, <2>1 DEF ReadCall
  <2>2. CASE call[Op(p)].digest = inv[p].digest
    <3> DEFINE r == [inv[p] EXCEPT
                       !.pc = IF Decision(p) = "REQUIRES_APPROVAL" THEN "approval" ELSE "verify",
                       !.seen = call[Op(p)].status]
    <3>1. Becomes(p, r)
      BY <1>7, <2>2 DEF ReadCall
    <3>2. r.op = Op(p) /\ (Decision(p) = "REQUIRES_APPROVAL" => r.pc = "approval")
      BY <1>3 DEF Op, Invocation
    <3>3. Op(p) = o => Decision(p) = "REQUIRES_APPROVAL"
      BY <1>2, <2>2 DEF Decision
    <3> QED
      BY <1>1, <3>1, <3>2, <3>3
  <2> QED
    BY <2>1, <2>2
<1>8. CASE ValidateApproval(p)
  <2> DEFINE state == ApprovalState(approval[Op(p)], inv[p].late)
             r == [inv[p] EXCEPT !.pc = "verify"]
  <2>1. CASE state = "APPROVED"
    <3>1. Op(p) # o
      BY <1>2, <2>1 DEF ApprovalState
    <3>2. Becomes(p, r) /\ r.op = Op(p)
      BY <1>3, <1>8, <2>1 DEF ValidateApproval, Goto, Op, Invocation
    <3> QED
      BY <1>1, <3>1, <3>2
  <2>2. CASE state # "APPROVED"
    BY <1>4, <1>8, <2>2 DEF ValidateApproval
  <2> QED
    BY <2>1, <2>2
<1>9. ASSUME Cleared(p), NEW r, Becomes(p, r), r.op = Op(p) PROVE (Op(p) = o => ~Cleared(p))'
  BY <1>1, <1>2, <1>9
<1>10. CASE VerifySnapshot(p) \/ InsertRecord(p) \/ AcquireAttempt(p)
  <2>1. Cleared(p)
    BY <1>10 DEF VerifySnapshot, InsertRecord, AcquireAttempt, At, Cleared
  <2> DEFINE r == [inv[p] EXCEPT !.pc = "start", !.count = 1]
  <2>2. /\ r.op = Op(p)
        /\ \A l : [inv[p] EXCEPT !.pc = l].op = Op(p)
    BY <1>3 DEF Op, Invocation
  <2>3. CASE InsertRecord(p)
    BY <1>9, <2>1, <2>2, <2>3 DEF InsertRecord
  <2>4. ASSUME NEW l, Goto(p, l) PROVE (Op(p) = o => ~Cleared(p))'
    BY <1>9, <2>1, <2>2, <2>4 DEF Goto
  <2> QED
    BY <1>4, <1>10, <2>3, <2>4 DEF VerifySnapshot, AcquireAttempt
<1>11. CASE ReadRecord(p)
  <2> DEFINE r == [inv[p] EXCEPT !.pc = "acquire", !.count = rec[Op(p)].count + 1]
  <2>1. Cleared(p)
    BY <1>11 DEF ReadRecord, At, Cleared
  <2>2. r.op = Op(p) /\ [inv[p] EXCEPT !.pc = "replay"].op = Op(p)
    BY <1>3 DEF Op, Invocation
  <2>3. CASE Becomes(p, r)
    BY <1>9, <2>1, <2>2, <2>3
  <2>4. CASE Goto(p, "replay")
    BY <1>9, <2>1, <2>2, <2>4 DEF Goto
  <2> QED
    BY <1>4, <1>11, <2>3, <2>4 DEF ReadRecord
<1>12. CASE RequestApproval(p) \/ ReplayReconciled(p)
  BY <1>4, <1>12 DEF RequestApproval, ReplayReconciled
<1>13. ASSUME NEW r, Becomes(p, r), r.pc \in {"execute", "effected", "complete", "completing"}
       PROVE  (Op(p) = o => ~Cleared(p))'
  BY <1>1, <1>13
<1>14. CASE CommitExecuting(p)
  <2>1. [inv[p] EXCEPT !.pc = "execute", !.attempt = started[Op(p)] + 1].pc = "execute"
    BY <1>3 DEF Invocation
  <2> QED
    BY <1>4, <1>13, <1>14, <2>1 DEF CommitExecuting
<1>15. CASE \/ ExternalEffect(p) \/ CompleteLocksCall(p)
            \/ \E target \in Targets, late \in BOOLEAN : ExecutorOutcome(p, target, late)
  <2>1. /\ [inv[p] EXCEPT !.pc = "effected"].pc = "effected"
        /\ [inv[p] EXCEPT !.pc = "completing"].pc = "completing"
        /\ \A t : [inv[p] EXCEPT !.pc = "complete", !.target = t].pc = "complete"
    BY <1>3 DEF Invocation
  <2>2. CASE ExternalEffect(p) \/ CompleteLocksCall(p)
    BY <1>13, <2>1, <2>2 DEF ExternalEffect, CompleteLocksCall, Goto
  <2>3. ASSUME NEW target \in Targets, NEW late \in BOOLEAN, ExecutorOutcome(p, target, late)
        PROVE  (Op(p) = o => ~Cleared(p))'
    BY <1>13, <2>1, <2>3 DEF ExecutorOutcome
  <2> QED
    BY <1>15, <2>2, <2>3
<1>16. CASE CompleteCommits(p) \/ CompleteCommitsUnseen(p) \/ CompleteFails(p)
  <2>1. CASE CompletionRaises(p)
    <3>1. [inv[p] EXCEPT !.pc = "complete", !.rescue = TRUE, !.target = "UNKNOWN_EXTERNAL_OUTCOME"].pc
            = "complete"
      BY <1>3 DEF Invocation
    <3> QED
      BY <1>4, <1>13, <2>1, <3>1 DEF CompletionRaises
  <2>2. CASE CompleteCommits(p)
    BY <1>4, <2>2 DEF CompleteCommits
  <2> QED
    BY <1>16, <2>1, <2>2 DEF CompleteCommitsUnseen, CompleteFails
<1> QED
  BY <1>5, <1>6, <1>7, <1>8, <1>10, <1>11, <1>12, <1>14, <1>15, <1>16 DEF Proceed, Targets

\* Only the commit of EXECUTING counts an attempt, of an invocation that is
\* cleared.
LEMMA OnlyTheClearedStart ==
  ASSUME RestTyped, NEW o \in Ops, Next, started'[o] # started[o]
  PROVE  \E p \in Procs : Op(p) = o /\ Cleared(p)
<1>1. ASSUME NEW p \in Procs, CommitExecuting(p) PROVE Op(p) = o /\ Cleared(p)
  BY <1>1 DEF CommitExecuting, RestTyped, Cleared, At
<1>2. ASSUME NEW p \in Procs,
             \/ \E x \in Ops, i \in Inputs, execute \in BOOLEAN : Invoke(p, x, i, execute)
             \/ RequestApproval(p) \/ InsertCall(p) \/ ReadCall(p) \/ ValidateApproval(p)
             \/ VerifySnapshot(p) \/ InsertRecord(p) \/ ReplayReconciled(p) \/ AcquireAttempt(p)
      PROVE  started' = started
  BY <1>2 DEF Invoke, RequestApproval, InsertCall, ReadCall, ValidateApproval, VerifySnapshot,
              InsertRecord, ReplayReconciled, AcquireAttempt, worldVars
<1>3. ASSUME NEW p \in Procs, ReadRecord(p) PROVE started' = started
  <2>1. UNCHANGED worldVars
    BY <1>3, Zenon DEF ReadRecord
  <2> QED
    BY <2>1 DEF worldVars
<1>4. ASSUME NEW p \in Procs,
             \/ ExternalEffect(p)
             \/ \E target \in Targets, late \in BOOLEAN : ExecutorOutcome(p, target, late)
             \/ CompleteLocksCall(p) \/ CompleteCommits(p) \/ CompleteCommitsUnseen(p)
             \/ CompleteFails(p) \/ Return(p)
             \/ \E late \in BOOLEAN : Crash(p, late)
      PROVE  started' = started
  BY <1>4 DEF ExternalEffect, ExecutorOutcome, CompleteLocksCall, CompleteCommits, CompleteCommitsUnseen,
              CompleteFails, Return, Crash, worldVars
<1>5. ASSUME Environment PROVE started' = started
  BY <1>5 DEF Environment, Decide, Revoke, Expire, Reconcile, LateEffect, Activate, Disable, worldVars
<1> QED
  BY <1>1, <1>2, <1>3, <1>4, <1>5 DEF Next, Proceed, Targets

\* A refusal is not taken back.
LEMMA RefusalsStay ==
  ASSUME RestTyped, Next, NEW o \in Ops, approval[o].revoked \/ approval[o].decision = "DENY"
  PROVE  approval'[o].revoked \/ approval'[o].decision = "DENY"
<1>1. ASSUME NEW p \in Procs, RequestApproval(p) PROVE approval'[o].revoked \/ approval'[o].decision = "DENY"
  BY <1>1 DEF RequestApproval, RestTyped, ApprovalRow
<1>2. ASSUME NEW x \in Ops, (\E d \in {"APPROVE", "DENY"} : Decide(x, d)) \/ Revoke(x) \/ Expire(x)
      PROVE  approval'[o].revoked \/ approval'[o].decision = "DENY"
  <2>1. approval \in [Ops -> ApprovalRow] /\ approval[o] \in ApprovalRow
    BY DEF RestTyped
  <2>2. CASE \E d \in {"APPROVE", "DENY"} : Decide(x, d)
    <3>1. x # o
      BY <2>2 DEF Decide
    <3> QED
      BY <2>1, <2>2, <3>1 DEF Decide
  <2>3. CASE Revoke(x)
    BY <2>1, <2>3 DEF Revoke, ApprovalRow
  <2>4. CASE Expire(x)
    BY <2>1, <2>4 DEF Expire, ApprovalRow
  <2> QED
    BY <1>2, <2>2, <2>3, <2>4
<1>3. \/ \E p \in Procs : RequestApproval(p)
      \/ \E x \in Ops : (\E d \in {"APPROVE", "DENY"} : Decide(x, d)) \/ Revoke(x) \/ Expire(x)
      \/ approval' = approval
  <2>1. ASSUME NEW p \in Procs, ReadRecord(p) PROVE approval' = approval
    <3>1. UNCHANGED authVars
      BY <2>1, Zenon DEF ReadRecord
    <3> QED
      BY <3>1 DEF authVars
  <2>2. ASSUME NEW p \in Procs,
               \/ \E x \in Ops, i \in Inputs, execute \in BOOLEAN : Invoke(p, x, i, execute)
               \/ InsertCall(p) \/ ReadCall(p) \/ ValidateApproval(p) \/ VerifySnapshot(p)
               \/ InsertRecord(p) \/ ReplayReconciled(p) \/ AcquireAttempt(p) \/ CommitExecuting(p)
        PROVE  approval' = approval
    BY <2>2 DEF Invoke, InsertCall, ReadCall, ValidateApproval, VerifySnapshot, InsertRecord,
                ReplayReconciled, AcquireAttempt, CommitExecuting, authVars
  <2>3. ASSUME NEW p \in Procs,
               \/ ExternalEffect(p)
               \/ \E target \in Targets, late \in BOOLEAN : ExecutorOutcome(p, target, late)
               \/ CompleteLocksCall(p) \/ CompleteCommits(p) \/ CompleteCommitsUnseen(p)
               \/ CompleteFails(p) \/ Return(p)
               \/ \E late \in BOOLEAN : Crash(p, late)
        PROVE  approval' = approval
    BY <2>3 DEF ExternalEffect, ExecutorOutcome, CompleteLocksCall, CompleteCommits, CompleteCommitsUnseen,
                CompleteFails, Return, Crash, authVars
  <2>4. ASSUME NEW x \in Ops, Reconcile(x) \/ \E applied \in BOOLEAN : LateEffect(x, applied)
        PROVE  approval' = approval
    BY <2>4 DEF Reconcile, LateEffect, authVars
  <2>5. ASSUME Disable \/ \E v \in Versions : Activate(v) PROVE approval' = approval
    BY <2>5 DEF Disable, Activate
  <2> QED
    BY <2>1, <2>2, <2>3, <2>4, <2>5 DEF Next, Proceed, Environment, Targets
<1> QED
  BY <1>1, <1>2, <1>3

\* A step of one invocation moves no other.
LEMMA OneMoves ==
  ASSUME InvTyped, NEW p \in Procs, NEW q \in Procs, p # q,
         \/ \E x \in Ops, i \in Inputs, execute \in BOOLEAN : Invoke(p, x, i, execute)
         \/ Proceed(p)
         \/ \E late \in BOOLEAN : Crash(p, late)
  PROVE  inv'[q] = inv[q]
<1>1. ASSUME NEW r, Becomes(p, r) PROVE inv'[q] = inv[q]
  BY <1>1, OnlyMoves
<1>2. ASSUME NEW x, AnswerWith(p, x) \/ Goto(p, x) PROVE inv'[q] = inv[q]
  BY <1>1, <1>2 DEF AnswerWith, Goto
<1>3. CASE CompletionRaises(p)
  BY <1>1, <1>2, <1>3 DEF CompletionRaises
<1>4. CASE ReadRecord(p)
  BY <1>1, <1>2, <1>4 DEF ReadRecord
<1>5. CASE \/ \E x \in Ops, i \in Inputs, execute \in BOOLEAN : Invoke(p, x, i, execute)
           \/ RequestApproval(p) \/ InsertCall(p) \/ ReadCall(p) \/ ValidateApproval(p) \/ VerifySnapshot(p)
  BY <1>1, <1>2, <1>5 DEF Invoke, RequestApproval, InsertCall, ReadCall, ValidateApproval, VerifySnapshot
<1>6. CASE InsertRecord(p) \/ ReplayReconciled(p) \/ AcquireAttempt(p) \/ CommitExecuting(p)
  BY <1>1, <1>2, <1>6 DEF InsertRecord, ReplayReconciled, AcquireAttempt, CommitExecuting
<1>7. CASE \/ ExternalEffect(p) \/ CompleteLocksCall(p) \/ Return(p)
           \/ \E target \in Targets, late \in BOOLEAN : ExecutorOutcome(p, target, late)
           \/ \E late \in BOOLEAN : Crash(p, late)
  BY <1>1, <1>2, <1>7 DEF ExternalEffect, CompleteLocksCall, Return, ExecutorOutcome, Crash
<1>8. CASE CompleteCommits(p) \/ CompleteCommitsUnseen(p) \/ CompleteFails(p)
  BY <1>2, <1>3, <1>8 DEF CompleteCommits, CompleteCommitsUnseen, CompleteFails
<1> QED
  BY <1>4, <1>5, <1>6, <1>7, <1>8 DEF Proceed, Targets

\* What is refused, and has nothing past the reading of its approval, never
\* starts again.
THEOREM RefusalsAreFinal == Spec => RefusalIsFinal
<1> DEFINE Final == \A o \in Ops : Closed(o) => Closed(o)' /\ started'[o] = started[o]
<1>1. ASSUME TypeOK, Governance, Next, NEW o \in Ops, Closed(o) PROVE Closed(o)' /\ started'[o] = started[o]
  <2>1. InvTyped /\ RestTyped
    BY <1>1, TypeParts
  <2>2. started'[o] = started[o]
    BY <1>1, <2>1, OnlyTheClearedStart DEF Closed, Cleared
  <2>3. ASSUME NEW q \in Procs PROVE (Op(q) = o => ~Cleared(q))'
    <3>1. CASE inv'[q] = inv[q]
      BY <1>1, <3>1 DEF Closed, Cleared, Op
    <3>2. CASE \/ \E x \in Ops, i \in Inputs, execute \in BOOLEAN : Invoke(q, x, i, execute)
               \/ Proceed(q)
               \/ \E late \in BOOLEAN : Crash(q, late)
      BY <1>1, <2>1, <3>2, ClosedKeepsOut
    <3>3. ASSUME NEW p \in Procs, p # q,
                 \/ \E x \in Ops, i \in Inputs, execute \in BOOLEAN : Invoke(p, x, i, execute)
                 \/ Proceed(p)
                 \/ \E late \in BOOLEAN : Crash(p, late)
          PROVE  inv'[q] = inv[q]
      BY <2>1, <3>3, OneMoves
    <3>4. CASE Environment
      <4>1. inv' = inv
        BY <3>4 DEF Environment, Decide, Revoke, Expire, Reconcile, LateEffect, Activate, Disable
      <4> QED
        BY <3>1, <4>1
    <3> QED
      BY <1>1, <3>1, <3>2, <3>3, <3>4 DEF Next
  <2>4. (approval[o].revoked \/ approval[o].decision = "DENY")'
    BY <1>1, <2>1, RefusalsStay DEF Closed
  <2> QED
    BY <2>2, <2>3, <2>4 DEF Closed, Cleared
<1>2. TypeOK /\ Governance /\ [Next]_vars => [Final]_vars
  BY <1>1
<1> QED
  BY TypeCorrect, GovernanceHolds, <1>2, PTL DEF Spec, RefusalIsFinal

-----------------------------------------------------------------------------
(* The refinement: initial states map to initial states, and every step maps *)
(* to an abstract step or to a stutter, under the invariant.               *)

absPhase == [o \in Ops |-> Phase(rec[o])]

\* A step that changes one record, so that its phase becomes x.
LEMMA PhaseStep ==
  ASSUME RestTyped, NEW o \in Ops, NEW r, rec' = [rec EXCEPT ![o] = r], NEW x, Phase(r) = x
  PROVE  absPhase' = [absPhase EXCEPT ![o] = x]
<1>1. rec'[o] = r /\ \A y \in Ops \ {o} : rec'[y] = rec[y]
  BY DEF RestTyped
<1>2. \A y \in Ops : Phase(rec'[y]) = IF y = o THEN x ELSE Phase(rec[y])
  BY <1>1
<1> QED
  BY <1>2 DEF absPhase

\* The phases of the records that the steps start from.
LEMMA PhaseOf ==
  ASSUME NEW o \in Ops, RestTyped, RecordKnows(o)
  PROVE  /\ Startable(rec[o]) => Phase(rec[o]) = "open" /\ effects[o] = 0
         /\ rec[o].state = "EXECUTING" => Phase(rec[o]) = "attempting"
         /\ rec[o].state = "UNKNOWN_EXTERNAL_OUTCOME" => Phase(rec[o]) = "unknown"
         /\ inflight[o] => Phase(rec[o]) \in {"attempting", "unknown"} /\ effects[o] = 0
         /\ effects[o] \in {0, 1}
<1>1. rec[o] \in RecordRow /\ effects[o] \in Nat
  BY DEF RestTyped
<1>2. Startable(rec[o]) => Phase(rec[o]) = "open"
  BY DEF Startable, Phase, RecordKnows
<1>3. inflight[o] => rec[o].state \in {"EXECUTING", "UNKNOWN_EXTERNAL_OUTCOME"}
  BY <1>1 DEF RecordKnows, Startable, Settled, RecordRow, RecordState, Reconciliation
<1> QED
  BY <1>1, <1>2, <1>3 DEF RecordKnows, Phase

\* The initial states map to the abstract one.
LEMMA InitRefines == Init => Abstract!Init
  BY DEF Init, Abstract!Init, Phase, NoRecord

\* An attempt begins.
LEMMA BeginRefines ==
  ASSUME InvTyped, RestTyped, KnowledgeIsSound, NEW p \in Procs, CommitExecuting(p)
  PROVE  [Abstract!Next]_<<absPhase, effects>>
<1>0. Op(p) \in Ops
  BY DEF CommitExecuting, InvTyped, Bound, At, Op
<1> PICK o \in Ops : o = Op(p)
  BY <1>0
<1> DEFINE e == [state |-> "EXECUTING", count |-> inv[p].count, attempt |-> started[o] + 1,
                 reconciled |-> "NONE",
                 digest |-> IF rec[o] = NoRecord THEN inv[p].digest ELSE rec[o].digest]
<1>1. At(p, "start") /\ UNCHANGED effects /\ (rec' = [rec EXCEPT ![o] = e] \/ UNCHANGED rec)
  BY DEF CommitExecuting, provider
<1>2. CASE UNCHANGED rec
  BY <1>1, <1>2 DEF absPhase
<1>3. CASE rec' = [rec EXCEPT ![o] = e]
  <2>1. Startable(rec[o]) /\ RecordKnows(o)
    BY <1>1 DEF KnowledgeIsSound, InvocationKnows
  <2>2. Phase(rec[o]) = "open" /\ effects[o] = 0
    BY <2>1, PhaseOf
  <2>3. Phase(e) = "attempting"
    BY DEF Phase
  <2> HIDE DEF e
  <2>4. absPhase' = [absPhase EXCEPT ![o] = "attempting"]
    BY <1>3, <2>3, PhaseStep
  <2>5. absPhase[o] = "open"
    BY <2>2 DEF absPhase
  <2>6. Abstract!Begin(o)
    BY <1>1, <2>2, <2>4, <2>5 DEF Abstract!Begin, absPhase
  <2> QED
    BY <2>6 DEF Abstract!Next
<1> QED
  BY <1>1, <1>2, <1>3

\* An outcome is established or left in doubt: by the attempt, or by reconciliation.
LEMMA OutcomeRefines ==
  ASSUME RestTyped, NEW o \in Ops, RecordKnows(o), NEW r, rec' = [rec EXCEPT ![o] = r], UNCHANGED effects,
         \/ /\ rec[o].state = "EXECUTING"
            /\ \/ Phase(r) = "unknown"
               \/ Phase(r) = "settled" /\ effects[o] = 1
               \/ Phase(r) = "open" /\ effects[o] = 0
         \/ /\ rec[o].state = "UNKNOWN_EXTERNAL_OUTCOME"
            /\ \/ Phase(r) = "settled" /\ effects[o] = 1
               \/ Phase(r) = "open" /\ effects[o] = 0
  PROVE  Abstract!Next
<1>1. absPhase' = [absPhase EXCEPT ![o] = Phase(r)]
  BY PhaseStep
<1>2. /\ absPhase[o] = Phase(rec[o]) /\ effects[o] \in {0, 1}
      /\ rec[o].state = "EXECUTING" => absPhase[o] = "attempting"
      /\ rec[o].state = "UNKNOWN_EXTERNAL_OUTCOME" => absPhase[o] = "unknown"
  BY PhaseOf DEF absPhase
<1>3. CASE Phase(r) = "unknown"
  <2>1. Abstract!Doubt(o)
    BY <1>1, <1>2, <1>3 DEF Abstract!Doubt, absPhase
  <2> QED
    BY <2>1 DEF Abstract!Next
<1>4. CASE Phase(r) # "unknown"
  <2>1. Phase(r) = IF effects[o] = 1 THEN "settled" ELSE "open"
    BY <1>4
  <2>2. absPhase[o] \in {"attempting", "unknown"}
    BY <1>2
  <2>3. Abstract!Establish(o)
    BY <1>1, <2>1, <2>2 DEF Abstract!Establish, absPhase
  <2> QED
    BY <2>3 DEF Abstract!Next
<1> QED
  BY <1>3, <1>4

LEMMA CompleteRefines ==
  ASSUME InvTyped, RestTyped, KnowledgeIsSound, NEW p \in Procs,
         CompleteCommits(p) \/ CompleteCommitsUnseen(p)
  PROVE  Abstract!Next
<1> DEFINE t == inv[p].target
           c == [rec[Op(p)] EXCEPT !.state = t, !.attempt = 0]
<1>1. /\ At(p, "completing") /\ rec[Op(p)].state = "EXECUTING" /\ rec' = [rec EXCEPT ![Op(p)] = c]
      /\ UNCHANGED effects
  BY DEF CompleteCommits, CompleteCommitsUnseen, OwnsAttempt, RecordOutcome, provider
<1>2. Op(p) \in Ops /\ t \in {"SUCCEEDED", "FAILED_PRE_EFFECT", "UNKNOWN_EXTERNAL_OUTCOME"}
  BY <1>1 DEF InvTyped, Invocation, Bound, Targets, At, Op
<1>3. rec[Op(p)] \in RecordRow /\ RecordKnows(Op(p)) /\ InvocationKnows(p)
  BY <1>2 DEF RestTyped, KnowledgeIsSound
<1>4. c.state = t /\ c.reconciled = "NONE"
  BY <1>1, <1>3 DEF RecordRow, RecordKnows
<1>5. /\ t = "SUCCEEDED" => effects[Op(p)] = 1
      /\ t = "FAILED_PRE_EFFECT" => effects[Op(p)] = 0
  BY <1>1, <1>3 DEF InvocationKnows
<1>6. Phase(c) = CASE t = "SUCCEEDED" -> "settled" [] t = "FAILED_PRE_EFFECT" -> "open" [] OTHER -> "unknown"
  BY <1>2, <1>4 DEF Phase
<1> HIDE DEF c
<1> QED
  BY <1>1, <1>2, <1>3, <1>5, <1>6, OutcomeRefines

LEMMA ReconcileRefines ==
  ASSUME RestTyped, KnowledgeIsSound, NEW o \in Ops, Reconcile(o)
  PROVE  Abstract!Next
<1> DEFINE v == IF effects[o] > 0 THEN "EFFECT_CONFIRMED" ELSE "NO_EFFECT_CONFIRMED"
           c == [rec[o] EXCEPT !.state = "RECONCILED", !.reconciled = v]
<1>1. rec' = [rec EXCEPT ![o] = c] /\ rec[o].state = "UNKNOWN_EXTERNAL_OUTCOME" /\ UNCHANGED effects
  BY DEF Reconcile, worldVars, provider
<1>2. rec[o] \in RecordRow /\ RecordKnows(o) /\ effects[o] \in {0, 1}
  BY PhaseOf DEF RestTyped, KnowledgeIsSound
<1>3. c.state = "RECONCILED" /\ c.reconciled = v
  BY <1>2 DEF RecordRow
<1>4. Phase(c) = IF effects[o] = 1 THEN "settled" ELSE "open"
  BY <1>2, <1>3 DEF Phase
<1> HIDE DEF c
<1> QED
  BY <1>1, <1>2, <1>4, OutcomeRefines

\* The effect lands, during the attempt or after it was given up.
LEMMA ApplyRefines ==
  ASSUME InvTyped, RestTyped, KnowledgeIsSound,
         \/ \E p \in Procs : ExternalEffect(p)
         \/ \E o \in Ops, applied \in BOOLEAN : LateEffect(o, applied)
  PROVE  [Abstract!Next]_<<absPhase, effects>>
<1>1. ASSUME NEW o \in Ops, UNCHANGED rec, effects' = [effects EXCEPT ![o] = 1], effects[o] = 0,
             Phase(rec[o]) \in {"attempting", "unknown"}
      PROVE  Abstract!Next
  <2>1. Abstract!Apply(o)
    BY <1>1 DEF Abstract!Apply
  <2> QED
    BY <2>1 DEF Abstract!Next
<1>2. ASSUME NEW p \in Procs, ExternalEffect(p) PROVE Abstract!Next
  <2>1. Op(p) \in Ops /\ InvocationKnows(p) /\ At(p, "execute")
    BY <1>2 DEF ExternalEffect, InvTyped, Bound, At, Op, KnowledgeIsSound
  <2>2. rec[Op(p)].state = "EXECUTING" /\ effects[Op(p)] = 0 /\ RecordKnows(Op(p))
    BY <2>1 DEF InvocationKnows, KnowledgeIsSound
  <2>3. Phase(rec[Op(p)]) = "attempting"
    BY <2>1, <2>2, PhaseOf
  <2>4. UNCHANGED rec /\ effects' = [effects EXCEPT ![Op(p)] = 1]
    BY <1>2, <2>2 DEF ExternalEffect
  <2> QED
    BY <2>1, <2>2, <2>3, <2>4, <1>1
<1>3. ASSUME NEW o \in Ops, NEW applied \in BOOLEAN, LateEffect(o, applied)
      PROVE  [Abstract!Next]_<<absPhase, effects>>
  <2>1. inflight[o] /\ UNCHANGED rec /\ RecordKnows(o) /\ effects \in [Ops -> Nat]
    BY <1>3 DEF LateEffect, KnowledgeIsSound, RestTyped
  <2>2. Phase(rec[o]) \in {"attempting", "unknown"} /\ effects[o] = 0
    BY <2>1, PhaseOf
  <2>3. CASE applied
    <3>1. effects' = [effects EXCEPT ![o] = 1]
      BY <1>3, <2>2, <2>3 DEF LateEffect
    <3> QED
      BY <2>1, <2>2, <3>1, <1>1
  <2>4. CASE ~applied
    <3>1. effects' = [effects EXCEPT ![o] = effects[o] + 0]
      BY <1>3, <2>4 DEF LateEffect
    <3>2. effects' = effects
      BY <2>1, <3>1
    <3> QED
      BY <2>1, <3>2 DEF absPhase
  <2> QED
    BY <2>3, <2>4
<1> QED
  BY <1>2, <1>3

\* Every step is an abstract step or a stutter.
LEMMA StepRefines ==
  TypeOK /\ KnowledgeIsSound /\ [Next]_vars => [Abstract!Next]_<<absPhase, effects>>
<1> SUFFICES ASSUME InvTyped, RestTyped, KnowledgeIsSound, [Next]_vars
             PROVE  [Abstract!Next]_<<absPhase, effects>>
  BY TypeParts
<1>1. ASSUME UNCHANGED <<rec, effects>> PROVE UNCHANGED <<absPhase, effects>>
  BY <1>1 DEF absPhase
<1>2. ASSUME NEW p \in Procs, NEW o \in Ops, NEW i \in Inputs, NEW e \in BOOLEAN, Invoke(p, o, i, e)
      PROVE  UNCHANGED <<rec, effects>>
  BY <1>2 DEF Invoke, worldVars, provider
<1>3. ASSUME NEW p \in Procs,
             \/ RequestApproval(p) \/ InsertCall(p) \/ ReadCall(p) \/ ValidateApproval(p)
             \/ VerifySnapshot(p) \/ InsertRecord(p) \/ ReadRecord(p) \/ ReplayReconciled(p)
             \/ AcquireAttempt(p)
      PROVE  UNCHANGED <<rec, effects>>
  BY <1>3 DEF RequestApproval, InsertCall, ReadCall, ValidateApproval, VerifySnapshot, InsertRecord,
              ReadRecord, ReplayReconciled, AcquireAttempt, worldVars, provider
<1>4. ASSUME NEW p \in Procs,
             \/ \E t \in Targets, late \in BOOLEAN : ExecutorOutcome(p, t, late)
             \/ CompleteLocksCall(p) \/ CompleteFails(p) \/ Return(p)
             \/ \E late \in BOOLEAN : Crash(p, late)
      PROVE  UNCHANGED <<rec, effects>>
  BY <1>4 DEF ExecutorOutcome, CompleteLocksCall, CompleteFails, Return, Crash, worldVars, provider
<1>5. CASE Environment
  <2>1. \/ UNCHANGED <<rec, effects>>
        \/ \E o \in Ops : Reconcile(o)
        \/ \E o \in Ops, applied \in BOOLEAN : LateEffect(o, applied)
    BY <1>5 DEF Environment, Decide, Revoke, Expire, Activate, Disable, worldVars, provider
  <2> QED
    BY <2>1, <1>1, ReconcileRefines, ApplyRefines
<1>6. CASE UNCHANGED vars
  BY <1>6, <1>1 DEF vars, worldVars, provider
<1> QED
  BY <1>1, <1>2, <1>3, <1>4, <1>5, <1>6, BeginRefines, CompleteRefines, ApplyRefines
     DEF Next, Proceed, Targets

\* The Tool Gateway is an at-most-once executor of operations.
THEOREM GatewayImplementsEffectOnce == Spec => ImplementsEffectOnce
<1>1. TypeOK /\ KnowledgeIsSound /\ [Next]_vars => [Abstract!Next]_<<absPhase, effects>>
  BY StepRefines
<1>2. Spec => Abstract!Init /\ [][Abstract!Next]_<<absPhase, effects>>
  BY InitRefines, TypeCorrect, KnowledgeStaysSound, <1>1, PTL DEF Spec
<1> QED
  BY <1>2, PTL DEF ImplementsEffectOnce, Abstract!Spec, absPhase

=============================================================================
