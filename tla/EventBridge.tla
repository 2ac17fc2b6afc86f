----------------------------- MODULE EventBridge -----------------------------
(***************************************************************************)
(* The bridges: worker processes that claim events of the outbox and, in   *)
(* the transaction that records the inbox receipt, start, restart or wake  *)
(* a Temporal workflow (creative_marketer_api/*_worker.py,                 *)
(* events/application.py ProcessEvent, workflow_orchestration/*_bridge.py, *)
(* infrastructure/temporal/client.py).  The call is outside the            *)
(* transaction: it happens before the receipt commits, so a process that   *)
(* dies in between leaves an event that will be handled again.             *)
(***************************************************************************)
EXTENDS EventDelivery

CONSTANTS
  Workflows,   \* workflow ids: one per agent run, production plan, creative cycle
  Kind,        \* what the handler of an event does, see Kinds
  Target,      \* the workflow an event starts or restarts
  Cycles,      \* the workflows of the tenant's creative cycles, woken by "wake"
  MaxFaults    \* bound on crashes, failed calls and failed commits

Kinds == {"start",    \* start_researcher, start_agent, start_assembly
          "approve",  \* start_media_production of an approved plan
          "retry",    \* start_media_production after a spend cap increase
          "redo",     \* restart_media_production of failed or unknown jobs
          "restart",  \* restart_media_production of READY jobs without a run
          "wake"}     \* WakeActiveCreativeCycles

ASSUME BridgeAssumption ==
  /\ Kind \in [Events -> Kinds] /\ Target \in [Events -> Workflows]
  /\ Cycles \subseteq Workflows /\ MaxFaults \in Nat
  /\ \A e \in Events : Kind[e] # "wake" => Target[e] \notin Cycles
  /\ IsFiniteSet(Events)

VARIABLES
  receipts,   \* event_delivery.inbox_receipts of the consumer
  keyLock,    \* transaction whose uncommitted receipt holds the key
  workflow,   \* the state of the last run of each workflow id
  wanted,     \* workflows their rows call for: a plan with READY jobs, an active cycle
  left,       \* the workflows a handler has still to call
  completions, \* history: completed runs of each workflow
  unrecorded, \* history: handlers that called all and left no receipt, numbered by fault
  concerns,   \* history: the workflows to be told of an event when it was committed
  reached,    \* history: the workflows the handlers of an event have called so far
  faults

temporal == <<workflow, wanted, completions>>
vars == <<outbox, worker, receipts, keyLock, temporal, left, concerns, reached, unrecorded, faults>>

Init ==
  /\ InitDelivery
  /\ receipts = {}
  /\ keyLock = [e \in Events |-> None]
  /\ workflow \in [Workflows -> {"none", "completed", "failed"}]  \* of earlier events
  /\ \A x \in Workflows : workflow[x] # "none" =>
       \E e \in Events : Target[e] = x /\ Kind[e] \in {"retry", "redo"}
  /\ completions = [x \in Workflows |-> IF workflow[x] = "completed" THEN 1 ELSE 0]
  /\ wanted = {}
  /\ left = [w \in Workers |-> {}]
  /\ concerns = [e \in Events |-> {}]
  /\ reached = [e \in Events |-> {}]
  /\ unrecorded = {}
  /\ faults = 0

-----------------------------------------------------------------------------
(* Facts, and the workflows they are about.                                *)

Recoveries == {"retry", "redo", "restart"}

\* What the transaction of the fact has read: a run is requested and a plan
\* approved once, jobs are put back to READY after a run, and READY jobs are
\* dispatched again without being changed.  (That a restarted plan has no run
\* was seen in Temporal before the transaction, and may have changed since.)
FactHolds(kind, x) ==
  \/ kind \in {"start", "approve"} /\ workflow[x] = "none"
  \/ kind \in {"retry", "redo"} /\ workflow[x] # "none"
  \/ kind = "restart" /\ x \in wanted
  \/ kind = "wake"

\* The fact is committed with its event.
CommitFact(e) ==
  /\ FactHolds(Kind[e], Target[e])
  /\ AppendEvent(e)
  /\ wanted' = IF Kind[e] \in {"approve", "retry", "redo"} THEN wanted \cup {Target[e]} ELSE wanted
  /\ concerns' = [concerns EXCEPT ![e] =
       IF Kind[e] = "wake" THEN wanted \cap Cycles ELSE {Target[e]}]
  /\ UNCHANGED <<worker, receipts, keyLock, workflow, completions, left, reached, unrecorded, faults>>

\* The API commits a creative cycle, and then starts its workflow if it lives.
OpenCycle(x) ==
  /\ workflow[x] = "none" /\ x \notin wanted
  /\ wanted' = wanted \cup {x}
  /\ UNCHANGED <<outbox, worker, receipts, keyLock, workflow, completions, left, concerns, reached, unrecorded, faults>>
StartCycle(x) ==
  /\ workflow[x] = "none" /\ x \in wanted
  /\ workflow' = [workflow EXCEPT ![x] = "running"]
  /\ UNCHANGED <<outbox, worker, receipts, keyLock, wanted, completions, left, concerns, reached, unrecorded, faults>>

\* A run takes up its jobs, or completes its cycle.
RunSettles(x) ==
  /\ workflow[x] = "running" /\ x \in wanted
  /\ wanted' = wanted \ {x}
  /\ UNCHANGED <<outbox, worker, receipts, keyLock, workflow, completions, left, concerns, reached, unrecorded, faults>>

\* It returns, or fails, times out or is terminated.
RunEnds(x, how) ==
  /\ workflow[x] = "running"
  /\ workflow' = [workflow EXCEPT ![x] = how]
  /\ completions' = [completions EXCEPT ![x] = IF how = "completed" THEN @ + 1 ELSE @]
  /\ UNCHANGED <<outbox, worker, receipts, keyLock, wanted, left, concerns, reached, unrecorded, faults>>

-----------------------------------------------------------------------------
(* ProcessEvent: one transaction of the consumer.                          *)

Rollback(w) == keyLock' = [keyLock EXCEPT ![Current(w)] = IF @ = w THEN None ELSE @]
HandledNothing(w) == left' = [left EXCEPT ![w] = {}]
Called(w) == At(w, "call") /\ left[w] = {}

\* Mutant: the receipt of a concurrent delivery is not waited for.
ReserveWithoutWaiting(w) ==
  LET e == Current(w) IN
  /\ At(w, "reserve")
  /\ IF e \in receipts
       THEN Goto(w, "publish") /\ UNCHANGED keyLock
       ELSE Goto(w, "resolve") /\ keyLock' = [keyLock EXCEPT ![e] = w]
  /\ UNCHANGED <<outbox, receipts, temporal, left, concerns, reached, unrecorded, faults>>

\* inbox.reserve: INSERT ... ON CONFLICT DO NOTHING waits for a concurrent
\* insert of the key to commit or to roll back.
Reserve(w) ==
  LET e == Current(w) IN
  /\ At(w, "reserve") /\ keyLock[e] = None
  /\ IF e \in receipts
       THEN Goto(w, "publish") /\ UNCHANGED keyLock
       ELSE Goto(w, "resolve") /\ keyLock' = [keyLock EXCEPT ![e] = w]
  /\ UNCHANGED <<outbox, receipts, temporal, left, concerns, reached, unrecorded, faults>>

\* The handler reads what it is about: a recovery needs the plan's READY jobs
\* to be those of the event, a wake-up is for the cycles active now.
Stale(e) == Kind[e] \in Recoveries /\ Target[e] \notin wanted
Resolve(w) ==
  LET e == Current(w) IN
  /\ At(w, "resolve")
  /\ \/ /\ Stale(e)
        /\ Rollback(w) /\ Goto(w, "retry")
        /\ UNCHANGED left
     \/ /\ ~Stale(e)
        /\ left' = [left EXCEPT ![w] =
             IF Kind[e] = "wake" THEN wanted \cap Cycles ELSE {Target[e]}]
        /\ Goto(w, "call")
        /\ UNCHANGED keyLock
  /\ UNCHANGED <<outbox, receipts, temporal, concerns, reached, unrecorded, faults>>

\* Mutant: an approved plan is started with Temporal's default reuse policy.
StartsByDefaultPolicy(kind, state) ==
  kind # "wake" /\ state # "running"

\* start_workflow begins a run: with the default policy whenever none is
\* running, for an approved plan only if the last one failed.
Starts(kind, state) ==
  \/ kind \in {"start", "redo", "restart"} /\ state # "running"
  \/ kind \in {"approve", "retry"} /\ state \in {"none", "failed"}

\* WorkflowAlreadyStartedError that the starter takes for success, or a signal
\* that is delivered.
Tolerates(kind, state) ==
  \/ kind \in {"start", "wake"} /\ state = "running"
  \/ kind \in {"approve", "retry"} /\ state \in {"running", "completed"}

Land(e, x) ==
  /\ workflow' = [workflow EXCEPT ![x] = IF Starts(Kind[e], @) THEN "running" ELSE @]
  /\ reached' = [reached EXCEPT ![e] = @ \cup {x}]

Call(w, x) ==
  LET e == Current(w) IN
  /\ At(w, "call") /\ x \in left[w]
  /\ Starts(Kind[e], workflow[x]) \/ Tolerates(Kind[e], workflow[x])
  /\ Land(e, x)
  /\ left' = [left EXCEPT ![w] = @ \ {x}]
  /\ UNCHANGED <<outbox, worker, receipts, keyLock, wanted, completions, concerns, unrecorded, faults>>

\* Temporal refuses: a run is under way, or there is none to wake.
CallRefused(w, x) ==
  LET e == Current(w) IN
  /\ At(w, "call") /\ x \in left[w]
  /\ ~Starts(Kind[e], workflow[x]) /\ ~Tolerates(Kind[e], workflow[x])
  /\ Rollback(w) /\ Goto(w, "retry") /\ HandledNothing(w)
  /\ UNCHANGED <<outbox, receipts, temporal, concerns, reached, unrecorded, faults>>

\* The call fails, and may have landed all the same.
CallFails(w, x, landed) ==
  LET e == Current(w) IN
  /\ At(w, "call") /\ x \in left[w] /\ faults < MaxFaults
  /\ faults' = faults + 1
  /\ IF landed
       THEN /\ Starts(Kind[e], workflow[x]) \/ Tolerates(Kind[e], workflow[x])
            /\ Land(e, x)
            /\ unrecorded' = unrecorded \cup {<<e, faults>>}
       ELSE UNCHANGED <<workflow, reached, unrecorded>>
  /\ Rollback(w) /\ Goto(w, "retry") /\ HandledNothing(w)
  /\ UNCHANGED <<outbox, receipts, wanted, completions, concerns>>

\* Mutant: the receipt is kept although the handler's calls are not all made.
CommitEarly(w) ==
  /\ At(w, "call")
  /\ receipts' = receipts \cup {Current(w)}
  /\ Rollback(w) /\ Goto(w, "publish") /\ HandledNothing(w)
  /\ UNCHANGED <<outbox, temporal, concerns, reached, unrecorded, faults>>

\* Mutant: the handler's transaction is not committed.
CommitNothing(w) ==
  /\ At(w, "call") /\ left[w] = {}
  /\ Rollback(w) /\ Goto(w, "publish") /\ HandledNothing(w)
  /\ UNCHANGED <<outbox, receipts, temporal, concerns, reached, unrecorded, faults>>

Commit(w) ==
  /\ At(w, "call") /\ left[w] = {}
  /\ receipts' = receipts \cup {Current(w)}
  /\ Rollback(w) /\ Goto(w, "publish") /\ HandledNothing(w)
  /\ UNCHANGED <<outbox, temporal, concerns, reached, unrecorded, faults>>

\* The commit raises, whether or not it took effect.
CommitFails(w, applied) ==
  /\ At(w, "call") /\ left[w] = {} /\ faults < MaxFaults
  /\ faults' = faults + 1
  /\ IF applied
       THEN receipts' = receipts \cup {Current(w)} /\ UNCHANGED unrecorded
       ELSE unrecorded' = unrecorded \cup {<<Current(w), faults>>} /\ UNCHANGED receipts
  /\ Rollback(w) /\ Goto(w, "retry") /\ HandledNothing(w)
  /\ UNCHANGED <<outbox, temporal, concerns, reached>>

-----------------------------------------------------------------------------
(* The bridge loop.                                                        *)

bridgeVars == <<receipts, keyLock, temporal, left, concerns, reached, unrecorded, faults>>

Take(w) == TakeNext(w, "reserve") /\ UNCHANGED bridgeVars
Published(w) == Finish(w, "publish", "PUBLISHED") /\ UNCHANGED bridgeVars

\* mark_retryable five seconds later, whatever was raised and however often.
Retry(w) == Finish(w, "retry", "PENDING") /\ UNCHANGED bridgeVars

Crash(w) ==
  /\ Die(w) /\ faults < MaxFaults
  /\ faults' = faults + 1
  /\ keyLock' = [e \in Events |-> IF keyLock[e] = w THEN None ELSE keyLock[e]]
  /\ HandledNothing(w)
  /\ unrecorded' = IF Called(w) THEN unrecorded \cup {<<Current(w), faults>>} ELSE unrecorded
  /\ UNCHANGED <<receipts, temporal, concerns, reached>>

Proceed(w) ==
  \/ Take(w) \/ Reserve(w) \/ Resolve(w)
  \/ \E x \in Workflows : Call(w, x) \/ CallRefused(w, x)
  \/ Commit(w) \/ Published(w) \/ Retry(w)
  \/ Rest(w) /\ UNCHANGED bridgeVars

PollOutbox(w) == Poll(w) /\ UNCHANGED bridgeVars

Next ==
  \/ \E w \in Workers :
       \/ PollOutbox(w) \/ Proceed(w) \/ Crash(w)
       \/ \E x \in Workflows, landed \in BOOLEAN : CallFails(w, x, landed)
       \/ \E applied \in BOOLEAN : CommitFails(w, applied)
  \/ \E e \in Events : CommitFact(e)
  \/ \E x \in Cycles : OpenCycle(x) \/ StartCycle(x)
  \/ \E x \in Workflows : RunSettles(x) \/ \E how \in {"completed", "failed"} : RunEnds(x, how)
  \/ Time /\ UNCHANGED bridgeVars

Spec == Init /\ [][Next]_vars

-----------------------------------------------------------------------------
(* Properties.                                                             *)

Labels == {"idle", "next", "reserve", "resolve", "call", "publish", "retry"}

StateTyped ==
  /\ Typed(Labels)
  /\ receipts \subseteq Events
  /\ keyLock \in [Events -> Workers \cup {None}]
  /\ workflow \in [Workflows -> {"none", "running", "completed", "failed"}]
  /\ wanted \subseteq Workflows
  /\ left \in [Workers -> SUBSET Workflows]
  /\ concerns \in [Events -> SUBSET Workflows]
  /\ reached \in [Events -> SUBSET Workflows]
  /\ faults \in 0..MaxFaults
CountsTyped ==
  /\ completions \in [Workflows -> Nat]
  /\ unrecorded \subseteq Events \X (0..MaxFaults)

\* Every variable has its type, and a row has an owner while it is leased only.
TypeOK == StateTyped /\ CountsTyped

\* An event is given up as PUBLISHED only once its receipt is committed, and a
\* receipt is committed only when all the fact concerns has been called: the
\* run it asks for, every cycle that was active at the fact and still is.  No
\* crash, retry or slow process loses the hand-over (TEMPORAL_SPIKE_REPORT).
NothingIsLost ==
  /\ \A e \in Events : outbox[e].state = "PUBLISHED" => e \in receipts
  /\ \A e \in receipts : \A x \in concerns[e] :
       x \in reached[e] \/ (Kind[e] = "wake" /\ x \notin wanted)

\* Two deliveries of one event, by a process slower than its lease and by the
\* one that claimed it after, never call for it at the same time.
Handling(w) == At(w, "resolve") \/ At(w, "call")
HandlersAreAlone ==
  \A v, w \in Workers : Handling(v) /\ Handling(w) /\ Current(v) = Current(w) => v = w

\* A plan generates once for its approval and once more for each order to run it
\* again: repeated deliveries of the approval, of a cap increase or of an order
\* add no generation, but for an order whose handler had called Temporal and then
\* lost its receipt (ADR-055).
Orders(x) == {e \in Events : /\ Kind[e] \in {"start", "redo", "restart"} /\ Target[e] = x
                             /\ outbox[e].state # "NONE"}
Repeats(x) == {u \in unrecorded : u[1] \in Orders(x)}
GenerationsAreOrdered ==
  \A x \in Workflows :
    completions[x] <= 1 + Cardinality(Orders(x)) + Cardinality(Repeats(x))

\* See EventDelivery: settled events stay settled, and a lease excludes others.
DeliveryStepsAreSafe ==
  [][\A e \in Events : SettledIsFinal(e) /\ LeaseIsExclusive(e)]_vars

Phase(e) == CASE outbox[e].state = "NONE" -> "absent"
              [] outbox[e].state = "PUBLISHED" -> "published"
              [] OTHER -> IF e \in receipts THEN "consumed" ELSE "committed"
Abstract == INSTANCE DeliverOnce WITH phase <- [e \in Events |-> Phase(e)]

\* The bridges implement at-least-once delivery consumed once.
ImplementsDeliverOnce == Abstract!Spec

=============================================================================
