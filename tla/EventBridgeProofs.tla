------------------------- MODULE EventBridgeProofs --------------------------
(***************************************************************************)
(* Theorems about EventBridge, for any events, workers, workflows, batches *)
(* and number of faults: type correctness, that nothing is lost, that      *)
(* handlers are alone, what a step may never do, and DeliverOnce.          *)
(***************************************************************************)
EXTENDS EventBridge, FiniteSetTheorems, TLAPS

-----------------------------------------------------------------------------
(* What every step of delivery keeps: the rows and processes stay well     *)
(* formed, and a process only holds events that have been committed.       *)

\* A process only holds events whose fact has been committed.
HoldsCommitted ==
  \A w \in Workers :
    /\ \A c \in worker[w].todo : outbox[c[1]].state # "NONE"
    /\ Current(w) \in Events => outbox[Current(w)].state # "NONE"

DeliveryInv(labels) == Typed(labels) /\ HoldsCommitted

Process(labels) == [pc : labels, todo : SUBSET Claims,
                    event : Events \cup {None}, attempt : 0..AttemptCap]

\* No event is forgotten: a committed row stays committed.
RowsStay == \A e \in Events : outbox[e].state # "NONE" => outbox'[e].state # "NONE"

\* Processes as delivery starts them are well formed (the Init of every program).
LEMMA DeliveryStarts ==
  ASSUME NEW labels, "idle" \in labels, InitDelivery
  PROVE  DeliveryInv(labels)
<1>1. Fresh \in Process(labels)
  BY BatchAssumption DEF Fresh, Process, Claims
<1>2. NoRow \in Row
  BY BatchAssumption DEF NoRow, Row, States
<1> QED
  BY <1>1, <1>2, WorkerAssumption
  DEF InitDelivery, DeliveryInv, Typed, HoldsCommitted, At, Current, Process, Fresh, NoRow

\* A process moves on without touching the rows (Goto of every handler).
LEMMA GotoKeeps ==
  ASSUME NEW labels, DeliveryInv(labels), NEW w \in Workers, NEW label \in labels,
         Current(w) \in Events, Goto(w, label), UNCHANGED outbox
  PROVE  DeliveryInv(labels)'
<1>1. worker \in [Workers -> Process(labels)]
  BY DEF DeliveryInv, Typed, Process
<1> DEFINE p == [worker[w] EXCEPT !.pc = label]
<1>2. p \in Process(labels) /\ p.todo = worker[w].todo /\ p.event = worker[w].event
  BY <1>1 DEF Process
<1>3. worker' = [worker EXCEPT ![w] = p]
  BY DEF Goto
<1> HIDE DEF p
<1>4. worker' \in [Workers -> Process(labels)]
  BY <1>1, <1>2, <1>3
<1>5. \A v \in Workers : worker'[v].todo = worker[v].todo /\ worker'[v].event = worker[v].event
  BY <1>1, <1>2, <1>3
<1>6. \A v \in Workers : v # w => worker'[v] = worker[v]
  BY <1>1, <1>3
<1> QED
  BY <1>4, <1>5, <1>6 DEF DeliveryInv, Typed, Process, HoldsCommitted, At, Current

\* The rows change and no process does (AppendEvent, the clock).
LEMMA RowsChange ==
  ASSUME NEW labels, DeliveryInv(labels), UNCHANGED worker,
         outbox' \in [Events -> Row], RowsStay,
         \A e \in Events : outbox'[e].state = "PUBLISHING" <=> outbox'[e].owner # None
  PROVE  DeliveryInv(labels)'
<1>1. \A v \in Workers : worker[v].todo \subseteq Claims
  BY DEF DeliveryInv, Typed
<1> QED
  BY <1>1 DEF DeliveryInv, Typed, HoldsCommitted, RowsStay, At, Current, Claims

\* PostgresOutboxWriter.append.
LEMMA AppendKeeps ==
  ASSUME NEW labels, DeliveryInv(labels), NEW e \in Events, AppendEvent(e), UNCHANGED worker
  PROVE  DeliveryInv(labels)'
<1>1. NewRow \in Row /\ NewRow.state = "PENDING" /\ NewRow.owner = None
  BY BatchAssumption DEF NewRow, Row, States
<1>2. outbox' = [outbox EXCEPT ![e] = NewRow]
  BY DEF AppendEvent
<1>3. outbox \in [Events -> Row] /\ \A d \in Events : outbox[d].state = "PUBLISHING" <=> outbox[d].owner # None
  BY DEF DeliveryInv, Typed
<1> QED
  BY <1>1, <1>2, <1>3, RowsChange DEF RowsStay

\* A row after a claim.
LEMMA NextAttemptType == \A n \in 0..AttemptCap : NextAttempt(n) \in 0..AttemptCap
  BY BatchAssumption DEF NextAttempt

\* claim_ready: the claimed rows are leased to the process that now holds them.
LEMMA PollKeeps ==
  ASSUME NEW labels, "next" \in labels, DeliveryInv(labels), NEW w \in Workers, Poll(w)
  PROVE  DeliveryInv(labels)' /\ RowsStay
<1>1. PICK batch \in SUBSET Events :
        /\ Claim(w, batch)
        /\ worker' = [worker EXCEPT ![w] = Holding({<<e, outbox'[e].attempts>> : e \in batch})]
  BY DEF Poll
<1>2. outbox \in [Events -> Row] /\ worker \in [Workers -> Process(labels)]
  BY DEF DeliveryInv, Typed, Process
<1>3. \A e \in batch : /\ outbox'[e] \in Row /\ outbox'[e].state = "PUBLISHING"
                       /\ outbox'[e].owner = w
  <2> SUFFICES ASSUME NEW e \in batch
               PROVE  /\ outbox'[e] \in Row /\ outbox'[e].state = "PUBLISHING"
                      /\ outbox'[e].owner = w
    OBVIOUS
  <2>1. outbox'[e] = [outbox[e] EXCEPT !.state = "PUBLISHING", !.owner = w, !.expired = FALSE,
                                       !.attempts = NextAttempt(outbox[e].attempts)]
    BY <1>1 DEF Claim
  <2>2. outbox[e] \in Row
    BY <1>2
  <2>3. NextAttempt(outbox[e].attempts) \in 0..AttemptCap
    BY <2>2, NextAttemptType DEF Row
  <2> QED
    BY <2>1, <2>2, <2>3 DEF Row, States
<1>4. \A e \in Events \ batch : outbox'[e] = outbox[e]
  BY <1>1 DEF Claim
<1>5. outbox' \in [Events -> Row]
  <2>1. DOMAIN outbox' = Events /\ outbox' = [e \in Events |-> outbox'[e]]
    BY <1>1 DEF Claim
  <2> QED
    BY <2>1, <1>2, <1>3, <1>4
<1>6. RowsStay
  BY <1>3, <1>4 DEF RowsStay
<1>7. \A e \in Events : outbox'[e].state = "PUBLISHING" <=> outbox'[e].owner # None
  BY <1>3, <1>4, WorkerAssumption DEF DeliveryInv, Typed
<1> DEFINE t == {<<e, outbox'[e].attempts>> : e \in batch}
           p == Holding(t)
<1>8. t \subseteq Claims
  BY <1>3 DEF Claims, Row
<1>9. \A c \in t : c[1] \in batch
  OBVIOUS
<1> HIDE DEF t
<1>10. p \in Process(labels) /\ p.todo = t /\ p.event = None /\ p.pc = "next"
  BY <1>8, BatchAssumption DEF Process, Holding
<1>11. worker' = [worker EXCEPT ![w] = p]
  BY <1>1 DEF t
<1> HIDE DEF p
<1>12. worker' \in [Workers -> Process(labels)] /\ worker'[w] = p
       /\ \A v \in Workers : v # w => worker'[v] = worker[v]
  BY <1>2, <1>10, <1>11
<1>13. HoldsCommitted'
  <2> SUFFICES ASSUME NEW v \in Workers
               PROVE  /\ \A c \in worker'[v].todo : outbox'[c[1]].state # "NONE"
                      /\ worker'[v].event \in Events => outbox'[worker'[v].event].state # "NONE"
    BY DEF HoldsCommitted, Current
  <2>1. CASE v = w
    BY <2>1, <1>3, <1>9, <1>10, <1>12, WorkerAssumption
  <2>2. CASE v # w
    <3>1. worker'[v] = worker[v] /\ worker[v].todo \subseteq Claims
      BY <2>2, <1>2, <1>12 DEF Process
    <3> QED
      BY <3>1, <1>6 DEF DeliveryInv, HoldsCommitted, RowsStay, Current, Claims
  <2> QED
    BY <2>1, <2>2
<1>14. \A v \in Workers : ~At(v, "idle")' /\ ~At(v, "next")' => Current(v)' \in Events
  BY <1>10, <1>12 DEF DeliveryInv, Typed, At, Current
<1> QED
  BY <1>5, <1>6, <1>7, <1>12, <1>13, <1>14 DEF DeliveryInv, Typed, Process

\* A process becomes p, which holds no event it did not hold before.
LEMMA ProcessChanges ==
  ASSUME NEW labels, DeliveryInv(labels), NEW w \in Workers, NEW p \in Process(labels),
         worker' = [worker EXCEPT ![w] = p],
         outbox' \in [Events -> Row], RowsStay,
         \A e \in Events : outbox'[e].state = "PUBLISHING" <=> outbox'[e].owner # None,
         p.todo \subseteq worker[w].todo,
         p.event \in Events => \/ p.event = Current(w)
                               \/ \E c \in worker[w].todo : p.event = c[1],
         p.pc \notin {"idle", "next"} => p.event \in Events
  PROVE  DeliveryInv(labels)'
<1>1. worker \in [Workers -> Process(labels)]
  BY DEF DeliveryInv, Typed, Process
<1>2. worker' \in [Workers -> Process(labels)] /\ worker'[w] = p
      /\ \A v \in Workers : v # w => worker'[v] = worker[v]
  BY <1>1
<1>3. \A v \in Workers : worker[v].todo \subseteq Claims
  BY <1>1 DEF Process
<1>4. HoldsCommitted'
  <2> SUFFICES ASSUME NEW v \in Workers
               PROVE  /\ \A c \in worker'[v].todo : outbox'[c[1]].state # "NONE"
                      /\ worker'[v].event \in Events => outbox'[worker'[v].event].state # "NONE"
    BY DEF HoldsCommitted, Current
  <2>1. /\ \A c \in worker[v].todo : c[1] \in Events /\ outbox[c[1]].state # "NONE"
        /\ worker[v].event \in Events => outbox[worker[v].event].state # "NONE"
    BY <1>3 DEF DeliveryInv, HoldsCommitted, Current, Claims
  <2>2. CASE v = w
    BY <2>1, <2>2, <1>2 DEF RowsStay, Current
  <2>3. CASE v # w
    BY <2>1, <2>3, <1>2 DEF RowsStay
  <2> QED
    BY <2>2, <2>3
<1>5. \A v \in Workers : ~At(v, "idle")' /\ ~At(v, "next")' => Current(v)' \in Events
  BY <1>2 DEF DeliveryInv, Typed, At, Current
<1> QED
  BY <1>2, <1>4, <1>5 DEF DeliveryInv, Typed, Process

\* The loop comes to the next claimed event.
LEMMA TakeKeeps ==
  ASSUME NEW labels, DeliveryInv(labels), NEW w \in Workers, NEW label \in labels,
         TakeNext(w, label)
  PROVE  DeliveryInv(labels)' /\ Current(w)' \in Events
<1>1. PICK c \in worker[w].todo :
        worker' = [worker EXCEPT ![w] =
          [pc |-> label, todo |-> worker[w].todo \ {c}, event |-> c[1], attempt |-> c[2]]]
  BY DEF TakeNext
<1>2. worker \in [Workers -> Process(labels)]
  BY DEF DeliveryInv, Typed, Process
<1>3. worker[w].todo \subseteq Claims
  BY <1>2 DEF Process
<1>4. c[1] \in Events /\ c[2] \in 0..AttemptCap
  BY <1>3 DEF Claims
<1> DEFINE p == [pc |-> label, todo |-> worker[w].todo \ {c}, event |-> c[1], attempt |-> c[2]]
<1>5. p \in Process(labels) /\ p.event = c[1] /\ p.todo \subseteq worker[w].todo
  BY <1>3, <1>4 DEF Process
<1>6. worker' = [worker EXCEPT ![w] = p]
  BY <1>1
<1> HIDE DEF p
<1>7. UNCHANGED outbox
  BY DEF TakeNext
<1>8. DeliveryInv(labels)'
  BY <1>4, <1>5, <1>6, <1>7, ProcessChanges DEF RowsStay, DeliveryInv, Typed
<1> QED
  BY <1>2, <1>4, <1>5, <1>6, <1>8 DEF Current

\* Rest and Die: a process forgets what it held.
LEMMA ForgetKeeps ==
  ASSUME NEW labels, "idle" \in labels, DeliveryInv(labels), NEW w \in Workers,
         worker' = [worker EXCEPT ![w] = Fresh], UNCHANGED outbox
  PROVE  DeliveryInv(labels)'
<1>1. /\ Fresh \in Process(labels) /\ Fresh.todo = {} /\ Fresh.event \notin Events
      /\ Fresh.pc = "idle"
  BY BatchAssumption, WorkerAssumption DEF Fresh, Process, Claims
<1> QED
  BY <1>1, ProcessChanges DEF RowsStay, DeliveryInv, Typed

\* mark_published, mark_retryable and mark_terminal.
LEMMA FinishKeeps ==
  ASSUME NEW labels, "next" \in labels, DeliveryInv(labels), NEW w \in Workers, NEW label \in labels,
         NEW state \in {"PUBLISHED", "PENDING", "FAILED_TERMINAL"},
         Current(w) \in Events, Finish(w, label, state)
  PROVE  /\ DeliveryInv(labels)' /\ RowsStay
         /\ \/ UNCHANGED outbox
            \/ /\ outbox[Current(w)].state = "PUBLISHING"
               /\ outbox'[Current(w)].state = state
               /\ \A e \in Events : e # Current(w) => outbox'[e] = outbox[e]
<1>1. outbox \in [Events -> Row] /\ worker \in [Workers -> Process(labels)]
      /\ \A e \in Events : outbox[e].state = "PUBLISHING" <=> outbox[e].owner # None
  BY DEF DeliveryInv, Typed, Process
<1> DEFINE k == Current(w)
           r == [outbox[k] EXCEPT !.state = state, !.owner = None, !.expired = FALSE,
                                  !.due = (state # "PENDING")]
           p == Holding(worker[w].todo)
<1>2. k \in Events /\ r \in Row /\ r.state = state /\ r.owner = None
  BY <1>1 DEF Row, States
<1>3. /\ p \in Process(labels) /\ p.todo = worker[w].todo /\ p.event \notin Events
      /\ p.pc = "next"
  <2>1. worker[w].todo \in SUBSET Claims
    BY <1>1 DEF Process
  <2> QED
    BY <2>1, BatchAssumption, WorkerAssumption DEF Process, Holding
<1>4. worker' = [worker EXCEPT ![w] = p]
  BY DEF Finish
<1>5. \/ UNCHANGED outbox
      \/ Held(w) /\ outbox' = [outbox EXCEPT ![k] = r]
  BY DEF Finish, FinishAs
<1> HIDE DEF r, p
<1>6. /\ outbox' \in [Events -> Row]
      /\ \A e \in Events : outbox'[e].state = "PUBLISHING" <=> outbox'[e].owner # None
  BY <1>1, <1>2, <1>5
<1>7. \/ UNCHANGED outbox
      \/ /\ outbox[Current(w)].state = "PUBLISHING"
         /\ outbox'[Current(w)].state = state
         /\ \A e \in Events : e # Current(w) => outbox'[e] = outbox[e]
  BY <1>1, <1>2, <1>5 DEF Held
<1>8. RowsStay
  BY <1>7 DEF RowsStay
<1> HIDE DEF k
<1>9. DeliveryInv(labels)'
  BY <1>3, <1>4, <1>6, <1>8, ProcessChanges
<1> QED
  BY <1>7, <1>8, <1>9

\* The clock.
LEMMA TimeKeeps ==
  ASSUME NEW labels, DeliveryInv(labels), Time
  PROVE  /\ DeliveryInv(labels)' /\ RowsStay
         /\ \A e \in Events : outbox'[e].state = outbox[e].state
<1>1. outbox \in [Events -> Row] /\ UNCHANGED worker
      /\ \A e \in Events : outbox[e].state = "PUBLISHING" <=> outbox[e].owner # None
  BY DEF DeliveryInv, Typed, Time
<1>2. PICK e \in Events : LeaseExpires(e) \/ BecomesDue(e)
  BY DEF Time
<1>3. PICK r \in Row : /\ outbox' = [outbox EXCEPT ![e] = r]
                       /\ r.state = outbox[e].state /\ r.owner = outbox[e].owner
  <2>1. CASE LeaseExpires(e)
    <3> DEFINE r == [outbox[e] EXCEPT !.expired = TRUE]
    <3>1. r \in Row /\ r.state = outbox[e].state /\ r.owner = outbox[e].owner
      BY <1>1 DEF Row
    <3>2. outbox' = [outbox EXCEPT ![e] = r]
      BY <2>1 DEF LeaseExpires
    <3> QED
      BY <3>1, <3>2
  <2>2. CASE BecomesDue(e)
    <3> DEFINE r == [outbox[e] EXCEPT !.due = TRUE]
    <3>1. r \in Row /\ r.state = outbox[e].state /\ r.owner = outbox[e].owner
      BY <1>1 DEF Row
    <3>2. outbox' = [outbox EXCEPT ![e] = r]
      BY <2>2 DEF BecomesDue
    <3> QED
      BY <3>1, <3>2
  <2> QED
    BY <1>2, <2>1, <2>2
<1>4. /\ outbox' \in [Events -> Row]
      /\ \A d \in Events : outbox'[d].state = outbox[d].state /\ outbox'[d].owner = outbox[d].owner
  BY <1>1, <1>3
<1>5. RowsStay
  BY <1>4 DEF RowsStay
<1>6. DeliveryInv(labels)'
  BY <1>1, <1>4, <1>5, RowsChange
<1> QED
  BY <1>4, <1>5, <1>6

-----------------------------------------------------------------------------
(* The inductive invariant.                                                *)

\* What a receipt says of a workflow the fact concerns.
Told(e, x) == x \in reached[e] \/ (Kind[e] = "wake" /\ x \notin wanted)

\* Only committed events have receipts, and only events with receipts are at
\* "publish" or PUBLISHED.
ReceiptsAreEarned ==
  /\ \A e \in receipts : outbox[e].state # "NONE"
  /\ \A e \in Events : outbox[e].state = "PUBLISHED" => e \in receipts
  /\ \A w \in Workers : At(w, "publish") => Current(w) \in receipts

\* An event concerns its target or cycles; a cycle it concerns that is no longer
\* wanted has had its run, and is never opened again.
ConcernsAreKept ==
  /\ \A e \in Events : concerns[e] \subseteq IF Kind[e] = "wake" THEN Cycles ELSE {Target[e]}
  /\ \A e \in Events : \A x \in concerns[e] :
       Kind[e] = "wake" => x \in wanted \/ workflow[x] # "none"

\* A handler has called, or has still to call, all its event concerns.
HandlersCover ==
  \A w \in Workers : At(w, "call") =>
    \A x \in concerns[Current(w)] : x \in left[w] \/ Told(Current(w), x)

ReceiptsCover == \A e \in receipts : \A x \in concerns[e] : Told(e, x)

Inv ==
  /\ StateTyped /\ HoldsCommitted
  /\ ReceiptsAreEarned /\ ConcernsAreKept /\ HandlersCover /\ ReceiptsCover

LEMMA InvImplies == Inv => DeliveryInv(Labels) /\ NothingIsLost
  BY DEF Inv, StateTyped, DeliveryInv, ReceiptsAreEarned, ReceiptsCover, NothingIsLost, Told

-----------------------------------------------------------------------------
(* Steps that tell nobody anything: the loop, the clock, crashes, refusals. *)

Quiet == UNCHANGED <<receipts, concerns, reached, wanted, workflow>>

\* A step that changes no receipt: what was told stays told, and a handler
\* that goes on has called what it has no longer to call.
LEMMA TellingStep ==
  ASSUME Inv, StateTyped', HoldsCommitted', RowsStay, UNCHANGED <<receipts, concerns>>,
         \A e \in Events : outbox'[e].state = "PUBLISHED" => e \in receipts,
         \A e \in Events : \A x \in concerns[e] : Told(e, x) => Told(e, x)',
         \A e \in Events : \A x \in concerns[e] :
           Kind[e] = "wake" => x \in wanted' \/ workflow'[x] # "none",
         \A w \in Workers : At(w, "publish")' => Current(w)' \in receipts,
         \A w \in Workers : At(w, "call")' =>
           /\ At(w, "call") /\ Current(w)' = Current(w) /\ Current(w) \in Events
           /\ \A x \in left[w] : x \in left'[w] \/ x \in reached'[Current(w)]
  PROVE  Inv'
<1>1. ReceiptsAreEarned'
  BY DEF Inv, StateTyped, ReceiptsAreEarned, RowsStay
<1>2. ConcernsAreKept'
  BY DEF Inv, ConcernsAreKept
<1>3. HandlersCover'
  <2> SUFFICES ASSUME NEW w \in Workers, At(w, "call")', NEW x \in concerns[Current(w)]
               PROVE  x \in left'[w] \/ Told(Current(w), x)'
    BY DEF HandlersCover
  <2>1. x \in left[w] \/ Told(Current(w), x)
    BY DEF Inv, HandlersCover
  <2>2. CASE x \in left[w]
    BY <2>2 DEF Told
  <2>3. CASE Told(Current(w), x)
    BY <2>3
  <2> QED
    BY <2>1, <2>2, <2>3
<1>4. ReceiptsCover'
  BY DEF Inv, ReceiptsCover, StateTyped
<1> QED
  BY <1>1, <1>2, <1>3, <1>4 DEF Inv

LEMMA QuietStep ==
  ASSUME Inv, Quiet, StateTyped', HoldsCommitted', RowsStay,
         \A e \in Events : outbox'[e].state = "PUBLISHED" => e \in receipts,
         \A w \in Workers : At(w, "publish")' => Current(w)' \in receipts,
         \A w \in Workers : At(w, "call")' =>
           At(w, "call") /\ Current(w)' = Current(w) /\ left'[w] = left[w]
  PROVE  Inv'
<1>1. \A e \in Events : \A x \in concerns[e] : Told(e, x) => Told(e, x)'
  BY DEF Quiet, Told
<1>2. \A e \in Events : \A x \in concerns[e] :
        Kind[e] = "wake" => x \in wanted' \/ workflow'[x] # "none"
  BY DEF Inv, ConcernsAreKept, Quiet
<1>3. \A w \in Workers : At(w, "call") => Current(w) \in Events
  BY DEF Inv, StateTyped, Typed, At
<1> QED
  BY <1>1, <1>2, <1>3, TellingStep DEF Quiet

\* A step that only moves a process on within its transaction.
LEMMA GotoIs ==
  ASSUME Inv, NEW w \in Workers, NEW label, Goto(w, label)
  PROVE  /\ worker'[w].pc = label /\ worker'[w].event = worker[w].event
         /\ \A v \in Workers : v # w => worker'[v] = worker[v]
<1>1. worker \in [Workers -> Process(Labels)]
  BY DEF Inv, StateTyped, Typed, Process
<1>2. worker' = [worker EXCEPT ![w] = [worker[w] EXCEPT !.pc = label]]
  BY DEF Goto
<1> QED
  BY <1>1, <1>2 DEF Process

\* A process inside its transaction is at an event.
LEMMA AtEvent ==
  ASSUME Inv, NEW w \in Workers, ~At(w, "idle"), ~At(w, "next")
  PROVE  Current(w) \in Events /\ outbox[Current(w)].state # "NONE"
  BY DEF Inv, StateTyped, Typed, HoldsCommitted

LEMMA RollbackType ==
  ASSUME Inv, NEW w \in Workers, Rollback(w)
  PROVE  keyLock' \in [Events -> Workers \cup {None}]
  BY DEF Inv, StateTyped, Rollback

\* A process goes from one label to another and nobody is told anything.
LEMMA QuietGoto ==
  ASSUME Inv, Quiet, NEW w \in Workers, NEW label \in Labels \ {"call"}, Goto(w, label),
         ~At(w, "idle"), ~At(w, "next"), UNCHANGED outbox,
         keyLock' \in [Events -> Workers \cup {None}],
         left' \in [Workers -> SUBSET Workflows],
         \A v \in Workers : v # w => left'[v] = left[v],
         faults' \in 0..MaxFaults,
         label = "publish" => Current(w) \in receipts
  PROVE  Inv'
<1>1. Current(w) \in Events
  BY AtEvent
<1>2. DeliveryInv(Labels)'
  BY <1>1, GotoKeeps, InvImplies
<1>3. StateTyped'
  BY <1>2 DEF Inv, StateTyped, Quiet, DeliveryInv
<1>4. HoldsCommitted' /\ RowsStay
  BY <1>2 DEF DeliveryInv, RowsStay
<1>5. /\ worker'[w].pc = label /\ worker'[w].event = worker[w].event
      /\ \A v \in Workers : v # w => worker'[v] = worker[v]
  BY GotoIs
<1>6. \A e \in Events : outbox'[e].state = "PUBLISHED" => e \in receipts
  BY DEF Inv, ReceiptsAreEarned
<1>7. \A v \in Workers : At(v, "publish")' => Current(v)' \in receipts
  BY <1>5 DEF Inv, ReceiptsAreEarned, At, Current
<1>8. \A v \in Workers : At(v, "call")' =>
        At(v, "call") /\ Current(v)' = Current(v) /\ left'[v] = left[v]
  BY <1>5 DEF At, Current
<1> QED
  BY <1>3, <1>4, <1>6, <1>7, <1>8, QuietStep

\* What a step of the loop leaves alone.
LEMMA LoopStep ==
  ASSUME Inv, UNCHANGED bridgeVars, DeliveryInv(Labels)', RowsStay,
         \A e \in Events : outbox'[e].state = "PUBLISHED" => e \in receipts,
         NEW w \in Workers, worker'[w].pc \notin {"publish", "call"},
         \A v \in Workers : v # w => worker'[v] = worker[v]
  PROVE  Inv'
<1>1. Quiet
  BY DEF bridgeVars, Quiet, temporal
<1>2. StateTyped' /\ HoldsCommitted'
  BY DEF Inv, StateTyped, DeliveryInv, bridgeVars, temporal
<1>3. \A v \in Workers : At(v, "publish")' => Current(v)' \in receipts
  BY DEF Inv, ReceiptsAreEarned, At, Current
<1>4. \A v \in Workers : At(v, "call")' =>
        At(v, "call") /\ Current(v)' = Current(v) /\ left'[v] = left[v]
  BY DEF At, Current, bridgeVars
<1> QED
  BY <1>1, <1>2, <1>3, <1>4, QuietStep

\* How the loop's steps change the processes.
LEMMA ProcessIs ==
  ASSUME Inv, NEW w \in Workers, NEW p, worker' = [worker EXCEPT ![w] = p]
  PROVE  worker'[w] = p /\ \A v \in Workers : v # w => worker'[v] = worker[v]
  BY DEF Inv, StateTyped, Typed

LEMMA StepPoll == ASSUME Inv, NEW w \in Workers, PollOutbox(w) PROVE Inv'
<1>1. Poll(w) /\ UNCHANGED bridgeVars
  BY DEF PollOutbox
<1>2. DeliveryInv(Labels)' /\ RowsStay
  BY <1>1, PollKeeps, InvImplies DEF Labels
<1>3. PICK batch \in SUBSET Events :
        /\ Claim(w, batch)
        /\ worker' = [worker EXCEPT ![w] = Holding({<<e, outbox'[e].attempts>> : e \in batch})]
  BY <1>1 DEF Poll
<1>4. /\ worker'[w] = Holding({<<e, outbox'[e].attempts>> : e \in batch})
      /\ \A v \in Workers : v # w => worker'[v] = worker[v]
  BY <1>3, ProcessIs
<1>5. worker'[w].pc = "next"
  BY <1>4 DEF Holding
<1>6. \A e \in Events : outbox'[e].state = "PUBLISHED" => e \in receipts
  <2>1. outbox \in [Events -> Row]
    BY DEF Inv, StateTyped, Typed
  <2>2. \A e \in batch : outbox'[e].state = "PUBLISHING"
    BY <1>3, <2>1 DEF Claim, Row
  <2>3. \A e \in Events \ batch : outbox'[e] = outbox[e]
    BY <1>3 DEF Claim
  <2> QED
    BY <2>2, <2>3 DEF Inv, ReceiptsAreEarned
<1> QED
  BY <1>1, <1>2, <1>4, <1>5, <1>6, LoopStep

LEMMA StepTake == ASSUME Inv, NEW w \in Workers, Take(w) PROVE Inv'
<1>1. TakeNext(w, "reserve") /\ UNCHANGED bridgeVars /\ UNCHANGED outbox
  BY DEF Take, TakeNext
<1>2. DeliveryInv(Labels)'
  BY <1>1, TakeKeeps, InvImplies DEF Labels
<1>3. PICK c \in worker[w].todo :
        worker' = [worker EXCEPT ![w] =
          [pc |-> "reserve", todo |-> worker[w].todo \ {c}, event |-> c[1], attempt |-> c[2]]]
  BY <1>1 DEF TakeNext
<1> DEFINE p == [pc |-> "reserve", todo |-> worker[w].todo \ {c}, event |-> c[1], attempt |-> c[2]]
<1>4. worker'[w].pc = "reserve" /\ \A v \in Workers : v # w => worker'[v] = worker[v]
  <2>1. worker' = [worker EXCEPT ![w] = p] /\ p.pc = "reserve"
    BY <1>3
  <2> HIDE DEF p
  <2> QED
    BY <2>1, ProcessIs
<1>5. RowsStay /\ \A e \in Events : outbox'[e].state = "PUBLISHED" => e \in receipts
  BY <1>1 DEF RowsStay, Inv, ReceiptsAreEarned
<1> QED
  BY <1>1, <1>2, <1>4, <1>5, LoopStep

LEMMA StepRest == ASSUME Inv, NEW w \in Workers, Rest(w), UNCHANGED bridgeVars PROVE Inv'
<1>1. worker' = [worker EXCEPT ![w] = Fresh] /\ UNCHANGED outbox
  BY DEF Rest
<1>2. DeliveryInv(Labels)'
  BY <1>1, ForgetKeeps, InvImplies DEF Labels
<1>3. worker'[w].pc = "idle" /\ \A v \in Workers : v # w => worker'[v] = worker[v]
  <2>1. worker'[w] = Fresh /\ \A v \in Workers : v # w => worker'[v] = worker[v]
    BY <1>1, ProcessIs
  <2> QED
    BY <2>1 DEF Fresh
<1>4. RowsStay /\ \A e \in Events : outbox'[e].state = "PUBLISHED" => e \in receipts
  BY <1>1 DEF RowsStay, Inv, ReceiptsAreEarned
<1> QED
  BY <1>2, <1>3, <1>4, LoopStep

\* Published and Retry.
LEMMA StepFinish ==
  ASSUME Inv, NEW w \in Workers, NEW label \in {"publish", "retry"},
         NEW state \in {"PUBLISHED", "PENDING"},
         Finish(w, label, state), UNCHANGED bridgeVars,
         state = "PUBLISHED" => label = "publish"
  PROVE  Inv'
<1>1. At(w, label) /\ worker' = [worker EXCEPT ![w] = Holding(worker[w].todo)]
  BY DEF Finish
<1>2. Current(w) \in Events
  BY <1>1, AtEvent DEF At
<1>3. /\ DeliveryInv(Labels)' /\ RowsStay
      /\ \/ UNCHANGED outbox
         \/ /\ outbox[Current(w)].state = "PUBLISHING"
            /\ outbox'[Current(w)].state = state
            /\ \A e \in Events : e # Current(w) => outbox'[e] = outbox[e]
  BY <1>2, FinishKeeps, InvImplies DEF Labels
<1>4. worker'[w].pc = "next" /\ \A v \in Workers : v # w => worker'[v] = worker[v]
  <2>1. /\ worker'[w] = Holding(worker[w].todo)
        /\ \A v \in Workers : v # w => worker'[v] = worker[v]
    BY <1>1, ProcessIs
  <2> QED
    BY <2>1 DEF Holding
<1>5. \A e \in Events : outbox'[e].state = "PUBLISHED" => e \in receipts
  BY <1>1, <1>3 DEF Inv, ReceiptsAreEarned
<1> QED
  BY <1>3, <1>4, <1>5, LoopStep

LEMMA StepTime == ASSUME Inv, Time, UNCHANGED bridgeVars PROVE Inv'
<1>1. /\ DeliveryInv(Labels)' /\ RowsStay
      /\ \A e \in Events : outbox'[e].state = outbox[e].state
  BY TimeKeeps, InvImplies
<1>2. Quiet /\ UNCHANGED worker /\ UNCHANGED left
  BY DEF bridgeVars, Quiet, temporal, Time
<1>3. StateTyped' /\ HoldsCommitted'
  BY <1>1 DEF Inv, StateTyped, DeliveryInv, bridgeVars, temporal
<1> QED
  BY <1>1, <1>2, <1>3, QuietStep DEF Inv, ReceiptsAreEarned, At, Current

LEMMA StepCrash == ASSUME Inv, NEW w \in Workers, Crash(w) PROVE Inv'
<1>1. worker' = [worker EXCEPT ![w] = Fresh] /\ UNCHANGED outbox
  BY DEF Crash, Die
<1>2. DeliveryInv(Labels)'
  BY <1>1, ForgetKeeps, InvImplies DEF Labels
<1>3. worker'[w].pc = "idle" /\ \A v \in Workers : v # w => worker'[v] = worker[v]
  <2>1. worker'[w] = Fresh /\ \A v \in Workers : v # w => worker'[v] = worker[v]
    BY <1>1, ProcessIs
  <2> QED
    BY <2>1 DEF Fresh
<1>4. Quiet /\ \A v \in Workers : v # w => left'[v] = left[v]
  BY DEF Crash, Quiet, temporal, HandledNothing, Inv, StateTyped
<1>5. StateTyped'
  BY <1>2, BridgeAssumption DEF Inv, StateTyped, DeliveryInv, Crash, temporal, HandledNothing
<1>6. RowsStay /\ HoldsCommitted'
  BY <1>1, <1>2 DEF RowsStay, DeliveryInv
<1>7. \A e \in Events : outbox'[e].state = "PUBLISHED" => e \in receipts
  BY <1>1 DEF Inv, ReceiptsAreEarned
<1>8. \A v \in Workers : At(v, "publish")' => Current(v)' \in receipts
  BY <1>3 DEF Inv, ReceiptsAreEarned, At, Current
<1>9. \A v \in Workers : At(v, "call")' =>
        At(v, "call") /\ Current(v)' = Current(v) /\ left'[v] = left[v]
  BY <1>3, <1>4 DEF At, Current
<1> QED
  BY <1>4, <1>5, <1>6, <1>7, <1>8, <1>9, QuietStep

-----------------------------------------------------------------------------
(* Facts and runs.                                                         *)

\* A step that only changes what is wanted and what runs.
LEMMA RunStep ==
  ASSUME Inv, UNCHANGED <<outbox, worker, receipts, keyLock, left, concerns, reached, faults>>,
         workflow' \in [Workflows -> {"none", "running", "completed", "failed"}],
         wanted' \subseteq Workflows,
         \A e \in Events : \A x \in concerns[e] : Kind[e] = "wake" =>
           /\ x \in wanted' \/ workflow'[x] # "none"
           /\ x \notin wanted => x \notin wanted'
  PROVE  Inv'
<1>1. StateTyped' /\ HoldsCommitted' /\ RowsStay
  BY DEF Inv, StateTyped, Typed, HoldsCommitted, RowsStay, At, Current
<1>2. \A e \in Events : \A x \in concerns[e] : Told(e, x) => Told(e, x)'
  BY DEF Told
<1>3. \A w \in Workers : At(w, "call") => Current(w) \in Events
  BY DEF Inv, StateTyped, Typed, At
<1>4. \A e \in Events : outbox'[e].state = "PUBLISHED" => e \in receipts
  BY DEF Inv, ReceiptsAreEarned
<1>5. \A w \in Workers : At(w, "publish")' => Current(w)' \in receipts
  BY DEF Inv, ReceiptsAreEarned, At, Current
<1>6. \A w \in Workers : At(w, "call")' => At(w, "call") /\ Current(w)' = Current(w)
  BY DEF At, Current
<1> QED
  BY <1>1, <1>2, <1>3, <1>4, <1>5, <1>6, TellingStep

LEMMA StepOpenCycle == ASSUME Inv, NEW x \in Cycles, OpenCycle(x) PROVE Inv'
<1>1. \A e \in Events : \A y \in concerns[e] : Kind[e] = "wake" =>
        /\ y \in wanted' \/ workflow'[y] # "none"
        /\ y \notin wanted => y \notin wanted'
  BY DEF OpenCycle, Inv, ConcernsAreKept
<1> QED
  BY <1>1, RunStep, BridgeAssumption DEF OpenCycle, Inv, StateTyped

LEMMA StepStartCycle == ASSUME Inv, NEW x \in Cycles, StartCycle(x) PROVE Inv'
<1>1. workflow' = [workflow EXCEPT ![x] = "running"]
      /\ workflow' \in [Workflows -> {"none", "running", "completed", "failed"}]
  BY BridgeAssumption DEF StartCycle, Inv, StateTyped
<1>2. \A e \in Events : \A y \in concerns[e] : Kind[e] = "wake" =>
        y \in wanted' \/ workflow'[y] # "none"
  BY <1>1, BridgeAssumption DEF StartCycle, Inv, ConcernsAreKept, StateTyped
<1> QED
  BY <1>1, <1>2, RunStep DEF StartCycle, Inv, StateTyped

LEMMA StepRunSettles == ASSUME Inv, NEW x \in Workflows, RunSettles(x) PROVE Inv'
<1>1. \A e \in Events : \A y \in concerns[e] : Kind[e] = "wake" =>
        /\ y \in wanted' \/ workflow'[y] # "none"
        /\ y \notin wanted => y \notin wanted'
  BY DEF RunSettles, Inv, ConcernsAreKept
<1> QED
  BY <1>1, RunStep DEF RunSettles, Inv, StateTyped

LEMMA StepRunEnds ==
  ASSUME Inv, NEW x \in Workflows, NEW how \in {"completed", "failed"}, RunEnds(x, how)
  PROVE  Inv'
<1>1. workflow' = [workflow EXCEPT ![x] = how]
      /\ workflow' \in [Workflows -> {"none", "running", "completed", "failed"}]
  BY DEF RunEnds, Inv, StateTyped
<1>2. \A e \in Events : \A y \in concerns[e] : Kind[e] = "wake" =>
        y \in wanted' \/ workflow'[y] # "none"
  BY <1>1 DEF RunEnds, Inv, ConcernsAreKept, StateTyped
<1> QED
  BY <1>1, <1>2, RunStep DEF RunEnds, Inv, StateTyped

\* The rows keep their types and nobody holds the new event yet.
LEMMA StepCommitFact == ASSUME Inv, NEW e \in Events, CommitFact(e) PROVE Inv'
<1>1. AppendEvent(e) /\ UNCHANGED <<worker, receipts, keyLock, workflow, left, reached, faults>>
  BY DEF CommitFact
<1>2. outbox[e].state = "NONE" /\ outbox'[e].state = "PENDING"
      /\ \A d \in Events : d # e => outbox'[d] = outbox[d]
  BY <1>1 DEF AppendEvent, NoRow, NewRow, Inv, StateTyped, Typed
<1>3. DeliveryInv(Labels)' /\ RowsStay
  BY <1>1, <1>2, AppendKeeps, InvImplies DEF RowsStay
<1> DEFINE told == IF Kind[e] = "wake" THEN wanted \cap Cycles ELSE {Target[e]}
<1>4. /\ concerns' = [concerns EXCEPT ![e] = told] /\ told \in SUBSET Workflows
      /\ concerns' \in [Events -> SUBSET Workflows]
      /\ concerns'[e] = told /\ \A d \in Events : d # e => concerns'[d] = concerns[d]
  BY BridgeAssumption DEF CommitFact, Inv, StateTyped
<1>5. /\ wanted \subseteq wanted' /\ wanted' \subseteq Workflows
      /\ wanted' \cap Cycles = wanted \cap Cycles
  BY BridgeAssumption DEF CommitFact, Inv, StateTyped
<1>6. StateTyped' /\ HoldsCommitted'
  BY <1>1, <1>3, <1>4, <1>5 DEF DeliveryInv, Inv, StateTyped
<1>7. e \notin receipts /\ \A w \in Workers : ~At(w, "idle") /\ ~At(w, "next") => Current(w) # e
  BY <1>2 DEF Inv, StateTyped, Typed, HoldsCommitted, ReceiptsAreEarned
<1>8. ReceiptsAreEarned'
  BY <1>1, <1>2, <1>3 DEF Inv, StateTyped, ReceiptsAreEarned, RowsStay, At, Current
<1>9. ConcernsAreKept'
  <2> SUFFICES ASSUME NEW d \in Events
               PROVE  /\ concerns'[d] \subseteq IF Kind[d] = "wake" THEN Cycles ELSE {Target[d]}
                      /\ \A x \in concerns'[d] : Kind[d] = "wake" => x \in wanted' \/ workflow'[x] # "none"
    BY DEF ConcernsAreKept
  <2>1. CASE d = e
    BY <2>1, <1>4, <1>5
  <2>2. CASE d # e
    BY <2>2, <1>1, <1>4, <1>5 DEF Inv, ConcernsAreKept
  <2> QED
    BY <2>1, <2>2
<1>10. \A d \in Events : \A x \in concerns[d] : Told(d, x) => Told(d, x)'
  BY <1>1, <1>5 DEF Told, Inv, ConcernsAreKept
<1>11. HandlersCover'
  <2> SUFFICES ASSUME NEW w \in Workers, At(w, "call")', NEW x \in concerns'[Current(w)]
               PROVE  x \in left[w] \/ Told(Current(w), x)'
    BY <1>1 DEF HandlersCover, At, Current
  <2>1. At(w, "call") /\ Current(w) # e /\ Current(w) \in Events
    BY <1>1, <1>7 DEF At, Inv, StateTyped, Typed
  <2>2. x \in concerns[Current(w)]
    BY <2>1, <1>4
  <2> QED
    BY <2>1, <2>2, <1>1, <1>10 DEF Inv, HandlersCover, Told, Current
<1>12. ReceiptsCover'
  BY <1>1, <1>4, <1>7, <1>10 DEF Inv, StateTyped, ReceiptsCover
<1> QED
  BY <1>6, <1>8, <1>9, <1>11, <1>12 DEF Inv

-----------------------------------------------------------------------------
(* The consumer's transaction.                                             *)

LEMMA LocksType ==
  ASSUME Inv, NEW e \in Events, NEW v \in Workers \cup {None},
         keyLock' = [keyLock EXCEPT ![e] = v]
  PROVE  keyLock' \in [Events -> Workers \cup {None}]
  BY DEF Inv, StateTyped

LEMMA LeftType ==
  ASSUME Inv, NEW w \in Workers, NEW rest \in SUBSET Workflows,
         left' = [left EXCEPT ![w] = rest]
  PROVE  /\ left' \in [Workers -> SUBSET Workflows] /\ left'[w] = rest
         /\ \A v \in Workers : v # w => left'[v] = left[v]
  BY DEF Inv, StateTyped

LEMMA StepReserve == ASSUME Inv, NEW w \in Workers, Reserve(w) PROVE Inv'
<1>1. At(w, "reserve") /\ Quiet /\ UNCHANGED <<outbox, left, faults>>
  BY DEF Reserve, Quiet, temporal
<1>2. Current(w) \in Events
  BY <1>1, AtEvent DEF At
<1>3. left' \in [Workers -> SUBSET Workflows] /\ faults' \in 0..MaxFaults
      /\ \A v \in Workers : v # w => left'[v] = left[v]
  BY <1>1 DEF Inv, StateTyped
<1>4. CASE Current(w) \in receipts
  <2>1. Goto(w, "publish") /\ UNCHANGED keyLock
    BY <1>4 DEF Reserve
  <2>2. keyLock' \in [Events -> Workers \cup {None}] /\ "publish" \in Labels
    BY <2>1 DEF Inv, StateTyped, Labels
  <2> QED
    BY <1>1, <1>3, <1>4, <2>1, <2>2, QuietGoto DEF At
<1>5. CASE Current(w) \notin receipts
  <2>1. Goto(w, "resolve") /\ keyLock' = [keyLock EXCEPT ![Current(w)] = w]
    BY <1>5 DEF Reserve
  <2>2. keyLock' \in [Events -> Workers \cup {None}] /\ "resolve" \in Labels
    BY <1>2, <2>1, LocksType DEF Labels
  <2> QED
    BY <1>1, <1>3, <2>1, <2>2, QuietGoto DEF At
<1> QED
  BY <1>4, <1>5

\* The handler resolves what it has to call: all the event concerns.
LEMMA StepResolve == ASSUME Inv, NEW w \in Workers, Resolve(w) PROVE Inv'
<1>1. At(w, "resolve") /\ Quiet /\ UNCHANGED <<outbox, faults>>
  BY DEF Resolve, Quiet, temporal
<1> DEFINE k == Current(w)
           due == IF Kind[k] = "wake" THEN wanted \cap Cycles ELSE {Target[k]}
<1>2. k \in Events
  BY <1>1, AtEvent DEF At
<1>3. CASE Stale(k)
  <2>1. Rollback(w) /\ Goto(w, "retry") /\ UNCHANGED left
    BY <1>3 DEF Resolve
  <2>2. /\ left' \in [Workers -> SUBSET Workflows] /\ faults' \in 0..MaxFaults
        /\ \A v \in Workers : v # w => left'[v] = left[v]
    BY <1>1, <2>1 DEF Inv, StateTyped
  <2> QED
    BY <1>1, <2>1, <2>2, RollbackType, QuietGoto DEF At, Labels
<1>4. CASE ~Stale(k)
  <2>1. Goto(w, "call") /\ UNCHANGED keyLock /\ left' = [left EXCEPT ![w] = due]
    BY <1>4 DEF Resolve
  <2>2. due \in SUBSET Workflows
    BY <1>2, BridgeAssumption DEF Inv, StateTyped
  <2>3. /\ left' \in [Workers -> SUBSET Workflows] /\ left'[w] = due
        /\ \A v \in Workers : v # w => left'[v] = left[v]
    BY <2>1, <2>2, LeftType
  <2>4. DeliveryInv(Labels)'
    BY <1>1, <1>2, <2>1, GotoKeeps, InvImplies DEF Labels
  <2>5. /\ worker'[w].pc = "call" /\ worker'[w].event = worker[w].event
        /\ \A v \in Workers : v # w => worker'[v] = worker[v]
    BY <2>1, GotoIs
  <2>6. StateTyped' /\ HoldsCommitted'
    BY <1>1, <2>1, <2>3, <2>4 DEF DeliveryInv, Inv, StateTyped, Quiet
  <2>7. ReceiptsAreEarned' /\ ConcernsAreKept' /\ ReceiptsCover'
    BY <1>1, <2>5 DEF Inv, ReceiptsAreEarned, ConcernsAreKept, ReceiptsCover, Quiet, Told, At, Current
  <2>8. HandlersCover'
    <3> SUFFICES ASSUME NEW v \in Workers, At(v, "call")', NEW x \in concerns'[Current(v)']
                 PROVE  x \in left'[v] \/ Told(Current(v), x)'
      BY DEF HandlersCover
    <3>1. CASE v = w
      <4>1. x \in concerns[k] /\ Current(v)' = k
        BY <1>1, <2>5, <3>1 DEF Quiet, Current
      <4>2. x \in IF Kind[k] = "wake" THEN Cycles ELSE {Target[k]}
        BY <4>1, <1>2 DEF Inv, ConcernsAreKept
      <4> QED
        BY <1>1, <2>3, <3>1, <4>1, <4>2 DEF Told, Quiet
    <3>2. CASE v # w
      BY <1>1, <2>3, <2>5, <3>2 DEF Inv, HandlersCover, Told, Quiet, At, Current
    <3> QED
      BY <3>1, <3>2
  <2> QED
    BY <2>6, <2>7, <2>8 DEF Inv
<1> QED
  BY <1>3, <1>4

\* What a call changes: a workflow may begin a run, and has been reached.
LEMMA LandKeeps ==
  ASSUME Inv, NEW e \in Events, NEW x \in Workflows, Land(e, x), UNCHANGED wanted
  PROVE  /\ workflow' \in [Workflows -> {"none", "running", "completed", "failed"}]
         /\ reached' \in [Events -> SUBSET Workflows]
         /\ x \in reached'[e] /\ \A d \in Events : reached[d] \subseteq reached'[d]
         /\ \A d \in Events : \A y \in concerns[d] : Told(d, y) => Told(d, y)'
         /\ \A d \in Events : \A y \in concerns[d] :
              Kind[d] = "wake" => y \in wanted' \/ workflow'[y] # "none"
<1> DEFINE s == IF Starts(Kind[e], workflow[x]) THEN "running" ELSE workflow[x]
           t == reached[e] \cup {x}
<1>1. /\ workflow' = [workflow EXCEPT ![x] = s] /\ reached' = [reached EXCEPT ![e] = t]
      /\ workflow \in [Workflows -> {"none", "running", "completed", "failed"}]
      /\ reached \in [Events -> SUBSET Workflows] /\ concerns \in [Events -> SUBSET Workflows]
  BY DEF Land, Inv, StateTyped
<1>2. /\ s \in {"none", "running", "completed", "failed"}
      /\ workflow[x] # "none" => s # "none"
      /\ t \in SUBSET Workflows /\ x \in t /\ reached[e] \subseteq t
  BY <1>1
<1> HIDE DEF s, t
<1>3. /\ workflow' \in [Workflows -> {"none", "running", "completed", "failed"}]
      /\ \A y \in Workflows : workflow[y] # "none" => workflow'[y] # "none"
  BY <1>1, <1>2
<1>4. /\ reached' \in [Events -> SUBSET Workflows]
      /\ x \in reached'[e] /\ \A d \in Events : reached[d] \subseteq reached'[d]
  BY <1>1, <1>2
<1>5. \A d \in Events : \A y \in concerns[d] : Told(d, y) => Told(d, y)'
  BY <1>4 DEF Told
<1>6. \A d \in Events : \A y \in concerns[d] :
        Kind[d] = "wake" => y \in wanted' \/ workflow'[y] # "none"
  BY <1>1, <1>3 DEF Inv, ConcernsAreKept
<1> QED
  BY <1>3, <1>4, <1>5, <1>6

LEMMA StepCall == ASSUME Inv, NEW w \in Workers, NEW x \in Workflows, Call(w, x) PROVE Inv'
<1> DEFINE k == Current(w)
<1>1. /\ At(w, "call") /\ Land(k, x) /\ left' = [left EXCEPT ![w] = left[w] \ {x}]
      /\ UNCHANGED <<outbox, worker, receipts, keyLock, wanted, concerns, faults>>
  BY DEF Call
<1>2. k \in Events
  BY <1>1, AtEvent DEF At
<1> HIDE DEF k
<1>3. left[w] \ {x} \in SUBSET Workflows
  BY DEF Inv, StateTyped
<1>4. /\ left' \in [Workers -> SUBSET Workflows] /\ left'[w] = left[w] \ {x}
      /\ \A v \in Workers : v # w => left'[v] = left[v]
  BY <1>1, <1>3, LeftType
<1>5. /\ workflow' \in [Workflows -> {"none", "running", "completed", "failed"}]
      /\ reached' \in [Events -> SUBSET Workflows] /\ x \in reached'[k]
      /\ \A d \in Events : \A y \in concerns[d] : Told(d, y) => Told(d, y)'
      /\ \A d \in Events : \A y \in concerns[d] :
           Kind[d] = "wake" => y \in wanted' \/ workflow'[y] # "none"
  BY <1>1, <1>2, LandKeeps
<1>6. StateTyped' /\ HoldsCommitted' /\ RowsStay
  BY <1>1, <1>4, <1>5 DEF Inv, StateTyped, Typed, HoldsCommitted, RowsStay, At, Current
<1>7. \A e \in Events : outbox'[e].state = "PUBLISHED" => e \in receipts
  BY <1>1 DEF Inv, ReceiptsAreEarned
<1>8. \A v \in Workers : At(v, "publish")' => Current(v)' \in receipts
  BY <1>1 DEF Inv, ReceiptsAreEarned, At, Current
<1>9. \A v \in Workers : At(v, "call")' =>
        /\ At(v, "call") /\ Current(v)' = Current(v) /\ Current(v) \in Events
        /\ \A y \in left[v] : y \in left'[v] \/ y \in reached'[Current(v)]
  <2> SUFFICES ASSUME NEW v \in Workers, At(v, "call")'
               PROVE  /\ At(v, "call") /\ Current(v)' = Current(v) /\ Current(v) \in Events
                      /\ \A y \in left[v] : y \in left'[v] \/ y \in reached'[Current(v)]
    OBVIOUS
  <2>1. At(v, "call") /\ Current(v)' = Current(v) /\ Current(v) \in Events
    BY <1>1 DEF At, Current, Inv, StateTyped, Typed
  <2>2. \A y \in left[v] : y \in left'[v] \/ y \in reached'[Current(v)]
    BY <1>4, <1>5 DEF k
  <2> QED
    BY <2>1, <2>2
<1> QED
  BY <1>1, <1>5, <1>6, <1>7, <1>8, <1>9, TellingStep

LEMMA StepCallRefused ==
  ASSUME Inv, NEW w \in Workers, NEW x \in Workflows, CallRefused(w, x) PROVE Inv'
<1>1. /\ At(w, "call") /\ Rollback(w) /\ Goto(w, "retry") /\ left' = [left EXCEPT ![w] = {}]
      /\ Quiet /\ UNCHANGED <<outbox, faults>>
  BY DEF CallRefused, HandledNothing, Quiet, temporal
<1>2. /\ left' \in [Workers -> SUBSET Workflows] /\ faults' \in 0..MaxFaults
      /\ \A v \in Workers : v # w => left'[v] = left[v]
  BY <1>1, LeftType DEF Inv, StateTyped
<1> QED
  BY <1>1, <1>2, RollbackType, QuietGoto DEF At, Labels

LEMMA StepCallFails ==
  ASSUME Inv, NEW w \in Workers, NEW x \in Workflows, NEW landed \in BOOLEAN,
         CallFails(w, x, landed)
  PROVE  Inv'
<1> DEFINE k == Current(w)
<1>1. /\ At(w, "call") /\ Rollback(w) /\ Goto(w, "retry") /\ left' = [left EXCEPT ![w] = {}]
      /\ UNCHANGED <<outbox, receipts, wanted, concerns>> /\ faults' = faults + 1
      /\ faults < MaxFaults
      /\ \/ Land(k, x)
         \/ UNCHANGED <<workflow, reached>>
  BY DEF CallFails, HandledNothing
<1>2. k \in Events
  BY <1>1, AtEvent DEF At
<1>3. /\ left' \in [Workers -> SUBSET Workflows]
      /\ \A v \in Workers : v # w => left'[v] = left[v]
  BY <1>1, LeftType
<1>4. faults' \in 0..MaxFaults
  BY <1>1, BridgeAssumption DEF Inv, StateTyped
<1>5. /\ workflow' \in [Workflows -> {"none", "running", "completed", "failed"}]
      /\ reached' \in [Events -> SUBSET Workflows]
      /\ \A d \in Events : \A y \in concerns[d] : Told(d, y) => Told(d, y)'
      /\ \A d \in Events : \A y \in concerns[d] :
           Kind[d] = "wake" => y \in wanted' \/ workflow'[y] # "none"
  <2>1. CASE Land(k, x)
    BY <1>1, <1>2, <2>1, LandKeeps
  <2>2. CASE UNCHANGED <<workflow, reached>>
    BY <1>1, <2>2 DEF Inv, StateTyped, Told, ConcernsAreKept
  <2> QED
    BY <1>1, <2>1, <2>2
<1>6. DeliveryInv(Labels)'
  BY <1>1, <1>2, GotoKeeps, InvImplies DEF Labels
<1>7. /\ worker'[w].pc = "retry" /\ worker'[w].event = worker[w].event
      /\ \A v \in Workers : v # w => worker'[v] = worker[v]
  BY <1>1, GotoIs
<1>8. StateTyped' /\ HoldsCommitted' /\ RowsStay
  BY <1>1, <1>3, <1>4, <1>5, <1>6, RollbackType DEF DeliveryInv, Inv, StateTyped, RowsStay
<1>9. \A e \in Events : outbox'[e].state = "PUBLISHED" => e \in receipts
  BY <1>1 DEF Inv, ReceiptsAreEarned
<1>10. \A v \in Workers : At(v, "publish")' => Current(v)' \in receipts
  BY <1>7 DEF Inv, ReceiptsAreEarned, At, Current
<1>11. \A v \in Workers : At(v, "call")' =>
         /\ At(v, "call") /\ Current(v)' = Current(v) /\ Current(v) \in Events
         /\ \A y \in left[v] : y \in left'[v] \/ y \in reached'[Current(v)]
  BY <1>3, <1>7 DEF At, Current, Inv, StateTyped, Typed
<1> QED
  BY <1>1, <1>5, <1>8, <1>9, <1>10, <1>11, TellingStep

\* The receipt is committed after the last call (Commit, CommitFails applied).
LEMMA StepReceipt ==
  ASSUME Inv, NEW w \in Workers, At(w, "call"), left[w] = {},
         receipts' = receipts \cup {Current(w)},
         Rollback(w), NEW label \in {"publish", "retry"}, Goto(w, label), HandledNothing(w),
         UNCHANGED <<outbox, temporal, concerns, reached>>, faults' \in 0..MaxFaults
  PROVE  Inv'
<1>1. Current(w) \in Events /\ outbox[Current(w)].state # "NONE"
  BY AtEvent DEF At
<1>2. /\ left' \in [Workers -> SUBSET Workflows] /\ left'[w] = {}
      /\ \A v \in Workers : v # w => left'[v] = left[v]
  BY LeftType DEF HandledNothing
<1>3. DeliveryInv(Labels)'
  BY <1>1, GotoKeeps, InvImplies DEF Labels
<1>4. /\ worker'[w].pc = label /\ worker'[w].event = worker[w].event
      /\ \A v \in Workers : v # w => worker'[v] = worker[v]
  BY GotoIs
<1>5. StateTyped' /\ HoldsCommitted'
  BY <1>1, <1>2, <1>3, RollbackType DEF DeliveryInv, Inv, StateTyped, temporal
<1>6. ReceiptsAreEarned'
  <2>1. \A v \in Workers : At(v, "publish")' => Current(v)' \in receipts'
    BY <1>4 DEF Inv, ReceiptsAreEarned, At, Current
  <2> QED
    BY <2>1, <1>1 DEF Inv, ReceiptsAreEarned
<1>7. ConcernsAreKept'
  BY DEF Inv, ConcernsAreKept, temporal
<1>8. HandlersCover'
  BY <1>2, <1>4 DEF Inv, HandlersCover, Told, At, Current, temporal
<1>9. ReceiptsCover'
  <2>1. \A x \in concerns[Current(w)] : Told(Current(w), x)
    BY DEF Inv, HandlersCover
  <2>2. \A e \in receipts' : \A x \in concerns[e] : Told(e, x)
    BY <2>1 DEF Inv, ReceiptsCover
  <2> QED
    BY <2>2 DEF ReceiptsCover, Told, temporal
<1> QED
  BY <1>5, <1>6, <1>7, <1>8, <1>9 DEF Inv

LEMMA StepCommit == ASSUME Inv, NEW w \in Workers, Commit(w) PROVE Inv'
  BY StepReceipt DEF Commit, Inv, StateTyped

LEMMA StepCommitFails ==
  ASSUME Inv, NEW w \in Workers, NEW applied \in BOOLEAN, CommitFails(w, applied) PROVE Inv'
<1>1. /\ At(w, "call") /\ left[w] = {} /\ Rollback(w) /\ Goto(w, "retry") /\ HandledNothing(w)
      /\ UNCHANGED <<outbox, temporal, concerns, reached>> /\ faults' = faults + 1
      /\ faults < MaxFaults
  BY DEF CommitFails
<1>2. faults' \in 0..MaxFaults
  BY <1>1, BridgeAssumption DEF Inv, StateTyped
<1>3. CASE applied
  BY <1>1, <1>2, <1>3, StepReceipt DEF CommitFails
<1>4. CASE ~applied
  <2>1. Quiet
    BY <1>1, <1>4 DEF CommitFails, Quiet, temporal
  <2>2. /\ left' \in [Workers -> SUBSET Workflows]
        /\ \A v \in Workers : v # w => left'[v] = left[v]
    BY <1>1, LeftType DEF HandledNothing
  <2> QED
    BY <1>1, <1>2, <2>1, <2>2, RollbackType, QuietGoto DEF At, Labels
<1> QED
  BY <1>3, <1>4

-----------------------------------------------------------------------------
(* The invariant holds.                                                    *)

LEMMA InitHolds == Init => Inv
<1> SUFFICES ASSUME Init PROVE Inv
  OBVIOUS
<1>1. DeliveryInv(Labels)
  BY DeliveryStarts DEF Init, Labels
<1>2. StateTyped /\ HoldsCommitted
  BY <1>1, BridgeAssumption DEF Init, StateTyped, DeliveryInv
<1>3. ReceiptsAreEarned /\ HandlersCover
  BY DEF Init, InitDelivery, NoRow, Fresh, ReceiptsAreEarned, HandlersCover, At
<1> QED
  BY <1>2, <1>3 DEF Init, Inv, ConcernsAreKept, ReceiptsCover

LEMMA StepProceed == ASSUME Inv, NEW w \in Workers, Proceed(w) PROVE Inv'
<1>1. CASE Take(w)
  BY <1>1, StepTake
<1>2. CASE Reserve(w) \/ Resolve(w) \/ Commit(w)
  BY <1>2, StepReserve, StepResolve, StepCommit
<1>3. CASE \E x \in Workflows : Call(w, x) \/ CallRefused(w, x)
  BY <1>3, StepCall, StepCallRefused
<1>4. CASE Published(w)
  BY <1>4, StepFinish DEF Published
<1>5. CASE Retry(w)
  BY <1>5, StepFinish DEF Retry
<1>6. CASE Rest(w) /\ UNCHANGED bridgeVars
  BY <1>6, StepRest
<1> QED
  BY <1>1, <1>2, <1>3, <1>4, <1>5, <1>6 DEF Proceed

LEMMA NextKeeps == Inv /\ [Next]_vars => Inv'
<1> SUFFICES ASSUME Inv, [Next]_vars PROVE Inv'
  OBVIOUS
<1>1. ASSUME NEW w \in Workers, PollOutbox(w) \/ Proceed(w) \/ Crash(w) PROVE Inv'
  BY <1>1, StepPoll, StepProceed, StepCrash
<1>2. ASSUME NEW w \in Workers,
             \/ \E x \in Workflows, landed \in BOOLEAN : CallFails(w, x, landed)
             \/ \E applied \in BOOLEAN : CommitFails(w, applied)
      PROVE  Inv'
  BY <1>2, StepCallFails, StepCommitFails
<1>3. CASE \E e \in Events : CommitFact(e)
  BY <1>3, StepCommitFact
<1>4. CASE \E x \in Cycles : OpenCycle(x) \/ StartCycle(x)
  BY <1>4, StepOpenCycle, StepStartCycle
<1>5. CASE \E x \in Workflows : RunSettles(x) \/ \E how \in {"completed", "failed"} : RunEnds(x, how)
  BY <1>5, StepRunSettles, StepRunEnds
<1>6. CASE Time /\ UNCHANGED bridgeVars
  BY <1>6, StepTime
<1>7. CASE UNCHANGED vars
  <2>1. StateTyped' /\ HoldsCommitted'
    BY <1>7 DEF vars, temporal, Inv, StateTyped, Typed, HoldsCommitted, At, Current
  <2>2. ReceiptsAreEarned' /\ ConcernsAreKept' /\ HandlersCover' /\ ReceiptsCover'
    BY <1>7 DEF vars, temporal, Inv, ReceiptsAreEarned, ConcernsAreKept, HandlersCover,
                ReceiptsCover, Told, At, Current
  <2> QED
    BY <2>1, <2>2 DEF Inv
<1> QED
  BY <1>1, <1>2, <1>3, <1>4, <1>5, <1>6, <1>7 DEF Next

LEMMA InvHolds == Spec => []Inv
  BY InitHolds, NextKeeps, PTL DEF Spec

\* The histories: a handler that is interrupted is numbered by its fault.
Counts == CountsTyped /\ \A u \in unrecorded : u[2] < faults

\* What a step does to the histories.
CountsMove ==
  /\ \/ UNCHANGED completions
     \/ \E x \in Workflows : \/ completions' = [completions EXCEPT ![x] = @ + 1]
                            \/ completions' = [completions EXCEPT ![x] = @]
  /\ \/ UNCHANGED unrecorded /\ faults' >= faults
     \/ \E e \in Events : unrecorded' = unrecorded \cup {<<e, faults>>} /\ faults' = faults + 1

LEMMA StepCountsMove == Inv /\ [Next]_vars => CountsMove
<1> SUFFICES ASSUME Inv, [Next]_vars PROVE CountsMove
  OBVIOUS
<1>0. faults \in Nat
  BY DEF Inv, StateTyped
<1>1. ASSUME NEW w \in Workers, Crash(w) PROVE CountsMove
  <2>1. Called(w) => Current(w) \in Events
    BY AtEvent DEF Called, At
  <2> QED
    BY <1>0, <1>1, <2>1 DEF Crash, temporal, CountsMove
<1>2. ASSUME NEW w \in Workers,
             \/ \E x \in Workflows, landed \in BOOLEAN : CallFails(w, x, landed)
             \/ \E applied \in BOOLEAN : CommitFails(w, applied)
      PROVE  CountsMove
  <2>1. Current(w) \in Events
    BY <1>2, AtEvent DEF CallFails, CommitFails, At
  <2> QED
    BY <1>0, <1>2, <2>1 DEF CallFails, CommitFails, temporal, CountsMove
<1>3. ASSUME NEW w \in Workers,
             \/ PollOutbox(w) \/ Take(w) \/ Reserve(w) \/ Resolve(w) \/ Commit(w)
             \/ Published(w) \/ Retry(w)
             \/ \E x \in Workflows : Call(w, x) \/ CallRefused(w, x)
             \/ Rest(w) /\ UNCHANGED bridgeVars
      PROVE  CountsMove
  BY <1>0, <1>3 DEF PollOutbox, Take, Reserve, Resolve, Commit, Published, Retry, Call, CallRefused,
                    bridgeVars, temporal, CountsMove
<1>4. CASE \/ \E e \in Events : CommitFact(e)
           \/ \E x \in Cycles : OpenCycle(x) \/ StartCycle(x)
           \/ Time /\ UNCHANGED bridgeVars
           \/ UNCHANGED vars
  BY <1>0, <1>4 DEF CommitFact, OpenCycle, StartCycle, bridgeVars, temporal, vars, CountsMove
<1>5. ASSUME NEW x \in Workflows,
             RunSettles(x) \/ \E how \in {"completed", "failed"} : RunEnds(x, how)
      PROVE  CountsMove
  <2>1. \/ UNCHANGED completions
        \/ completions' = [completions EXCEPT ![x] = @ + 1]
        \/ completions' = [completions EXCEPT ![x] = @]
    BY <1>5 DEF RunSettles, RunEnds
  <2>2. UNCHANGED <<unrecorded, faults>>
    BY <1>5 DEF RunSettles, RunEnds
  <2> QED
    BY <1>0, <2>1, <2>2 DEF CountsMove
<1> QED
  BY <1>1, <1>2, <1>3, <1>4, <1>5 DEF Next, Proceed

LEMMA CountsKeep == Inv /\ Counts /\ Inv' /\ CountsMove => Counts'
<1> SUFFICES ASSUME Inv, Counts, Inv', CountsMove PROVE Counts'
  OBVIOUS
<1>1. completions' \in [Workflows -> Nat]
  BY DEF Counts, CountsTyped, CountsMove
<1>2. faults \in 0..MaxFaults /\ faults' \in 0..MaxFaults
  BY DEF Inv, StateTyped
<1>3. unrecorded \subseteq Events \X (0..MaxFaults) /\ \A u \in unrecorded : u[2] < faults
  BY DEF Counts, CountsTyped
<1>4. CASE UNCHANGED unrecorded /\ faults' >= faults
  BY <1>1, <1>2, <1>3, <1>4, BridgeAssumption DEF Counts, CountsTyped
<1>5. CASE \E e \in Events : unrecorded' = unrecorded \cup {<<e, faults>>} /\ faults' = faults + 1
  BY <1>1, <1>2, <1>3, <1>5, BridgeAssumption DEF Counts, CountsTyped
<1> QED
  BY <1>4, <1>5 DEF CountsMove

LEMMA CountsHold == Spec => []Counts
<1>1. Init => Counts
  BY DEF Init, Counts, CountsTyped
<1>2. Inv /\ Counts /\ Inv' /\ [Next]_vars => Counts'
  BY StepCountsMove, CountsKeep
<1> QED
  BY <1>1, <1>2, InvHolds, PTL DEF Spec

\* Every variable of the bridges keeps its type, and a row has an owner exactly
\* while it is PUBLISHING (ck_outbox_events_lease_state).
THEOREM BridgeTypeCorrect == Spec => []TypeOK
<1>1. Inv /\ Counts => TypeOK
  BY DEF Inv, Counts, TypeOK
<1> QED
  BY <1>1, InvHolds, CountsHold, PTL

\* Whatever crashes, failed calls, failed commits and late deliveries occur, an
\* event that is published has its receipt, and one with a receipt has reached
\* all it concerns (ProcessEvent and BridgeOnce).
THEOREM NothingIsEverLost == Spec => []NothingIsLost
  BY InvImplies, InvHolds, PTL

-----------------------------------------------------------------------------
(* The bridges implement DeliverOnce.                                      *)

absPhase == [e \in Events |-> Phase(e)]

\* A row is settled as it was, and its receipt is as it was.
SameFor(e) ==
  /\ e \in receipts' <=> e \in receipts
  /\ \/ outbox'[e].state = outbox[e].state
     \/ {outbox'[e].state, outbox[e].state} \subseteq {"PENDING", "PUBLISHING"}

LEMMA PhaseStays == ASSUME NEW e \in Events, SameFor(e) PROVE Phase(e)' = Phase(e)
<1>1. /\ outbox'[e].state = "NONE" <=> outbox[e].state = "NONE"
      /\ outbox'[e].state = "PUBLISHED" <=> outbox[e].state = "PUBLISHED"
  BY DEF SameFor
<1> QED
  BY <1>1 DEF SameFor, Phase

LEMMA StutterRefines ==
  ASSUME \A e \in Events : SameFor(e) PROVE [Abstract!Next]_absPhase
<1>1. absPhase' = absPhase
  BY PhaseStays DEF absPhase
<1> QED
  BY <1>1

LEMMA MoveRefines ==
  ASSUME NEW e \in Events, \A d \in Events : d # e => SameFor(d),
         \/ Phase(e) = "absent" /\ Phase(e)' = "committed"
         \/ Phase(e) = "committed" /\ Phase(e)' = "consumed"
         \/ Phase(e) = "consumed" /\ Phase(e)' = "published"
  PROVE  Abstract!Next
<1>1. absPhase' = [absPhase EXCEPT ![e] = Phase(e)'] /\ absPhase[e] = Phase(e)
  BY PhaseStays DEF absPhase
<1>2. Abstract!Commit(e) \/ Abstract!Consume(e) \/ Abstract!Publish(e)
  BY <1>1 DEF Abstract!Commit, Abstract!Consume, Abstract!Publish, Abstract!Step, absPhase
<1> QED
  BY <1>2 DEF Abstract!Next

\* A new row is pending and has no receipt.
LEMMA FactRefines == ASSUME Inv, NEW e \in Events, CommitFact(e) PROVE Abstract!Next
<1>1. /\ outbox[e].state = "NONE" /\ outbox'[e].state = "PENDING" /\ receipts' = receipts
      /\ \A d \in Events : d # e => outbox'[d] = outbox[d]
  BY DEF CommitFact, AppendEvent, NoRow, NewRow, Inv, StateTyped, Typed
<1>2. e \notin receipts
  BY <1>1 DEF Inv, ReceiptsAreEarned
<1>3. Phase(e) = "absent" /\ Phase(e)' = "committed"
  BY <1>1, <1>2 DEF Phase
<1> QED
  BY <1>1, <1>3, MoveRefines DEF SameFor

\* A receipt is committed for an event that was committed and not consumed.
LEMMA ReceiptRefines ==
  ASSUME Inv, NEW w \in Workers, Commit(w) \/ \E applied \in BOOLEAN : CommitFails(w, applied)
  PROVE  [Abstract!Next]_absPhase
<1>1. /\ At(w, "call") /\ UNCHANGED outbox
      /\ receipts' = receipts \/ receipts' = receipts \cup {Current(w)}
  BY DEF Commit, CommitFails
<1>2. Current(w) \in Events /\ outbox[Current(w)].state # "NONE"
  BY <1>1, AtEvent DEF At
<1>3. CASE receipts' = receipts
  BY <1>1, <1>3, StutterRefines DEF SameFor
<1>4. CASE receipts' = receipts \cup {Current(w)} /\ Current(w) \notin receipts
  <2>1. outbox[Current(w)].state # "PUBLISHED"
    BY <1>2, <1>4 DEF Inv, ReceiptsAreEarned
  <2> PICK e \in Events : e = Current(w)
    BY <1>2
  <2>2. Phase(e) = "committed" /\ Phase(e)' = "consumed"
    BY <1>1, <1>2, <1>4, <2>1 DEF Phase
  <2>3. \A d \in Events : d # e => SameFor(d)
    BY <1>1, <1>4 DEF SameFor
  <2> QED
    BY <2>2, <2>3, MoveRefines
<1> QED
  BY <1>1, <1>3, <1>4

\* mark_published moves a consumed event on; mark_retryable is not seen.
LEMMA FinishRefines ==
  ASSUME Inv, NEW w \in Workers, Published(w) \/ Retry(w)
  PROVE  [Abstract!Next]_absPhase
<1>1. PICK label \in {"publish", "retry"}, state \in {"PUBLISHED", "PENDING"} :
        /\ Finish(w, label, state) /\ UNCHANGED bridgeVars /\ At(w, label)
        /\ state = "PUBLISHED" => label = "publish"
  BY DEF Published, Retry, Finish
<1>2. Current(w) \in Events
  BY <1>1, AtEvent DEF At
<1> PICK e \in Events : e = Current(w)
  BY <1>2
<1>3. /\ DeliveryInv(Labels) /\ "next" \in Labels /\ label \in Labels
      /\ state \in {"PUBLISHED", "PENDING", "FAILED_TERMINAL"}
  BY InvImplies DEF Labels
<1>4. \/ UNCHANGED outbox
      \/ /\ outbox[e].state = "PUBLISHING"
         /\ outbox'[e].state = state
         /\ \A d \in Events : d # e => outbox'[d] = outbox[d]
  BY <1>1, <1>2, <1>3, FinishKeeps
<1>5. receipts' = receipts
  BY <1>1 DEF bridgeVars
<1>6. CASE UNCHANGED outbox \/ (outbox[e].state = "PUBLISHING" /\ outbox'[e].state = "PENDING")
  <2>1. \A d \in Events : SameFor(d)
    BY <1>4, <1>5, <1>6 DEF SameFor
  <2> QED
    BY <2>1, StutterRefines
<1>7. CASE outbox[e].state = "PUBLISHING" /\ outbox'[e].state = "PUBLISHED" /\ ~UNCHANGED outbox
  <2>1. At(w, "publish")
    BY <1>1, <1>4, <1>7
  <2>2. e \in receipts
    BY <2>1 DEF Inv, ReceiptsAreEarned
  <2>3. Phase(e) = "consumed" /\ Phase(e)' = "published"
    BY <1>7, <2>2 DEF Phase
  <2>4. \A d \in Events : d # e => SameFor(d)
    BY <1>4, <1>5, <1>7 DEF SameFor
  <2> QED
    BY <2>3, <2>4, MoveRefines
<1> QED
  BY <1>1, <1>4, <1>6, <1>7

\* A claim takes ready rows, which are not settled.
LEMMA PollRefines == ASSUME Inv, NEW w \in Workers, PollOutbox(w) PROVE [Abstract!Next]_absPhase
<1>1. PICK batch \in SUBSET Events : Claim(w, batch)
  BY DEF PollOutbox, Poll
<1>2. outbox \in [Events -> Row] /\ receipts' = receipts
  BY DEF Inv, StateTyped, Typed, PollOutbox, bridgeVars
<1>3. \A e \in batch : /\ outbox[e].state \in {"PENDING", "PUBLISHING"}
                       /\ outbox'[e].state = "PUBLISHING"
  BY <1>1, <1>2 DEF Claim, Ready, Row
<1>4. \A e \in Events \ batch : outbox'[e] = outbox[e]
  BY <1>1 DEF Claim
<1>5. \A e \in Events : SameFor(e)
  BY <1>2, <1>3, <1>4 DEF SameFor
<1> QED
  BY <1>5, StutterRefines

\* Steps of the rows' clock and steps that touch neither rows nor receipts.
LEMMA TimeRefines == ASSUME Inv, Time, UNCHANGED bridgeVars PROVE [Abstract!Next]_absPhase
<1>1. \A e \in Events : outbox'[e].state = outbox[e].state
  BY InvImplies, TimeKeeps
<1>2. \A e \in Events : SameFor(e)
  BY <1>1 DEF SameFor, bridgeVars
<1> QED
  BY <1>2, StutterRefines

LEMMA UnseenRefines == ASSUME UNCHANGED <<outbox, receipts>> PROVE [Abstract!Next]_absPhase
<1>1. \A e \in Events : SameFor(e)
  BY DEF SameFor
<1> QED
  BY <1>1, StutterRefines

LEMMA NextRefines == Inv /\ [Next]_vars => [Abstract!Next]_absPhase
<1> SUFFICES ASSUME Inv, [Next]_vars PROVE [Abstract!Next]_absPhase
  OBVIOUS
<1>1. ASSUME NEW w \in Workers, PollOutbox(w) \/ Published(w) \/ Retry(w) \/ Commit(w)
      PROVE  [Abstract!Next]_absPhase
  BY <1>1, PollRefines, FinishRefines, ReceiptRefines
<1>2. ASSUME NEW w \in Workers, \E applied \in BOOLEAN : CommitFails(w, applied)
      PROVE  [Abstract!Next]_absPhase
  BY <1>2, ReceiptRefines
<1>3. ASSUME NEW w \in Workers,
             \/ Take(w) \/ Reserve(w) \/ Resolve(w) \/ Crash(w)
             \/ \E x \in Workflows : Call(w, x) \/ CallRefused(w, x)
             \/ \E x \in Workflows, landed \in BOOLEAN : CallFails(w, x, landed)
             \/ Rest(w) /\ UNCHANGED bridgeVars
      PROVE  [Abstract!Next]_absPhase
  <2>1. UNCHANGED <<outbox, receipts>>
    BY <1>3 DEF Take, TakeNext, Reserve, Resolve, Crash, Die, Call, CallRefused, CallFails,
                Rest, bridgeVars
  <2> QED
    BY <2>1, UnseenRefines
<1>4. CASE \E e \in Events : CommitFact(e)
  BY <1>4, FactRefines
<1>5. CASE \/ \E x \in Cycles : OpenCycle(x) \/ StartCycle(x)
           \/ \E x \in Workflows : RunSettles(x) \/ \E how \in {"completed", "failed"} : RunEnds(x, how)
           \/ UNCHANGED vars
  <2>1. UNCHANGED <<outbox, receipts>>
    BY <1>5 DEF OpenCycle, StartCycle, RunSettles, RunEnds, vars
  <2> QED
    BY <2>1, UnseenRefines
<1>6. CASE Time /\ UNCHANGED bridgeVars
  BY <1>6, TimeRefines
<1> QED
  BY <1>1, <1>2, <1>3, <1>4, <1>5, <1>6 DEF Next, Proceed

LEMMA InitRefines == Init => Abstract!Init
  BY DEF Init, InitDelivery, NoRow, Abstract!Init, Phase

\* The bridges consume each committed event at most once, and publish it only
\* after: receipts and rows together implement DeliverOnce.
THEOREM BridgesDeliverOnce == Spec => ImplementsDeliverOnce
<1>1. Spec => Abstract!Init /\ [][Abstract!Next]_absPhase
  BY InitRefines, InvHolds, NextRefines, PTL DEF Spec
<1> QED
  BY <1>1, PTL DEF ImplementsDeliverOnce, Abstract!Spec, absPhase

-----------------------------------------------------------------------------
(* What a step may never do to a row.                                      *)

StepIsSafe == \A e \in Events : SettledIsFinal(e) /\ LeaseIsExclusive(e)

\* A claim takes rows that are ready: neither settled nor leased.
LEMMA PollIsSafe == ASSUME Inv, NEW w \in Workers, Poll(w) PROVE StepIsSafe
<1>1. PICK batch \in SUBSET Events : Claim(w, batch)
  BY DEF Poll
<1>2. \A e \in Events \ batch : outbox'[e] = outbox[e]
  BY <1>1 DEF Claim
<1>3. \A e \in batch : Ready(outbox[e])
  BY <1>1 DEF Claim
<1> QED
  BY <1>2, <1>3 DEF StepIsSafe, SettledIsFinal, LeaseIsExclusive, SettledStates, Ready

\* Only the owner of the claim finishes its event, and leaves it.
LEMMA FinishIsSafe ==
  ASSUME Inv, NEW w \in Workers, NEW label \in {"publish", "retry"},
         NEW state \in {"PUBLISHED", "PENDING"}, Finish(w, label, state)
  PROVE  StepIsSafe
<1> DEFINE k == Current(w)
<1>1. At(w, label) /\ k \in Events
  BY AtEvent DEF Finish, At
<1>2. outbox \in [Events -> Row] /\ worker \in [Workers -> Process(Labels)]
  BY DEF Inv, StateTyped, Typed, Process
<1>3. worker' = [worker EXCEPT ![w] = Holding(worker[w].todo)]
  BY DEF Finish
<1>4. Current(w)' = None
  BY <1>2, <1>3 DEF Current, Holding
<1>5. UNCHANGED outbox \/ Held(w)
  BY DEF Finish, FinishAs
<1>6. Held(w) => /\ \A e \in Events : e # k => outbox'[e] = outbox[e]
                 /\ outbox'[k].state = state
  BY <1>1, <1>2 DEF Finish, FinishAs, Row
<1>7. CASE UNCHANGED outbox
  BY <1>7 DEF StepIsSafe, SettledIsFinal, LeaseIsExclusive
<1>8. CASE Held(w)
  <2>1. /\ outbox[k].state = "PUBLISHING" /\ outbox[k].owner = w
        /\ outbox[k].attempts = worker[w].attempt
    BY <1>8 DEF Held
  <2>2. SettledIsFinal(k)
    BY <2>1 DEF SettledIsFinal, SettledStates
  <2>3. LeaseIsExclusive(k)
    BY <1>4, <1>6, <1>8, <2>1 DEF LeaseIsExclusive
  <2>4. \A e \in Events : e # k => SettledIsFinal(e) /\ LeaseIsExclusive(e)
    BY <1>6, <1>8 DEF SettledIsFinal, LeaseIsExclusive
  <2> QED
    BY <2>2, <2>3, <2>4 DEF StepIsSafe
<1> QED
  BY <1>5, <1>7, <1>8

\* New rows had no state, and the clock only marks rows that are leased or wait.
LEMMA RowStepIsSafe ==
  ASSUME Inv, (\E e \in Events : AppendEvent(e)) \/ Time
  PROVE  StepIsSafe
<1>1. outbox \in [Events -> Row]
  BY DEF Inv, StateTyped, Typed
<1>2. CASE \E e \in Events : AppendEvent(e)
  BY <1>1, <1>2 DEF AppendEvent, NoRow, StepIsSafe, SettledIsFinal, LeaseIsExclusive, SettledStates
<1>3. ASSUME NEW e \in Events, LeaseExpires(e) PROVE StepIsSafe
  <2>1. /\ outbox[e].state = "PUBLISHING" /\ outbox'[e].state = outbox[e].state
        /\ outbox'[e].owner = outbox[e].owner
        /\ \A d \in Events : d # e => outbox'[d] = outbox[d]
    BY <1>1, <1>3 DEF LeaseExpires, Row
  <2> QED
    BY <2>1 DEF StepIsSafe, SettledIsFinal, LeaseIsExclusive, SettledStates
<1>4. ASSUME NEW e \in Events, BecomesDue(e) PROVE StepIsSafe
  <2>1. outbox[e].state = "PENDING" /\ \A d \in Events : d # e => outbox'[d] = outbox[d]
    BY <1>1, <1>4 DEF BecomesDue
  <2> QED
    BY <2>1 DEF StepIsSafe, SettledIsFinal, LeaseIsExclusive, SettledStates
<1> QED
  BY <1>2, <1>3, <1>4 DEF Time

LEMMA NextIsSafe == Inv /\ [Next]_vars => StepIsSafe
<1> SUFFICES ASSUME Inv, [Next]_vars PROVE StepIsSafe
  OBVIOUS
<1>1. ASSUME NEW w \in Workers, PollOutbox(w) \/ Published(w) \/ Retry(w) PROVE StepIsSafe
  BY <1>1, PollIsSafe, FinishIsSafe DEF PollOutbox, Published, Retry
<1>2. CASE (\E e \in Events : CommitFact(e)) \/ (Time /\ UNCHANGED bridgeVars)
  BY <1>2, RowStepIsSafe DEF CommitFact
<1>3. CASE UNCHANGED outbox
  BY <1>3 DEF StepIsSafe, SettledIsFinal, LeaseIsExclusive
<1>4. ASSUME NEW w \in Workers,
             \/ Take(w) \/ Reserve(w) \/ Resolve(w) \/ Commit(w) \/ Crash(w)
             \/ \E x \in Workflows : Call(w, x) \/ CallRefused(w, x)
             \/ \E x \in Workflows, landed \in BOOLEAN : CallFails(w, x, landed)
             \/ \E applied \in BOOLEAN : CommitFails(w, applied)
             \/ Rest(w)
      PROVE  UNCHANGED outbox
  BY <1>4 DEF Take, TakeNext, Reserve, Resolve, Commit, CommitFails, Crash, Die, Call,
              CallRefused, CallFails, Rest
<1>5. CASE \/ \E x \in Cycles : OpenCycle(x) \/ StartCycle(x)
           \/ \E x \in Workflows : RunSettles(x) \/ \E how \in {"completed", "failed"} : RunEnds(x, how)
           \/ UNCHANGED vars
  BY <1>3, <1>5 DEF OpenCycle, StartCycle, RunSettles, RunEnds, vars
<1> QED
  BY <1>1, <1>2, <1>3, <1>4, <1>5 DEF Next, Proceed

\* No step settles an event anew, or moves one on while another process's lease lasts, for
\* batches of any size (claim_ready_types and _finish).
THEOREM DeliveryStaysSafe == Spec => DeliveryStepsAreSafe
<1>1. Inv /\ [Next]_vars => [\A e \in Events : SettledIsFinal(e) /\ LeaseIsExclusive(e)]_vars
  BY NextIsSafe DEF StepIsSafe
<1> QED
  BY <1>1, InvHolds, PTL DEF Spec, DeliveryStepsAreSafe

-----------------------------------------------------------------------------
(* Handlers are alone: the uncommitted receipt is a lock.                  *)

HandlersHoldKeys == \A w \in Workers : Handling(w) => keyLock[Current(w)] = w

\* A process that takes the lock, lets go of it, or keeps what it has.
LEMMA KeysAreKept ==
  ASSUME Inv, HandlersHoldKeys, NEW w \in Workers,
         \A v \in Workers : v # w => worker'[v] = worker[v],
         \A v \in Workers : v # w => \A e \in Events : keyLock[e] = v => keyLock'[e] = v,
         Handling(w)' => keyLock'[Current(w)'] = w
  PROVE  HandlersHoldKeys'
<1> SUFFICES ASSUME NEW v \in Workers, Handling(v)' PROVE keyLock'[Current(v)'] = v
  BY DEF HandlersHoldKeys
<1>1. CASE v # w
  <2>1. Handling(v) /\ Current(v)' = Current(v)
    BY <1>1 DEF Handling, At, Current
  <2>2. Current(v) \in Events
    BY <2>1, AtEvent DEF Handling, At
  <2> QED
    BY <1>1, <2>1, <2>2 DEF HandlersHoldKeys
<1> QED
  BY <1>1

\* A rollback frees the process's own key only.
LEMMA RollbackFrees ==
  ASSUME Inv, NEW w \in Workers, Rollback(w)
  PROVE  \A v \in Workers : v # w => \A e \in Events : keyLock[e] = v => keyLock'[e] = v
  BY DEF Inv, StateTyped, Rollback

\* How a process that is not handling an event any more got there.
LEMMA LeavingKeeps ==
  ASSUME Inv, HandlersHoldKeys, NEW w \in Workers, NEW label \in {"publish", "retry"},
         Goto(w, label), Rollback(w)
  PROVE  HandlersHoldKeys'
<1>1. worker'[w].pc = label /\ \A v \in Workers : v # w => worker'[v] = worker[v]
  BY GotoIs
<1>2. ~ Handling(w)'
  BY <1>1 DEF Handling, At
<1> QED
  BY <1>1, <1>2, RollbackFrees, KeysAreKept

LEMMA LoopKeepsKeys ==
  ASSUME Inv, HandlersHoldKeys, NEW w \in Workers, UNCHANGED keyLock,
         PollOutbox(w) \/ Take(w) \/ Published(w) \/ Retry(w) \/ Rest(w)
  PROVE  HandlersHoldKeys'
<1>1. ASSUME NEW p, worker' = [worker EXCEPT ![w] = p], p.pc \in {"next", "reserve", "idle"}
      PROVE  HandlersHoldKeys'
  <2>1. worker'[w] = p /\ \A v \in Workers : v # w => worker'[v] = worker[v]
    BY <1>1, ProcessIs
  <2>2. ~ Handling(w)'
    BY <1>1, <2>1 DEF Handling, At
  <2> QED
    BY <2>1, <2>2, KeysAreKept
<1>2. CASE PollOutbox(w)
  <2>1. PICK batch \in SUBSET Events :
          worker' = [worker EXCEPT ![w] = Holding({<<e, outbox'[e].attempts>> : e \in batch})]
    BY <1>2 DEF PollOutbox, Poll
  <2>2. Holding({<<e, outbox'[e].attempts>> : e \in batch}).pc = "next"
    BY DEF Holding
  <2> QED
    BY <1>1, <2>1, <2>2
<1>3. CASE Take(w)
  <2>1. PICK c \in worker[w].todo :
          worker' = [worker EXCEPT ![w] =
            [pc |-> "reserve", todo |-> worker[w].todo \ {c}, event |-> c[1], attempt |-> c[2]]]
    BY <1>3 DEF Take, TakeNext
  <2> QED
    BY <1>1, <2>1
<1>4. CASE Published(w) \/ Retry(w)
  <2>1. worker' = [worker EXCEPT ![w] = Holding(worker[w].todo)]
    BY <1>4 DEF Published, Retry, Finish
  <2>2. Holding(worker[w].todo).pc = "next"
    BY DEF Holding
  <2> QED
    BY <1>1, <2>1, <2>2
<1>5. CASE Rest(w)
  <2>1. worker' = [worker EXCEPT ![w] = Fresh] /\ Fresh.pc = "idle"
    BY <1>5 DEF Rest, Fresh
  <2> QED
    BY <1>1, <2>1
<1> QED
  BY <1>2, <1>3, <1>4, <1>5

LEMMA TransactionKeepsKeys ==
  ASSUME Inv, HandlersHoldKeys, NEW w \in Workers, Reserve(w) \/ Resolve(w)
  PROVE  HandlersHoldKeys'
<1>0. Current(w) \in Events /\ keyLock \in [Events -> Workers \cup {None}]
  BY AtEvent DEF Reserve, Resolve, At, Inv, StateTyped
<1>1. CASE Reserve(w) /\ Current(w) \in receipts
  <2>1. Goto(w, "publish") /\ UNCHANGED keyLock
    BY <1>1 DEF Reserve
  <2>2. worker'[w].pc = "publish" /\ \A v \in Workers : v # w => worker'[v] = worker[v]
    BY <2>1, GotoIs
  <2> QED
    BY <2>1, <2>2, KeysAreKept DEF Handling, At
<1>2. CASE Reserve(w) /\ Current(w) \notin receipts
  <2>1. /\ Goto(w, "resolve") /\ keyLock[Current(w)] = None
        /\ keyLock' = [keyLock EXCEPT ![Current(w)] = w]
    BY <1>2 DEF Reserve
  <2>2. /\ worker'[w].event = worker[w].event
        /\ \A v \in Workers : v # w => worker'[v] = worker[v]
    BY <2>1, GotoIs
  <2>3. keyLock'[Current(w)'] = w
    BY <1>0, <2>1, <2>2 DEF Current
  <2>4. \A v \in Workers : v # w => \A e \in Events : keyLock[e] = v => keyLock'[e] = v
    BY <1>0, <2>1, WorkerAssumption
  <2> QED
    BY <2>2, <2>3, <2>4, KeysAreKept
<1>3. CASE Resolve(w) /\ Stale(Current(w))
  BY <1>3, LeavingKeeps DEF Resolve
<1>4. CASE Resolve(w) /\ ~ Stale(Current(w))
  <2>1. At(w, "resolve") /\ Goto(w, "call") /\ UNCHANGED keyLock
    BY <1>4 DEF Resolve
  <2>2. /\ worker'[w].event = worker[w].event
        /\ \A v \in Workers : v # w => worker'[v] = worker[v]
    BY <2>1, GotoIs
  <2> QED
    BY <2>1, <2>2, KeysAreKept DEF HandlersHoldKeys, Handling, Current
<1> QED
  BY <1>1, <1>2, <1>3, <1>4

LEMMA CrashKeepsKeys ==
  ASSUME Inv, HandlersHoldKeys, NEW w \in Workers, Crash(w)
  PROVE  HandlersHoldKeys'
<1>1. worker'[w] = Fresh /\ \A v \in Workers : v # w => worker'[v] = worker[v]
  BY ProcessIs DEF Crash, Die
<1>2. \A v \in Workers : v # w => \A e \in Events : keyLock[e] = v => keyLock'[e] = v
  BY DEF Crash
<1> QED
  BY <1>1, <1>2, KeysAreKept DEF Handling, At, Fresh

LEMMA NextKeepsKeys == Inv /\ HandlersHoldKeys /\ [Next]_vars => HandlersHoldKeys'
<1> SUFFICES ASSUME Inv, HandlersHoldKeys, [Next]_vars PROVE HandlersHoldKeys'
  OBVIOUS
<1>1. ASSUME NEW w \in Workers,
             \/ PollOutbox(w) \/ Take(w) \/ Published(w) \/ Retry(w)
             \/ Rest(w) /\ UNCHANGED bridgeVars
      PROVE  HandlersHoldKeys'
  <2>1. UNCHANGED keyLock
    BY <1>1 DEF PollOutbox, Take, Published, Retry, bridgeVars
  <2> QED
    BY <1>1, <2>1, LoopKeepsKeys
<1>2. ASSUME NEW w \in Workers,
             \/ Commit(w) \/ \E applied \in BOOLEAN : CommitFails(w, applied)
             \/ \E x \in Workflows : CallRefused(w, x)
             \/ \E x \in Workflows, landed \in BOOLEAN : CallFails(w, x, landed)
      PROVE  HandlersHoldKeys'
  BY <1>2, LeavingKeeps DEF Commit, CommitFails, CallRefused, CallFails
<1>3. ASSUME NEW w \in Workers, Reserve(w) \/ Resolve(w) \/ Crash(w) PROVE HandlersHoldKeys'
  BY <1>3, TransactionKeepsKeys, CrashKeepsKeys
<1>4. UNCHANGED <<worker, keyLock>> => HandlersHoldKeys'
  BY DEF HandlersHoldKeys, Handling, At, Current
<1>5. CASE \/ \E w \in Workers, x \in Workflows : Call(w, x)
           \/ \E e \in Events : CommitFact(e)
           \/ \E x \in Cycles : OpenCycle(x) \/ StartCycle(x)
           \/ \E x \in Workflows : RunSettles(x) \/ \E how \in {"completed", "failed"} : RunEnds(x, how)
           \/ Time /\ UNCHANGED bridgeVars
           \/ UNCHANGED vars
  <2>1. UNCHANGED <<worker, keyLock>>
    BY <1>5 DEF Call, CommitFact, OpenCycle, StartCycle, RunSettles, RunEnds, Time, bridgeVars, vars
  <2> QED
    BY <1>4, <2>1
<1> QED
  BY <1>1, <1>2, <1>3, <1>5 DEF Next, Proceed

LEMMA HandlersKeepKeys == Spec => []HandlersHoldKeys
<1>1. Init => HandlersHoldKeys
  BY DEF Init, InitDelivery, Fresh, HandlersHoldKeys, Handling, At
<1> QED
  BY <1>1, InvHolds, NextKeepsKeys, PTL DEF Spec

\* Two deliveries of one event are never in their handlers at the same time, however late one
\* of them is (PostgresInboxRepository.reserve waits for the other's receipt).
THEOREM HandlersStayAlone == Spec => []HandlersAreAlone
<1>1. HandlersHoldKeys => HandlersAreAlone
  BY DEF HandlersHoldKeys, HandlersAreAlone
<1> QED
  BY <1>1, HandlersKeepKeys, PTL

-----------------------------------------------------------------------------
(* Generations: what a plan's completed runs are owed to.                  *)

\* Sizes of finite sets that grow, or lose one element.
LEMMA Sizes ==
  ASSUME NEW S, NEW T, IsFiniteSet(S), IsFiniteSet(T)
  PROVE  /\ Cardinality(S) \in Nat
         /\ S \subseteq T => Cardinality(S) <= Cardinality(T)
         /\ \A e \in T \ S : S \subseteq T => Cardinality(S) + 1 <= Cardinality(T)
         /\ \A e : S \subseteq T \cup {e} => Cardinality(S) <= Cardinality(T) + 1
<1>1. Cardinality(S) \in Nat /\ Cardinality(T) \in Nat
  BY FS_CardinalityType
<1>2. S \subseteq T => Cardinality(S) <= Cardinality(T)
  BY FS_Subset
<1>3. ASSUME NEW e \in T \ S, S \subseteq T PROVE Cardinality(S) + 1 <= Cardinality(T)
  <2>1. IsFiniteSet(S \cup {e}) /\ Cardinality(S \cup {e}) = Cardinality(S) + 1
    BY <1>3, FS_AddElement
  <2>2. S \cup {e} \subseteq T
    BY <1>3
  <2> QED
    BY <2>1, <2>2, FS_Subset
<1>4. ASSUME NEW e, S \subseteq T \cup {e} PROVE Cardinality(S) <= Cardinality(T) + 1
  <2>0. /\ IsFiniteSet(T \cup {e})
        /\ Cardinality(T \cup {e}) = IF e \in T THEN Cardinality(T) ELSE Cardinality(T) + 1
    BY FS_AddElement, Zenon
  <2>1. IsFiniteSet(T \cup {e}) /\ Cardinality(T \cup {e}) <= Cardinality(T) + 1
    BY <1>1, <2>0
  <2>2. Cardinality(S) <= Cardinality(T \cup {e})
    BY <1>4, <2>1, FS_Subset
  <2>3. Cardinality(T \cup {e}) \in Nat
    BY <2>1, FS_CardinalityType
  <2> QED
    BY <1>1, <2>1, <2>2, <2>3
<1> QED
  BY <1>1, <1>2, <1>3, <1>4

\* A handler is the first to finish, and calls the target of its event only.
HandlersAreFirst ==
  /\ \A w \in Workers : Handling(w) => Current(w) \notin receipts
  /\ \A w \in Workers : At(w, "call") /\ Kind[Current(w)] # "wake" => left[w] \subseteq {Target[Current(w)]}

\* The orders that have been carried out, as far as anyone remembers.
Spent(x) ==
  {e \in Orders(x) : e \in receipts \/ \E w \in Workers : Called(w) /\ Current(w) = e}

\* A run that may still complete, or may still be begun without an order.
Pending(x) == IF workflow[x] = "completed" THEN 0 ELSE 1

IsOwed(x) == completions[x] + Pending(x) <= 1 + Cardinality(Spent(x)) + Cardinality(Repeats(x))

GenerationInv == Inv /\ Counts /\ HandlersHoldKeys /\ HandlersAreFirst

SetsFinite ==
  \A x \in Workflows : /\ IsFiniteSet(Orders(x)) /\ IsFiniteSet(Spent(x)) /\ IsFiniteSet(Repeats(x))
                       /\ Spent(x) \subseteq Orders(x)

LEMMA SetsAreFinite == CountsTyped => SetsFinite
<1> SUFFICES ASSUME CountsTyped, NEW x \in Workflows
             PROVE  /\ IsFiniteSet(Orders(x)) /\ IsFiniteSet(Spent(x)) /\ IsFiniteSet(Repeats(x))
                    /\ Spent(x) \subseteq Orders(x)
  BY DEF SetsFinite
<1>1. Orders(x) \subseteq Events /\ Spent(x) \subseteq Orders(x)
  BY DEF Orders, Spent
<1>2. IsFiniteSet(Events)
  BY BridgeAssumption
<1>3. IsFiniteSet(0..MaxFaults)
  BY BridgeAssumption, FS_Interval
<1>4. IsFiniteSet(Events \X (0..MaxFaults))
  BY <1>2, <1>3, FS_Product
<1>5. Repeats(x) \subseteq Events \X (0..MaxFaults)
  BY DEF Repeats, CountsTyped
<1> QED
  BY <1>1, <1>2, <1>4, <1>5, FS_Subset

\* How what is owed follows the sets: they grow, or one order is forgotten and
\* counted as a repeat, or a run is begun for a new element of one of them.
LEMMA OwedFollows ==
  ASSUME CountsTyped, CountsTyped', NEW x \in Workflows, IsOwed(x),
         Repeats(x) \subseteq Repeats(x)',
         \/ /\ completions'[x] + Pending(x)' <= completions[x] + Pending(x)
            /\ Spent(x) \subseteq Spent(x)'
         \/ /\ completions'[x] + Pending(x)' <= completions[x] + Pending(x)
            /\ \E e : Spent(x) \subseteq Spent(x)' \cup {e}
            /\ \E u : u \in Repeats(x)' \ Repeats(x)
         \/ /\ completions'[x] + Pending(x)' <= completions[x] + Pending(x) + 1
            /\ Spent(x) \subseteq Spent(x)'
            /\ \/ \E e : e \in Spent(x)' \ Spent(x)
               \/ \E u : u \in Repeats(x)' \ Repeats(x)
  PROVE  IsOwed(x)'
<1> DEFINE S == Spent(x)  R == Repeats(x)  SS == Spent(x)'  RR == Repeats(x)'
<1>0. SetsFinite /\ SetsFinite'
  BY SetsAreFinite, PTL
<1>1. IsFiniteSet(S) /\ IsFiniteSet(R)
  BY <1>0 DEF SetsFinite
<1>2. IsFiniteSet(SS) /\ IsFiniteSet(RR)
  BY <1>0 DEF SetsFinite
<1>3. /\ completions[x] \in Nat /\ completions'[x] \in Nat
      /\ Pending(x) \in Nat /\ Pending(x)' \in Nat
  BY DEF CountsTyped, Pending
<1>4. completions[x] + Pending(x) <= 1 + Cardinality(S) + Cardinality(R)
  BY DEF IsOwed
<1>5. SUFFICES completions'[x] + Pending(x)' <= 1 + Cardinality(SS) + Cardinality(RR)
  BY DEF IsOwed
<1> HIDE DEF S, R, SS, RR
<1>6. /\ Cardinality(S) \in Nat /\ Cardinality(SS) \in Nat
      /\ Cardinality(R) \in Nat /\ Cardinality(RR) \in Nat
  BY <1>1, <1>2, FS_CardinalityType
<1>7. R \subseteq RR /\ Cardinality(R) <= Cardinality(RR)
  BY <1>1, <1>2, Sizes DEF R, RR
<1>8. CASE completions'[x] + Pending(x)' <= completions[x] + Pending(x) /\ S \subseteq SS
  <2>1. Cardinality(S) <= Cardinality(SS)
    BY <1>1, <1>2, <1>8, Sizes
  <2> QED
    BY <1>3, <1>4, <1>6, <1>7, <1>8, <2>1
<1>9. CASE /\ completions'[x] + Pending(x)' <= completions[x] + Pending(x)
           /\ \E e : S \subseteq SS \cup {e}
           /\ \E u : u \in RR \ R
  <2>1. Cardinality(S) <= Cardinality(SS) + 1
    BY <1>1, <1>2, <1>9, Sizes
  <2>2. Cardinality(R) + 1 <= Cardinality(RR)
    BY <1>1, <1>2, <1>7, <1>9, Sizes
  <2> QED
    BY <1>3, <1>4, <1>6, <1>9, <2>1, <2>2
<1>10. CASE /\ completions'[x] + Pending(x)' <= completions[x] + Pending(x) + 1
            /\ S \subseteq SS
            /\ (\E e : e \in SS \ S) \/ (\E u : u \in RR \ R)
  <2>1. Cardinality(S) <= Cardinality(SS)
    BY <1>1, <1>2, <1>10, Sizes
  <2>2. Cardinality(S) + 1 <= Cardinality(SS) \/ Cardinality(R) + 1 <= Cardinality(RR)
    BY <1>1, <1>2, <1>7, <1>10, Sizes
  <2> QED
    BY <1>3, <1>4, <1>6, <1>7, <1>10, <2>1, <2>2
<1> QED
  BY <1>8, <1>9, <1>10 DEF S, R, SS, RR

\* No fact is taken back.
LEMMA NextRowsStay == Inv /\ [Next]_vars => RowsStay
<1> SUFFICES ASSUME Inv, [Next]_vars PROVE RowsStay
  OBVIOUS
<1>1. ASSUME NEW w \in Workers, PollOutbox(w) PROVE RowsStay
  BY <1>1, PollKeeps, InvImplies DEF PollOutbox, Labels
<1>2. ASSUME NEW w \in Workers, Published(w) \/ Retry(w) PROVE RowsStay
  <2>1. Current(w) \in Events
    BY <1>2, AtEvent DEF Published, Retry, Finish, At
  <2> QED
    BY <1>2, <2>1, FinishKeeps, InvImplies DEF Published, Retry, Labels
<1>3. CASE \E e \in Events : CommitFact(e)
  BY <1>3 DEF CommitFact, AppendEvent, NewRow, RowsStay, Inv, StateTyped, Typed
<1>4. CASE Time /\ UNCHANGED bridgeVars
  BY <1>4, TimeKeeps, InvImplies
<1>5. UNCHANGED outbox => RowsStay
  BY DEF RowsStay
<1>6. ASSUME NEW w \in Workers,
             \/ Take(w) \/ Reserve(w) \/ Resolve(w) \/ Commit(w) \/ Crash(w)
             \/ \E x \in Workflows : Call(w, x) \/ CallRefused(w, x)
             \/ \E x \in Workflows, landed \in BOOLEAN : CallFails(w, x, landed)
             \/ \E applied \in BOOLEAN : CommitFails(w, applied)
             \/ Rest(w)
      PROVE  UNCHANGED outbox
  BY <1>6 DEF Take, TakeNext, Reserve, Resolve, Commit, CommitFails, Crash, Die, Call,
              CallRefused, CallFails, Rest
<1>7. CASE \/ \E x \in Cycles : OpenCycle(x) \/ StartCycle(x)
           \/ \E x \in Workflows : RunSettles(x) \/ \E how \in {"completed", "failed"} : RunEnds(x, how)
           \/ UNCHANGED vars
  BY <1>5, <1>7 DEF OpenCycle, StartCycle, RunSettles, RunEnds, vars
<1> QED
  BY <1>1, <1>2, <1>3, <1>4, <1>5, <1>6, <1>7 DEF Next, Proceed

\* What has been carried out is remembered by its receipt, or by the handler that
\* goes on to its commit.
CallsAreKept ==
  \A v \in Workers : Called(v) =>
    \/ Current(v) \in receipts'
    \/ Called(v)' /\ Current(v)' = Current(v)

LEMMA SetsGrow ==
  ASSUME RowsStay, receipts \subseteq receipts', unrecorded \subseteq unrecorded', NEW x
  PROVE  /\ Orders(x) \subseteq Orders(x)' /\ Repeats(x) \subseteq Repeats(x)'
         /\ CallsAreKept => Spent(x) \subseteq Spent(x)'
<1>1. Orders(x) \subseteq Orders(x)'
  BY DEF Orders, RowsStay
<1>2. Repeats(x) \subseteq Repeats(x)'
  BY <1>1 DEF Repeats
<1>3. ASSUME CallsAreKept, NEW e \in Spent(x) PROVE e \in Spent(x)'
  <2>1. e \in Orders(x)' /\ (e \in receipts \/ \E w \in Workers : Called(w) /\ Current(w) = e)
    BY <1>1 DEF Spent
  <2>2. e \in receipts' \/ \E w \in Workers : Called(w)' /\ Current(w)' = e
    BY <1>3, <2>1 DEF CallsAreKept
  <2> QED
    BY <2>1, <2>2 DEF Spent
<1> QED
  BY <1>1, <1>2, <1>3

\* A step of a process w that has called nothing, or is at its commit.
LEMMA CallsOfOthers ==
  ASSUME Inv, NEW w \in Workers,
         \A v \in Workers : v # w => worker'[v] = worker[v] /\ left'[v] = left[v],
         Called(w) => Current(w) \in receipts'
  PROVE  CallsAreKept
<1> SUFFICES ASSUME NEW v \in Workers, Called(v)
             PROVE  Current(v) \in receipts' \/ (Called(v)' /\ Current(v)' = Current(v))
  BY DEF CallsAreKept
<1>1. CASE v = w
  BY <1>1
<1>2. CASE v # w
  BY <1>2 DEF Called, At, Current
<1> QED
  BY <1>1, <1>2

\* Handlers stay first: a receipt is committed by the handler that leaves.
LEMMA FirstKept ==
  ASSUME GenerationInv, NEW w \in Workers,
         \A v \in Workers : v # w => worker'[v] = worker[v] /\ left'[v] = left[v],
         \/ receipts' = receipts
         \/ Handling(w) /\ receipts' = receipts \cup {Current(w)},
         Handling(w)' => Current(w)' \notin receipts',
         At(w, "call")' /\ Kind[Current(w)'] # "wake" => left'[w] \subseteq {Target[Current(w)']}
  PROVE  HandlersAreFirst'
<1>1. ASSUME NEW v \in Workers, Handling(v)' PROVE Current(v)' \notin receipts'
  <2>1. CASE v = w
    BY <1>1, <2>1
  <2>2. CASE v # w
    <3>1. Handling(v) /\ Current(v)' = Current(v)
      BY <1>1, <2>2 DEF Handling, At, Current
    <3>2. Current(v) \notin receipts
      BY <3>1 DEF GenerationInv, HandlersAreFirst
    <3>3. Handling(w) => Current(w) # Current(v)
      BY <2>2, <3>1 DEF GenerationInv, HandlersHoldKeys
    <3> QED
      BY <3>1, <3>2, <3>3
  <2> QED
    BY <2>1, <2>2
<1>2. ASSUME NEW v \in Workers, At(v, "call")', Kind[Current(v)'] # "wake"
      PROVE  left'[v] \subseteq {Target[Current(v)']}
  <2>1. CASE v = w
    BY <1>2, <2>1
  <2>2. CASE v # w
    <3>1. At(v, "call") /\ Current(v)' = Current(v) /\ left'[v] = left[v]
      BY <1>2, <2>2 DEF At, Current
    <3> QED
      BY <1>2, <3>1 DEF GenerationInv, HandlersAreFirst
  <2> QED
    BY <2>1, <2>2
<1> QED
  BY <1>1, <1>2 DEF HandlersAreFirst

\* A step that leaves the handlers and the receipts alone.
LEMMA FirstUntouched ==
  ASSUME GenerationInv, UNCHANGED <<worker, left, receipts>>
  PROVE  HandlersAreFirst' /\ CallsAreKept
  BY DEF GenerationInv, HandlersAreFirst, CallsAreKept, Called, Handling, At, Current

\* What each step of a process does to the handlers.
LEMMA LoopIsFirst ==
  ASSUME GenerationInv, NEW w \in Workers, UNCHANGED bridgeVars,
         PollOutbox(w) \/ Take(w) \/ Published(w) \/ Retry(w) \/ Rest(w)
  PROVE  HandlersAreFirst' /\ CallsAreKept
<1>0. Inv /\ UNCHANGED <<left, receipts>>
  BY DEF GenerationInv, bridgeVars
<1>1. ASSUME NEW p, worker' = [worker EXCEPT ![w] = p], p.pc \in {"next", "reserve", "idle"},
             ~ At(w, "call")
      PROVE  HandlersAreFirst' /\ CallsAreKept
  <2>1. worker'[w] = p /\ \A v \in Workers : v # w => worker'[v] = worker[v]
    BY <1>0, <1>1, ProcessIs
  <2>2. ~ Handling(w)' /\ ~ At(w, "call")' /\ ~ Called(w)
    BY <1>1, <2>1 DEF Handling, Called, At
  <2> QED
    BY <1>0, <2>1, <2>2, FirstKept, CallsOfOthers
<1>2. CASE PollOutbox(w)
  <2>1. PICK batch \in SUBSET Events :
          worker' = [worker EXCEPT ![w] = Holding({<<e, outbox'[e].attempts>> : e \in batch})]
    BY <1>2 DEF PollOutbox, Poll
  <2>2. Holding({<<e, outbox'[e].attempts>> : e \in batch}).pc = "next" /\ ~ At(w, "call")
    BY <1>2 DEF Holding, PollOutbox, Poll, At
  <2> QED
    BY <1>1, <2>1, <2>2
<1>3. CASE Take(w)
  <2>1. PICK c \in worker[w].todo :
          worker' = [worker EXCEPT ![w] =
            [pc |-> "reserve", todo |-> worker[w].todo \ {c}, event |-> c[1], attempt |-> c[2]]]
    BY <1>3 DEF Take, TakeNext
  <2>2. ~ At(w, "call")
    BY <1>3 DEF Take, TakeNext, At
  <2> QED
    BY <1>1, <2>1, <2>2
<1>4. CASE Published(w) \/ Retry(w)
  <2>1. worker' = [worker EXCEPT ![w] = Holding(worker[w].todo)] /\ ~ At(w, "call")
    BY <1>4 DEF Published, Retry, Finish, At
  <2>2. Holding(worker[w].todo).pc = "next"
    BY DEF Holding
  <2> QED
    BY <1>1, <2>1, <2>2
<1>5. CASE Rest(w)
  <2>1. worker' = [worker EXCEPT ![w] = Fresh] /\ Fresh.pc = "idle" /\ ~ At(w, "call")
    BY <1>5 DEF Rest, Fresh, At
  <2> QED
    BY <1>1, <2>1
<1> QED
  BY <1>2, <1>3, <1>4, <1>5

LEMMA TransactionIsFirst ==
  ASSUME GenerationInv, NEW w \in Workers, Reserve(w) \/ Resolve(w)
  PROVE  HandlersAreFirst' /\ CallsAreKept
<1>0. Inv /\ UNCHANGED receipts /\ ~ Called(w)
  BY DEF GenerationInv, Reserve, Resolve, Called, At
<1>1. PICK label : Goto(w, label)
  BY DEF Reserve, Resolve
<1>2. /\ worker'[w].pc = label /\ Current(w)' = Current(w)
      /\ \A v \in Workers : v # w => worker'[v] = worker[v]
  BY <1>0, <1>1, GotoIs DEF Current
<1>3. \A v \in Workers : v # w => left'[v] = left[v]
  BY <1>0 DEF Reserve, Resolve, Inv, StateTyped
<1>4. CallsAreKept
  BY <1>0, <1>2, <1>3, CallsOfOthers
<1>5. CASE Reserve(w)
  <2>1. Handling(w)' => Current(w)' \notin receipts'
    <3>1. CASE Current(w) \in receipts
      <4>1. Goto(w, "publish")
        BY <1>5, <3>1 DEF Reserve
      <4>2. worker'[w].pc = "publish"
        BY <1>0, <4>1, GotoIs
      <4> QED
        BY <4>2 DEF Handling, At
    <3> QED
      BY <1>0, <1>2, <3>1
  <2>2. ~ At(w, "call")'
    <3>1. Goto(w, "publish") \/ Goto(w, "resolve")
      BY <1>5 DEF Reserve
    <3>2. worker'[w].pc = "publish" \/ worker'[w].pc = "resolve"
      BY <1>0, <3>1, GotoIs
    <3> QED
      BY <3>2 DEF At
  <2> QED
    BY <1>0, <1>2, <1>3, <1>4, <2>1, <2>2, FirstKept
<1>6. CASE Resolve(w)
  <2>1. Current(w)' \notin receipts'
    BY <1>0, <1>2, <1>6 DEF Resolve, GenerationInv, HandlersAreFirst, Handling
  <2>2. At(w, "call")' /\ Kind[Current(w)'] # "wake" => left'[w] \subseteq {Target[Current(w)']}
    <3>1. CASE Stale(Current(w))
      <4>1. Goto(w, "retry")
        BY <1>6, <3>1 DEF Resolve
      <4>2. worker'[w].pc = "retry"
        BY <1>0, <4>1, GotoIs
      <4> QED
        BY <4>2 DEF At
    <3>2. CASE ~ Stale(Current(w))
      <4>1. Kind[Current(w)] # "wake" => left' = [left EXCEPT ![w] = {Target[Current(w)]}]
        BY <1>6, <3>2 DEF Resolve
      <4> QED
        BY <1>0, <1>2, <4>1 DEF Inv, StateTyped
    <3> QED
      BY <3>1, <3>2
  <2> QED
    BY <1>0, <1>2, <1>3, <1>4, <2>1, <2>2, FirstKept
<1> QED
  BY <1>5, <1>6

\* A handler leaves: w calls no more, whatever became of its receipt.
LEMMA LeavingIsFirst ==
  ASSUME GenerationInv, NEW w \in Workers,
         \/ Goto(w, "publish") \/ Goto(w, "retry") \/ worker' = [worker EXCEPT ![w] = Fresh],
         HandledNothing(w),
         \/ receipts' = receipts
         \/ Handling(w) /\ receipts' = receipts \cup {Current(w)}
  PROVE  /\ HandlersAreFirst'
         /\ (Called(w) => Current(w) \in receipts') => CallsAreKept
<1>0. Inv
  BY DEF GenerationInv
<1>1. worker'[w].pc \in {"publish", "retry", "idle"} /\ \A v \in Workers : v # w => worker'[v] = worker[v]
  <2>1. CASE Goto(w, "publish") \/ Goto(w, "retry")
    BY <1>0, <2>1, GotoIs
  <2>2. CASE worker' = [worker EXCEPT ![w] = Fresh]
    <3>1. worker'[w] = Fresh /\ \A v \in Workers : v # w => worker'[v] = worker[v]
      BY <1>0, <2>2, ProcessIs
    <3> QED
      BY <3>1 DEF Fresh
  <2> QED
    BY <2>1, <2>2
<1>2. \A v \in Workers : v # w => left'[v] = left[v]
  BY <1>0 DEF HandledNothing, Inv, StateTyped
<1>3. ~ Handling(w)' /\ ~ At(w, "call")'
  BY <1>1 DEF Handling, At
<1> QED
  BY <1>0, <1>1, <1>2, <1>3, FirstKept, CallsOfOthers

\* A call that is made, or may have been: x is begun anew only for an order.
LEMMA BegunForOrder ==
  ASSUME GenerationInv, NEW w \in Workers, NEW x \in Workflows, NEW y \in Workflows,
         At(w, "call"), y \in left[w], Land(Current(w), y), UNCHANGED completions
  PROVE  \/ completions'[x] + Pending(x)' = completions[x] + Pending(x)
         \/ /\ completions'[x] + Pending(x)' = completions[x] + Pending(x) + 1
            /\ Current(w) \in Orders(x) \ Spent(x) /\ left[w] = {y}
<1> DEFINE e == Current(w)
<1>0. /\ e \in Events /\ outbox[e].state # "NONE"
      /\ workflow \in [Workflows -> {"none", "running", "completed", "failed"}]
      /\ completions \in [Workflows -> Nat]
  BY AtEvent DEF GenerationInv, Inv, StateTyped, Counts, CountsTyped, At
<1>1. CASE workflow[x] = "completed" /\ workflow'[x] # "completed"
  <2>1. x = y /\ Starts(Kind[e], workflow[x])
    BY <1>0, <1>1 DEF Land
  <2>2. Kind[e] \in {"start", "redo", "restart"}
    BY <1>1, <2>1 DEF Starts
  <2>3. left[w] = {Target[e]} /\ x = Target[e]
    BY <2>1, <2>2 DEF GenerationInv, HandlersAreFirst
  <2>4. e \in Orders(x)
    BY <1>0, <2>2, <2>3 DEF Orders
  <2>5. e \notin receipts
    BY DEF GenerationInv, HandlersAreFirst, Handling
  <2>6. ASSUME NEW v \in Workers, Called(v), Current(v) = e PROVE FALSE
    <3>1. v = w
      BY <2>6 DEF GenerationInv, HandlersHoldKeys, Handling, Called
    <3> QED
      BY <2>6, <3>1 DEF Called
  <2>7. e \notin Spent(x)
    BY <2>5, <2>6 DEF Spent
  <2>8. completions'[x] + Pending(x)' = completions[x] + Pending(x) + 1
    BY <1>0, <1>1 DEF Pending
  <2> QED
    BY <2>1, <2>3, <2>4, <2>7, <2>8
<1>2. CASE workflow[x] = "completed" /\ workflow'[x] = "completed"
  BY <1>2 DEF Pending
<1>3. CASE workflow[x] # "completed"
  <2>1. workflow'[x] # "completed"
    BY <1>0, <1>3 DEF Land
  <2> QED
    BY <1>3, <2>1 DEF Pending
<1> QED
  BY <1>1, <1>2, <1>3

LEMMA QuietOwed ==
  ASSUME GenerationInv, CountsTyped', NEW x \in Workflows, IsOwed(x), RowsStay, CallsAreKept,
         receipts \subseteq receipts', UNCHANGED <<completions, workflow, unrecorded>>
  PROVE  IsOwed(x)'
<1>1. Repeats(x) \subseteq Repeats(x)' /\ Spent(x) \subseteq Spent(x)'
  BY SetsGrow
<1>2. completions'[x] + Pending(x)' <= completions[x] + Pending(x)
  BY DEF Pending, GenerationInv, Counts, CountsTyped
<1> QED
  BY <1>1, <1>2, OwedFollows DEF GenerationInv, Counts

LEMMA CallOwed ==
  ASSUME GenerationInv, CountsTyped', RowsStay, NEW w \in Workers, NEW y \in Workflows, Call(w, y)
  PROVE  HandlersAreFirst' /\ \A x \in Workflows : IsOwed(x) => IsOwed(x)'
<1>1. /\ At(w, "call") /\ y \in left[w] /\ Land(Current(w), y)
      /\ left' = [left EXCEPT ![w] = left[w] \ {y}]
      /\ UNCHANGED <<worker, receipts, completions, unrecorded>>
  BY DEF Call
<1>2. Inv /\ ~ Called(w)
  BY <1>1 DEF GenerationInv, Called
<1>3. left'[w] = left[w] \ {y} /\ \A v \in Workers : v # w => left'[v] = left[v]
  BY <1>1, <1>2 DEF Inv, StateTyped
<1>4. CallsAreKept
  BY <1>1, <1>2, <1>3, CallsOfOthers
<1>5. HandlersAreFirst'
  BY <1>1, <1>3, FirstKept DEF GenerationInv, HandlersAreFirst, Handling, At, Current
<1>6. ASSUME NEW x \in Workflows, IsOwed(x) PROVE IsOwed(x)'
  <2>1. /\ Orders(x) \subseteq Orders(x)' /\ Repeats(x) \subseteq Repeats(x)'
        /\ Spent(x) \subseteq Spent(x)'
    BY <1>1, <1>4, SetsGrow
  <2>2. /\ completions[x] + Pending(x) \in Nat
        /\ CountsTyped
    BY DEF GenerationInv, Counts, CountsTyped, Pending
  <2>3. CASE completions'[x] + Pending(x)' = completions[x] + Pending(x)
    BY <1>6, <2>1, <2>2, <2>3, OwedFollows
  <2>4. CASE /\ completions'[x] + Pending(x)' = completions[x] + Pending(x) + 1
             /\ Current(w) \in Orders(x) \ Spent(x) /\ left[w] = {y}
    <3>1. Called(w)' /\ Current(w)' = Current(w)
      BY <1>1, <1>3, <2>4 DEF Called, At, Current
    <3>2. Current(w) \in Spent(x)' \ Spent(x)
      BY <2>1, <2>4, <3>1 DEF Spent
    <3> QED
      BY <1>6, <2>1, <2>2, <2>4, <3>2, OwedFollows
  <2> QED
    BY <1>1, <2>3, <2>4, BegunForOrder
<1> QED
  BY <1>5, <1>6

\* A fault's number is new.
LEMMA RepeatIsNew ==
  ASSUME Counts, RowsStay, NEW x, NEW e \in Orders(x), unrecorded' = unrecorded \cup {<<e, faults>>}
  PROVE  <<e, faults>> \in Repeats(x)' \ Repeats(x)
<1>1. <<e, faults>> \notin unrecorded
  BY DEF Counts, CountsTyped
<1>2. e \in Orders(x)'
  BY DEF Orders, RowsStay
<1> QED
  BY <1>1, <1>2 DEF Repeats

LEMMA CallFailsOwed ==
  ASSUME GenerationInv, CountsTyped', RowsStay, NEW w \in Workers, NEW y \in Workflows,
         NEW landed \in BOOLEAN, CallFails(w, y, landed)
  PROVE  HandlersAreFirst' /\ \A x \in Workflows : IsOwed(x) => IsOwed(x)'
<1>1. /\ At(w, "call") /\ y \in left[w] /\ Goto(w, "retry") /\ HandledNothing(w)
      /\ UNCHANGED <<receipts, completions>>
      /\ \/ Land(Current(w), y) /\ unrecorded' = unrecorded \cup {<<Current(w), faults>>}
         \/ UNCHANGED <<workflow, unrecorded>>
  BY DEF CallFails
<1>2. Inv /\ Counts /\ ~ Called(w)
  BY <1>1 DEF GenerationInv, Called
<1>3. HandlersAreFirst' /\ CallsAreKept
  BY <1>1, <1>2, LeavingIsFirst
<1>4. ASSUME NEW x \in Workflows, IsOwed(x) PROVE IsOwed(x)'
  <2>1. CASE UNCHANGED <<workflow, unrecorded>>
    BY <1>1, <1>3, <1>4, <2>1, QuietOwed
  <2>2. CASE Land(Current(w), y) /\ unrecorded' = unrecorded \cup {<<Current(w), faults>>}
    <3>1. /\ Orders(x) \subseteq Orders(x)' /\ Repeats(x) \subseteq Repeats(x)'
          /\ Spent(x) \subseteq Spent(x)'
      BY <1>1, <1>3, <2>2, SetsGrow
    <3>2. completions[x] + Pending(x) \in Nat /\ CountsTyped
      BY DEF GenerationInv, Counts, CountsTyped, Pending
    <3>3. CASE completions'[x] + Pending(x)' = completions[x] + Pending(x)
      BY <1>4, <3>1, <3>2, <3>3, OwedFollows
    <3>4. CASE /\ completions'[x] + Pending(x)' = completions[x] + Pending(x) + 1
               /\ Current(w) \in Orders(x)
      <4>1. <<Current(w), faults>> \in Repeats(x)' \ Repeats(x)
        BY <1>2, <2>2, <3>4, RepeatIsNew
      <4> QED
        BY <1>4, <3>1, <3>2, <3>4, <4>1, OwedFollows
    <3> QED
      BY <1>1, <2>2, <3>3, <3>4, BegunForOrder
  <2> QED
    BY <1>1, <2>1, <2>2
<1> QED
  BY <1>3, <1>4

\* A handler that had called everything is interrupted.
LEMMA InterruptionOwed ==
  ASSUME GenerationInv, CountsTyped', RowsStay, NEW w \in Workers, Called(w),
         Goto(w, "retry") \/ worker' = [worker EXCEPT ![w] = Fresh],
         HandledNothing(w), UNCHANGED <<receipts, completions, workflow>>,
         unrecorded' = unrecorded \cup {<<Current(w), faults>>}
  PROVE  HandlersAreFirst' /\ \A x \in Workflows : IsOwed(x) => IsOwed(x)'
<1>0. Inv /\ Counts
  BY DEF GenerationInv
<1>1. HandlersAreFirst'
  BY LeavingIsFirst
<1>2. ASSUME NEW x \in Workflows, IsOwed(x) PROVE IsOwed(x)'
  <2>1. Orders(x) \subseteq Orders(x)' /\ Repeats(x) \subseteq Repeats(x)'
    BY SetsGrow
  <2>2. /\ completions[x] + Pending(x) \in Nat /\ CountsTyped
        /\ completions'[x] + Pending(x)' <= completions[x] + Pending(x)
    BY DEF GenerationInv, Counts, CountsTyped, Pending
  <2>3. \A v \in Workers : v # w => worker'[v] = worker[v] /\ left'[v] = left[v]
    <3>1. \A v \in Workers : v # w => worker'[v] = worker[v]
      BY <1>0, GotoIs, ProcessIs
    <3> QED
      BY <1>0, <3>1 DEF HandledNothing, Inv, StateTyped
  <2>4. Spent(x) \subseteq Spent(x)' \cup {Current(w)}
    <3> SUFFICES ASSUME NEW d \in Spent(x), d # Current(w) PROVE d \in Spent(x)'
      OBVIOUS
    <3>1. d \in Orders(x)' /\ (d \in receipts \/ \E v \in Workers : Called(v) /\ Current(v) = d)
      BY <2>1 DEF Spent
    <3>2. \A v \in Workers : Called(v) /\ Current(v) = d => Called(v)' /\ Current(v)' = d
      BY <2>3 DEF Called, At, Current
    <3> QED
      BY <3>1, <3>2 DEF Spent
  <2>5. CASE Current(w) \in Orders(x)
    <3>1. <<Current(w), faults>> \in Repeats(x)' \ Repeats(x)
      BY <1>0, <2>5, RepeatIsNew
    <3> QED
      BY <1>2, <2>1, <2>2, <2>4, <3>1, OwedFollows
  <2>6. CASE Current(w) \notin Orders(x)
    <3>1. Spent(x) \subseteq Spent(x)'
      BY <2>4, <2>6 DEF Spent
    <3> QED
      BY <1>2, <2>1, <2>2, <3>1, OwedFollows
  <2> QED
    BY <2>5, <2>6
<1> QED
  BY <1>1, <1>2

LEMMA RunOwed ==
  ASSUME GenerationInv, CountsTyped', RowsStay,
         \/ \E e \in Events : CommitFact(e)
         \/ \E y \in Cycles : OpenCycle(y) \/ StartCycle(y)
         \/ \E y \in Workflows : RunSettles(y) \/ \E how \in {"completed", "failed"} : RunEnds(y, how)
         \/ Time /\ UNCHANGED bridgeVars
         \/ UNCHANGED vars
  PROVE  HandlersAreFirst' /\ \A x \in Workflows : IsOwed(x) => IsOwed(x)'
<1>1. UNCHANGED <<worker, left, receipts, unrecorded>>
  BY DEF CommitFact, OpenCycle, StartCycle, RunSettles, RunEnds, Time, bridgeVars, vars
<1>2. HandlersAreFirst' /\ CallsAreKept
  BY <1>1, FirstUntouched
<1>3. /\ workflow \in [Workflows -> {"none", "running", "completed", "failed"}]
      /\ completions \in [Workflows -> Nat] /\ CountsTyped
  BY DEF GenerationInv, Inv, StateTyped, Counts, CountsTyped
<1>4. ASSUME NEW x \in Workflows PROVE completions'[x] + Pending(x)' <= completions[x] + Pending(x)
  <2>1. CASE UNCHANGED <<workflow, completions>>
    BY <1>3, <2>1 DEF Pending
  <2>2. ASSUME NEW y \in Cycles, StartCycle(y)
        PROVE  completions'[x] + Pending(x)' <= completions[x] + Pending(x)
    BY <1>3, <2>2, BridgeAssumption DEF StartCycle, Pending
  <2>3. ASSUME NEW y \in Workflows, NEW how \in {"completed", "failed"}, RunEnds(y, how)
        PROVE  completions'[x] + Pending(x)' <= completions[x] + Pending(x)
    BY <1>3, <2>3 DEF RunEnds, Pending
  <2> QED
    BY <2>1, <2>2, <2>3 DEF CommitFact, OpenCycle, RunSettles, bridgeVars, temporal, vars
<1>5. ASSUME NEW x \in Workflows, IsOwed(x) PROVE IsOwed(x)'
  <2>1. Repeats(x) \subseteq Repeats(x)' /\ Spent(x) \subseteq Spent(x)'
    BY <1>1, <1>2, SetsGrow
  <2> QED
    BY <1>3, <1>4, <1>5, <2>1, OwedFollows
<1> QED
  BY <1>2, <1>5

Owed == HandlersAreFirst /\ \A x \in Workflows : IsOwed(x)

LEMMA NextOwed ==
  Inv /\ Counts /\ Counts' /\ HandlersHoldKeys /\ Owed /\ [Next]_vars => Owed'
<1> SUFFICES ASSUME GenerationInv, CountsTyped', RowsStay, \A x \in Workflows : IsOwed(x), [Next]_vars
             PROVE  HandlersAreFirst' /\ \A x \in Workflows : IsOwed(x)'
  BY NextRowsStay DEF GenerationInv, Owed, Counts
<1>1. ASSUME HandlersAreFirst' /\ CallsAreKept, receipts \subseteq receipts',
             UNCHANGED <<completions, workflow, unrecorded>>
      PROVE  HandlersAreFirst' /\ \A x \in Workflows : IsOwed(x)'
  BY <1>1, QuietOwed
<1>2. ASSUME NEW w \in Workers,
             \/ PollOutbox(w) \/ Take(w) \/ Published(w) \/ Retry(w)
             \/ Rest(w) /\ UNCHANGED bridgeVars
      PROVE  HandlersAreFirst' /\ \A x \in Workflows : IsOwed(x)'
  <2>1. UNCHANGED bridgeVars /\ UNCHANGED <<receipts, completions, workflow, unrecorded>>
    BY <1>2 DEF PollOutbox, Take, Published, Retry, bridgeVars, temporal
  <2> QED
    BY <1>1, <1>2, <2>1, LoopIsFirst
<1>3. ASSUME NEW w \in Workers, Reserve(w) \/ Resolve(w)
      PROVE  HandlersAreFirst' /\ \A x \in Workflows : IsOwed(x)'
  <2>1. UNCHANGED <<receipts, completions, workflow, unrecorded>>
    BY <1>3 DEF Reserve, Resolve, temporal
  <2> QED
    BY <1>1, <1>3, <2>1, TransactionIsFirst
<1>4. ASSUME NEW w \in Workers,
             \/ Commit(w) \/ CommitFails(w, TRUE)
             \/ \E x \in Workflows : CallRefused(w, x)
             \/ Crash(w) /\ ~ Called(w)
      PROVE  HandlersAreFirst' /\ \A x \in Workflows : IsOwed(x)'
  <2>1. UNCHANGED <<completions, workflow, unrecorded>> /\ receipts \subseteq receipts'
    BY <1>4 DEF Commit, CommitFails, CallRefused, Crash, temporal
  <2>2. Called(w) => Current(w) \in receipts'
    BY <1>4 DEF Commit, CommitFails, CallRefused, Called
  <2>3. \/ receipts' = receipts
        \/ Handling(w) /\ receipts' = receipts \cup {Current(w)}
    BY <1>4 DEF Commit, CommitFails, CallRefused, Crash, Handling
  <2>4. /\ HandledNothing(w)
        /\ Goto(w, "publish") \/ Goto(w, "retry") \/ worker' = [worker EXCEPT ![w] = Fresh]
    BY <1>4 DEF Commit, CommitFails, CallRefused, Crash, Die
  <2> QED
    BY <1>1, <2>1, <2>2, <2>3, <2>4, LeavingIsFirst
<1>5. ASSUME NEW w \in Workers, CommitFails(w, FALSE) \/ (Crash(w) /\ Called(w))
      PROVE  HandlersAreFirst' /\ \A x \in Workflows : IsOwed(x)'
  <2>1. /\ Called(w) /\ HandledNothing(w) /\ UNCHANGED <<receipts, completions, workflow>>
        /\ Goto(w, "retry") \/ worker' = [worker EXCEPT ![w] = Fresh]
        /\ unrecorded' = unrecorded \cup {<<Current(w), faults>>}
    BY <1>5 DEF CommitFails, Crash, Die, Called, temporal
  <2> QED
    BY <2>1, InterruptionOwed
<1>6. ASSUME NEW w \in Workers, NEW y \in Workflows,
             Call(w, y) \/ \E landed \in BOOLEAN : CallFails(w, y, landed)
      PROVE  HandlersAreFirst' /\ \A x \in Workflows : IsOwed(x)'
  BY <1>6, CallOwed, CallFailsOwed
<1>7. CASE \/ \E e \in Events : CommitFact(e)
           \/ \E y \in Cycles : OpenCycle(y) \/ StartCycle(y)
           \/ \E y \in Workflows : RunSettles(y) \/ \E how \in {"completed", "failed"} : RunEnds(y, how)
           \/ Time /\ UNCHANGED bridgeVars
           \/ UNCHANGED vars
  BY <1>7, RunOwed
<1> QED
  BY <1>2, <1>3, <1>4, <1>5, <1>6, <1>7 DEF Next, Proceed

\* However often the approval of a plan, a cap increase or an order are delivered, by
\* however many processes, the plan's completed runs are one for the approval, one for
\* each order, and one for each order that called and lost its receipt (ADR-055).
THEOREM GenerationsStayOrdered == Spec => []GenerationsAreOrdered
<1>1. Init => Owed
  <2> SUFFICES ASSUME Init PROVE Owed
    OBVIOUS
  <2>1. HandlersAreFirst
    BY DEF Init, InitDelivery, Fresh, HandlersAreFirst, Handling, At
  <2>2. ASSUME NEW x \in Workflows PROVE IsOwed(x)
    <3>1. completions[x] + Pending(x) = 1
      BY DEF Init, Pending
    <3>2. CountsTyped
      BY DEF Init, CountsTyped
    <3>3. SetsFinite
      BY <3>2, SetsAreFinite
    <3>4. Cardinality(Spent(x)) \in Nat /\ Cardinality(Repeats(x)) \in Nat
      BY <3>3, FS_CardinalityType DEF SetsFinite
    <3> QED
      BY <3>1, <3>4 DEF IsOwed
  <2> QED
    BY <2>1, <2>2 DEF Owed
<1>2. Spec => []Owed
  BY <1>1, InvHolds, CountsHold, HandlersKeepKeys, NextOwed, PTL DEF Spec
<1>3. CountsTyped /\ Owed => GenerationsAreOrdered
  <2> SUFFICES ASSUME CountsTyped, Owed, NEW x \in Workflows
               PROVE  completions[x] <= 1 + Cardinality(Orders(x)) + Cardinality(Repeats(x))
    BY DEF GenerationsAreOrdered
  <2>1. /\ IsFiniteSet(Orders(x)) /\ IsFiniteSet(Spent(x)) /\ IsFiniteSet(Repeats(x))
        /\ Spent(x) \subseteq Orders(x)
    BY SetsAreFinite DEF SetsFinite
  <2>2. Cardinality(Spent(x)) <= Cardinality(Orders(x))
    BY <2>1, FS_Subset
  <2>3. /\ Cardinality(Spent(x)) \in Nat /\ Cardinality(Orders(x)) \in Nat
        /\ Cardinality(Repeats(x)) \in Nat
    BY <2>1, FS_CardinalityType
  <2>4. completions[x] + Pending(x) <= 1 + Cardinality(Spent(x)) + Cardinality(Repeats(x))
    BY DEF Owed, IsOwed
  <2>5. completions[x] \in Nat /\ Pending(x) \in Nat
    BY DEF CountsTyped, Pending
  <2> QED
    BY <2>2, <2>3, <2>4, <2>5
<1> QED
  BY <1>2, <1>3, CountsHold, PTL DEF Counts

=============================================================================
