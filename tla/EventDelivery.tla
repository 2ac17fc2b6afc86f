---------------------------- MODULE EventDelivery ----------------------------
(***************************************************************************)
(* The transactional outbox and the worker loop around it: what a program  *)
(* that delivers events does to event_delivery.outbox_events               *)
(* (infrastructure/database/event_delivery.py).  EventBridge and           *)
(* OutboxPublisher are the two programs: they say what happens between     *)
(* taking a claimed event and finishing it.                                *)
(***************************************************************************)
EXTENDS Integers, FiniteSets

CONSTANTS
  Events,      \* event ids
  Workers,     \* delivery processes, each with a worker_id of its own
  BatchSize,   \* most rows one claim takes
  AttemptCap,  \* bound: attempt_count is not counted further
  None

ASSUME WorkerAssumption == None \notin Workers \cup Events
ASSUME BatchAssumption == BatchSize \in Nat \ {0} /\ AttemptCap \in Nat \ {0}

VARIABLES
  outbox,   \* the rows
  worker    \* what each process holds: its program counter and its claimed events

-----------------------------------------------------------------------------
\* A row.  Times are kept as what the code compares them for:
\*   due      next_attempt_at has passed
\*   expired  lease_expires_at has passed
States == {"NONE", "PENDING", "PUBLISHING", "PUBLISHED", "FAILED_TERMINAL"}
Row == [state : States, due : BOOLEAN, expired : BOOLEAN,
        owner : Workers \cup {None}, attempts : 0..AttemptCap]
NoRow == [state |-> "NONE", due |-> FALSE, expired |-> FALSE, owner |-> None, attempts |-> 0]
NewRow == [state |-> "PENDING", due |-> TRUE, expired |-> FALSE, owner |-> None, attempts |-> 0]

\* A process: the claimed events it has not come to, the one it is at, and the
\* attempt_count that one was claimed with.
Fresh == [pc |-> "idle", todo |-> {}, event |-> None, attempt |-> 0]
Holding(claims) == [pc |-> "next", todo |-> claims, event |-> None, attempt |-> 0]
Claims == Events \X (0..AttemptCap)

At(w, label) == worker[w].pc = label
Current(w) == worker[w].event
Goto(w, label) == worker' = [worker EXCEPT ![w] = [@ EXCEPT !.pc = label]]

InitDelivery ==
  /\ outbox = [e \in Events |-> NoRow]
  /\ worker = [w \in Workers |-> Fresh]

-----------------------------------------------------------------------------
(* The rows.                                                               *)

\* PostgresOutboxWriter.append, in the transaction of the fact it announces.
\* append_idempotent of a known event_id changes nothing.
AppendEvent(e) ==
  /\ outbox[e] = NoRow
  /\ outbox' = [outbox EXCEPT ![e] = NewRow]

\* attempt_count is compared with max_attempts, below the cap, and, beside
\* lease_owner, with the count of the claim: a process never holds two claims
\* of one event, so the owner alone tells them apart.
NextAttempt(n) == IF n < AttemptCap THEN n + 1 ELSE n

\* Mutant: what a dead process has left leased is never claimed again.
ReadyWhenPending(r) == r.state = "PENDING" /\ r.due

Ready(r) == \/ r.state = "PENDING" /\ r.due
            \/ r.state = "PUBLISHING" /\ r.expired

\* claim_ready and claim_ready_types: FOR UPDATE SKIP LOCKED takes ready rows
\* nobody is updating, and the same transaction leases them.
Claim(w, batch) ==
  /\ batch # {} /\ Cardinality(batch) <= BatchSize
  /\ \A e \in batch : Ready(outbox[e])
  /\ outbox' = [e \in Events |->
       IF e \in batch
         THEN [outbox[e] EXCEPT !.state = "PUBLISHING", !.owner = w, !.expired = FALSE,
                                !.attempts = NextAttempt(@)]
         ELSE outbox[e]]

\* Mutant: a finisher checks that the event is being published, not by whom.
HeldByAnyone(w) == outbox[Current(w)].state = "PUBLISHING"

\* The WHERE clause of _finish.
Held(w) ==
  /\ outbox[Current(w)].state = "PUBLISHING"
  /\ outbox[Current(w)].owner = w
  /\ outbox[Current(w)].attempts = worker[w].attempt

\* Mutant: the lease is not taken back.
FinishKeepsOwner(w, state) ==
  outbox' = IF Held(w)
              THEN [outbox EXCEPT ![Current(w)] =
                     [@ EXCEPT !.state = state, !.expired = FALSE, !.due = (state # "PENDING")]]
              ELSE outbox

\* mark_published, mark_retryable and mark_terminal; no row matches for one
\* whose claim is no longer the current one.
FinishAs(w, state) ==
  outbox' = IF Held(w)
              THEN [outbox EXCEPT ![Current(w)] =
                     [@ EXCEPT !.state = state, !.owner = None, !.expired = FALSE,
                               !.due = (state # "PENDING")]]
              ELSE outbox

-----------------------------------------------------------------------------
(* The loop of a process: poll, then one claimed event after the other.    *)

Poll(w) ==
  /\ At(w, "idle")
  /\ \E batch \in SUBSET Events :
       /\ Claim(w, batch)
       /\ worker' = [worker EXCEPT ![w] = Holding({<<e, outbox'[e].attempts>> : e \in batch})]

\* RETURNING promises no order.
TakeNext(w, label) ==
  /\ At(w, "next")
  /\ \E c \in worker[w].todo :
       worker' = [worker EXCEPT ![w] =
         [pc |-> label, todo |-> @.todo \ {c}, event |-> c[1], attempt |-> c[2]]]
  /\ UNCHANGED outbox

Finish(w, label, state) ==
  /\ At(w, label)
  /\ FinishAs(w, state)
  /\ worker' = [worker EXCEPT ![w] = Holding(worker[w].todo)]

\* The batch is done: the process sleeps and polls again.
Rest(w) ==
  /\ At(w, "next") /\ worker[w].todo = {}
  /\ worker' = [worker EXCEPT ![w] = Fresh]
  /\ UNCHANGED outbox

\* The process dies and is started again; its claims stay leased.
Die(w) ==
  /\ ~At(w, "idle")
  /\ worker' = [worker EXCEPT ![w] = Fresh]
  /\ UNCHANGED outbox

LeaseExpires(e) ==
  /\ outbox[e].state = "PUBLISHING" /\ ~outbox[e].expired
  /\ outbox' = [outbox EXCEPT ![e] = [@ EXCEPT !.expired = TRUE]]

BecomesDue(e) ==
  /\ outbox[e].state = "PENDING" /\ ~outbox[e].due
  /\ outbox' = [outbox EXCEPT ![e] = [@ EXCEPT !.due = TRUE]]

Time == (\E e \in Events : LeaseExpires(e) \/ BecomesDue(e)) /\ UNCHANGED worker

-----------------------------------------------------------------------------
(* What both programs must keep.                                           *)

Typed(labels) ==
  /\ outbox \in [Events -> Row]
  /\ \A e \in Events : outbox[e].state = "PUBLISHING" <=> outbox[e].owner # None
  /\ worker \in [Workers -> [pc : labels, todo : SUBSET Claims,
                              event : Events \cup {None}, attempt : 0..AttemptCap]]
  /\ \A w \in Workers : ~At(w, "idle") /\ ~At(w, "next") => Current(w) \in Events

\* The owner is the row's check constraint ck_outbox_events_lease_state.

\* Two facts about one step of delivery (06_EVENT_MODEL, ADR-010).  An event
\* that has been settled is not published, retried or failed again by a
\* process that was slower than its lease.
SettledStates == {"PUBLISHED", "FAILED_TERMINAL"}
SettledIsFinal(e) == outbox[e].state \in SettledStates => outbox'[e] = outbox[e]

\* While its lease lasts, a claimed event is moved on by the process that
\* claimed it only.
LeaseIsExclusive(e) ==
  outbox[e].state = "PUBLISHING" /\ ~outbox[e].expired /\ outbox'[e] # outbox[e] =>
    \/ outbox'[e].state = "PUBLISHING" /\ outbox'[e].owner = outbox[e].owner
    \/ /\ outbox'[e].state # "PUBLISHING"
       /\ \E w \in Workers : /\ Current(w) = e /\ Current(w)' = None
                             /\ w = outbox[e].owner /\ worker[w].attempt = outbox[e].attempts

=============================================================================
