--------------------------- MODULE OutboxPublisher ---------------------------
(***************************************************************************)
(* PublishOutboxBatch (events/application.py): processes that claim any    *)
(* event of the outbox, hand it to a transport, and settle or retry it     *)
(* with a bounded number of attempts.                                      *)
(***************************************************************************)
EXTENDS EventDelivery

CONSTANTS
  MaxAttempts,  \* max_attempts
  MaxFaults     \* bound on crashes and unexpected exceptions

ASSUME PublisherAssumption ==
  /\ MaxAttempts \in 1..AttemptCap   \* so that the capped count still tells
  /\ MaxFaults \in Nat

VARIABLES
  accepted,   \* events the transport has accepted at least once
  refused,    \* what it has answered otherwise, per event
  faults

transportVars == <<accepted, refused>>
vars == <<outbox, worker, accepted, refused, faults>>

Answers == {"retryable", "terminal"}

Init ==
  /\ InitDelivery
  /\ accepted = {}
  /\ refused = [e \in Events |-> {}]
  /\ faults = 0

CommitFact(e) == AppendEvent(e) /\ UNCHANGED <<worker, transportVars, faults>>

PollOutbox(w) == Poll(w) /\ UNCHANGED <<transportVars, faults>>
Take(w) == TakeNext(w, "send") /\ UNCHANGED <<transportVars, faults>>

\* transport.publish returns.
Accept(w) ==
  /\ At(w, "send") /\ Goto(w, "published")
  /\ accepted' = accepted \cup {Current(w)}
  /\ UNCHANGED <<outbox, refused, faults>>

\* Mutant: the limit of attempts is checked one too late.
GivesUpLate(answer, attempt) == answer = "terminal" \/ attempt > MaxAttempts

\* TerminalTransportError, or RetryableTransportError of the last attempt.
GivesUp(answer, attempt) == answer = "terminal" \/ attempt >= MaxAttempts

Refuse(w, answer) ==
  /\ At(w, "send")
  /\ Goto(w, IF GivesUp(answer, worker[w].attempt) THEN "terminal" ELSE "retry")
  /\ refused' = [refused EXCEPT ![Current(w)] = @ \cup {answer}]
  /\ UNCHANGED <<outbox, accepted, faults>>

\* mark_published, mark_terminal, mark_retryable after the backoff.
Settle(w) ==
  /\ \/ Finish(w, "published", "PUBLISHED")
     \/ Finish(w, "terminal", "FAILED_TERMINAL")
     \/ Finish(w, "retry", "PENDING")
  /\ UNCHANGED <<transportVars, faults>>

\* The process dies, or an exception that is neither of the two ends the batch;
\* a publish under way may have been accepted.
Crash(w) ==
  /\ Die(w) /\ faults < MaxFaults
  /\ faults' = faults + 1
  /\ \/ UNCHANGED accepted
     \/ At(w, "send") /\ accepted' = accepted \cup {Current(w)}
  /\ UNCHANGED refused

Proceed(w) ==
  \/ Take(w) \/ Accept(w) \/ Settle(w)
  \/ \E answer \in Answers : Refuse(w, answer)
  \/ Rest(w) /\ UNCHANGED <<transportVars, faults>>

Next ==
  \/ \E w \in Workers : PollOutbox(w) \/ Proceed(w) \/ Crash(w)
  \/ \E e \in Events : CommitFact(e)
  \/ Time /\ UNCHANGED <<transportVars, faults>>

Spec == Init /\ [][Next]_vars

\* Processes go on and are restarted, time passes, and claims take the oldest rows.
Serves(e) == \E w \in Workers : PollOutbox(w) /\ outbox'[e].owner = w /\ outbox[e] # outbox'[e]
Fairness ==
  /\ \A w \in Workers : WF_vars(Proceed(w))
  /\ \A e \in Events :
       /\ SF_vars(Serves(e))
       /\ WF_vars((LeaseExpires(e) \/ BecomesDue(e)) /\ UNCHANGED <<worker, transportVars, faults>>)
FairSpec == Spec /\ Fairness

-----------------------------------------------------------------------------
(* Properties.                                                             *)

\* An event rests for a reason, whichever process wrote its row last: PUBLISHED
\* because the transport has accepted it, FAILED_TERMINAL because it has refused
\* it for good or after the last attempt, PENDING again while attempts remain.
RowsHaveReasons ==
  \A e \in Events :
    /\ outbox[e].state = "PUBLISHED" => e \in accepted
    /\ outbox[e].state = "FAILED_TERMINAL" =>
         \/ "terminal" \in refused[e]
         \/ "retryable" \in refused[e] /\ outbox[e].attempts >= MaxAttempts
    /\ outbox[e].state = "PENDING" => outbox[e].attempts < MaxAttempts

\* From some time on no lease runs out under a publisher that is sending its event.
\* The code does not see to it: transport.publish has no timeout beside the lease.
SentWithinTheLease ==
  <>[][\A e \in Events, w \in Workers :
         LeaseExpires(e) /\ outbox[e].owner = w /\ ~At(w, "idle") => Current(w) \notin {None, e}]_vars

\* 06_EVENT_MODEL: if publishers get to be quicker than their leases, every event
\* ends PUBLISHED or, exhausted or refused for good, FAILED_TERMINAL, whatever
\* crashes it meets and however slow they were before.
EventuallySettled ==
  SentWithinTheLease =>
    \A e \in Events : outbox[e].state = "PENDING" ~> outbox[e].state \in SettledStates

=============================================================================
