------------------------ MODULE OutboxPublisherProofs ------------------------
(***************************************************************************)
(* Theorems about OutboxPublisher, for any events, publishers, batches,    *)
(* limit of attempts and number of faults: why a row rests where it does.  *)
(***************************************************************************)
EXTENDS OutboxPublisher, TLAPS

-----------------------------------------------------------------------------
(* Types.                                                                  *)

Labels == {"idle", "next", "send", "published", "terminal", "retry"}
Process == [pc : Labels, todo : SUBSET Claims, event : Events \cup {None}, attempt : 0..AttemptCap]

RowsTyped ==
  /\ outbox \in [Events -> Row]
  /\ \A e \in Events : outbox[e].state = "PUBLISHING" <=> outbox[e].owner # None

ProcessesTyped ==
  /\ worker \in [Workers -> Process]
  /\ \A w \in Workers : worker[w].pc \notin {"idle", "next"} => worker[w].event \in Events

TransportTyped == accepted \subseteq Events /\ refused \in [Events -> SUBSET Answers] /\ faults \in 0..MaxFaults

TypeInv == RowsTyped /\ ProcessesTyped /\ TransportTyped

\* TypeInv is what delivery calls Typed, with the transport's answers.
LEMMA TypeInvIsTyped == TypeInv => Typed(Labels)
BY DEF TypeInv, RowsTyped, ProcessesTyped, Typed, Process, At, Current

-----------------------------------------------------------------------------
(* Why a process is about to settle an event as it is, and why a row rests *)
(* where it does.                                                          *)

\* The transport has refused e for good, or as often as an attempt counts.
Exhausted(e, attempt) ==
  "terminal" \in refused[e] \/ ("retryable" \in refused[e] /\ attempt >= MaxAttempts)

ProcessHasReason(w) ==
  /\ worker[w].pc = "published" => worker[w].event \in accepted
  /\ worker[w].pc = "terminal" => Exhausted(worker[w].event, worker[w].attempt)
  /\ worker[w].pc = "retry" => worker[w].attempt < MaxAttempts

RowHasReason(e) ==
  /\ outbox[e].state = "PUBLISHED" => e \in accepted
  /\ outbox[e].state = "FAILED_TERMINAL" => Exhausted(e, outbox[e].attempts)
  /\ outbox[e].state = "PENDING" => outbox[e].attempts < MaxAttempts

Reasons ==
  /\ \A w \in Workers : ProcessHasReason(w)
  /\ \A e \in Events : RowHasReason(e)

Inv == TypeInv /\ Reasons

LEMMA InvInit == Init => Inv
<1> SUFFICES ASSUME Init PROVE Inv
  OBVIOUS
<1>1. NoRow \in Row /\ NoRow.state = "NONE" /\ NoRow.owner = None
  BY BatchAssumption DEF NoRow, Row, States
<1>2. Fresh \in Process /\ Fresh.pc = "idle"
  BY BatchAssumption DEF Fresh, Process, Labels, Claims
<1> QED
  BY <1>1, <1>2, PublisherAssumption
     DEF Init, InitDelivery, Inv, TypeInv, RowsTyped, ProcessesTyped, TransportTyped, Reasons,
         ProcessHasReason, RowHasReason

\* What the transport has answered is not forgotten.
AnswersLast ==
  /\ accepted \subseteq accepted'
  /\ \A e \in Events : refused[e] \subseteq refused'[e]

\* Where the rows and the processes that have reasons stay as they are.
LEMMA RestKeepsReasons ==
  ASSUME Inv, AnswersLast,
         \A w \in Workers : worker'[w] = worker[w] \/ ProcessHasReason(w)',
         \A e \in Events : outbox'[e] = outbox[e] \/ RowHasReason(e)'
  PROVE  Reasons'
<1>1. ASSUME NEW w \in Workers, worker'[w] = worker[w] PROVE ProcessHasReason(w)'
  <2>1. worker[w].pc = "terminal" => worker[w].event \in Events
    BY DEF Inv, TypeInv, ProcessesTyped
  <2> QED
    BY <1>1, <2>1 DEF Inv, Reasons, ProcessHasReason, Exhausted, AnswersLast
<1>2. ASSUME NEW e \in Events, outbox'[e] = outbox[e] PROVE RowHasReason(e)'
  BY <1>2 DEF Inv, Reasons, RowHasReason, Exhausted, AnswersLast
<1> QED
  BY <1>1, <1>2 DEF Reasons

\* One process becomes p.
LEMMA Becomes ==
  ASSUME ProcessesTyped, NEW w \in Workers, NEW p \in Process, worker' = [worker EXCEPT ![w] = p],
         p.pc \notin {"idle", "next"} => p.event \in Events
  PROVE  /\ ProcessesTyped'
         /\ worker'[w] = p
         /\ \A v \in Workers : v # w => worker'[v] = worker[v]
BY DEF ProcessesTyped

LEMMA GoesTo ==
  ASSUME ProcessesTyped, NEW w \in Workers, NEW label \in Labels, Goto(w, label), worker[w].event \in Events
  PROVE  /\ ProcessesTyped'
         /\ worker'[w].pc = label /\ worker'[w].event = worker[w].event /\ worker'[w].attempt = worker[w].attempt
         /\ \A v \in Workers : v # w => worker'[v] = worker[v]
<1> DEFINE p == [worker[w] EXCEPT !.pc = label]
<1>1. worker' = [worker EXCEPT ![w] = p]
  BY DEF Goto
<1>2. p \in Process /\ p.pc = label /\ p.event = worker[w].event /\ p.attempt = worker[w].attempt
  BY DEF ProcessesTyped, Process
<1> HIDE DEF p
<1> QED
  BY <1>1, <1>2, Becomes

LEMMA HoldingIsProcess ==
  /\ \A claims \in SUBSET Claims : Holding(claims) \in Process /\ Holding(claims).pc = "next"
  /\ Fresh \in Process /\ Fresh.pc = "idle"
BY BatchAssumption DEF Holding, Fresh, Process, Labels, Claims

-----------------------------------------------------------------------------
(* The steps.                                                              *)

LEMMA RowsStep ==
  ASSUME Inv, \/ \E e \in Events : CommitFact(e)
              \/ Time /\ UNCHANGED <<transportVars, faults>>
  PROVE  Inv'
<1> USE DEF Inv, TypeInv
<1>1. UNCHANGED <<worker, accepted, refused, faults>>
  BY DEF CommitFact, Time, transportVars
<1>2. ASSUME NEW e \in Events, NEW row \in Row, outbox' = [outbox EXCEPT ![e] = row],
             row.state = "PUBLISHING" <=> row.owner # None,
             row.state \in {"PUBLISHED", "FAILED_TERMINAL"} => FALSE,
             row.state = "PENDING" => row.attempts < MaxAttempts
      PROVE  Inv'
  <2>1. RowsTyped'
    BY <1>2 DEF RowsTyped
  <2>2. outbox'[e] = row /\ \A d \in Events : d # e => outbox'[d] = outbox[d]
    BY <1>2 DEF RowsTyped
  <2>3. Reasons'
    BY <1>1, <1>2, <2>2, RestKeepsReasons DEF AnswersLast, RowHasReason
  <2> QED
    BY <1>1, <2>1, <2>3 DEF ProcessesTyped, TransportTyped
<1>3. ASSUME NEW e \in Events, CommitFact(e) PROVE Inv'
  <2>1. NewRow \in Row /\ NewRow.state = "PENDING" /\ NewRow.owner = None /\ NewRow.attempts = 0
    BY BatchAssumption DEF NewRow, Row, States
  <2>2. 0 < MaxAttempts
    BY PublisherAssumption, BatchAssumption
  <2> QED
    BY <1>2, <1>3, <2>1, <2>2 DEF CommitFact, AppendEvent
<1>4. ASSUME NEW e \in Events, LeaseExpires(e) PROVE Inv'
  <2> DEFINE row == [outbox[e] EXCEPT !.expired = TRUE]
  <2>1. row \in Row /\ row.state = "PUBLISHING" /\ row.owner = outbox[e].owner
    BY <1>4 DEF LeaseExpires, RowsTyped, Row
  <2>2. outbox' = [outbox EXCEPT ![e] = row]
    BY <1>4 DEF LeaseExpires
  <2>3. row.owner # None
    BY <1>4, <2>1 DEF LeaseExpires, RowsTyped
  <2> HIDE DEF row
  <2> QED
    BY <1>2, <2>1, <2>2, <2>3
<1>5. ASSUME NEW e \in Events, BecomesDue(e) PROVE Inv'
  <2> DEFINE row == [outbox[e] EXCEPT !.due = TRUE]
  <2>1. row \in Row /\ row.state = "PENDING" /\ row.owner = outbox[e].owner /\ row.attempts = outbox[e].attempts
    BY <1>5 DEF BecomesDue, RowsTyped, Row
  <2>2. outbox' = [outbox EXCEPT ![e] = row]
    BY <1>5 DEF BecomesDue
  <2>3. row.owner = None /\ row.attempts < MaxAttempts
    BY <1>5, <2>1 DEF BecomesDue, RowsTyped, Reasons, RowHasReason
  <2> HIDE DEF row
  <2> QED
    BY <1>2, <2>1, <2>2, <2>3
<1> QED
  BY <1>3, <1>4, <1>5 DEF Time

LEMMA PollStep ==
  ASSUME Inv, NEW w \in Workers, PollOutbox(w)
  PROVE  Inv'
<1> USE DEF Inv, TypeInv
<1>1. PICK batch \in SUBSET Events :
        /\ Claim(w, batch)
        /\ worker' = [worker EXCEPT ![w] = Holding({<<e, outbox'[e].attempts>> : e \in batch})]
  BY DEF PollOutbox, Poll
<1>2. UNCHANGED <<accepted, refused, faults>>
  BY DEF PollOutbox, transportVars
<1>3. \A e \in batch : outbox'[e] \in Row /\ outbox'[e].state = "PUBLISHING" /\ outbox'[e].owner = w
  <2> SUFFICES ASSUME NEW e \in batch
               PROVE  outbox'[e] \in Row /\ outbox'[e].state = "PUBLISHING" /\ outbox'[e].owner = w
    OBVIOUS
  <2>1. outbox'[e] = [outbox[e] EXCEPT !.state = "PUBLISHING", !.owner = w, !.expired = FALSE,
                                       !.attempts = NextAttempt(outbox[e].attempts)]
    BY <1>1 DEF Claim
  <2>2. outbox[e] \in Row
    BY DEF RowsTyped
  <2>3. NextAttempt(outbox[e].attempts) \in 0..AttemptCap
    BY <2>2, BatchAssumption DEF Row, NextAttempt
  <2> QED
    BY <2>1, <2>2, <2>3 DEF Row, States
<1>4. \A e \in Events \ batch : outbox'[e] = outbox[e]
  BY <1>1 DEF Claim
<1>5. RowsTyped'
  <2>1. outbox' = [e \in Events |-> outbox'[e]]
    BY <1>1 DEF Claim
  <2> QED
    BY <2>1, <1>3, <1>4, WorkerAssumption DEF RowsTyped
<1> DEFINE claims == {<<e, outbox'[e].attempts>> : e \in batch}
<1>6. claims \in SUBSET Claims
  BY <1>3 DEF Claims, Row
<1> HIDE DEF claims
<1>7. worker' = [worker EXCEPT ![w] = Holding(claims)]
  BY <1>1 DEF claims
<1>8. /\ ProcessesTyped' /\ worker'[w].pc = "next"
      /\ \A v \in Workers : v # w => worker'[v] = worker[v]
  BY <1>6, <1>7, HoldingIsProcess, Becomes
<1>9. Reasons'
  <2>1. \A v \in Workers : worker'[v] = worker[v] \/ ProcessHasReason(v)'
    BY <1>8 DEF ProcessHasReason
  <2>2. \A e \in Events : outbox'[e] = outbox[e] \/ RowHasReason(e)'
    BY <1>3, <1>4 DEF RowHasReason
  <2> QED
    BY <1>2, <2>1, <2>2, RestKeepsReasons DEF AnswersLast
<1> QED
  BY <1>2, <1>5, <1>8, <1>9 DEF TransportTyped

LEMMA SettleStep ==
  ASSUME Inv, NEW w \in Workers, Settle(w)
  PROVE  Inv'
<1> USE DEF Inv, TypeInv
<1>1. UNCHANGED <<accepted, refused, faults>>
  BY DEF Settle, transportVars
<1>2. PICK state \in {"PUBLISHED", "FAILED_TERMINAL", "PENDING"} :
        /\ FinishAs(w, state) /\ worker' = [worker EXCEPT ![w] = Holding(worker[w].todo)]
        /\ worker[w].pc = CASE state = "PUBLISHED" -> "published"
                            [] state = "FAILED_TERMINAL" -> "terminal"
                            [] OTHER -> "retry"
  BY DEF Settle, Finish, At
<1> DEFINE e == worker[w].event
           row == [outbox[e] EXCEPT !.state = state, !.owner = None, !.expired = FALSE, !.due = (state # "PENDING")]
<1>3. e \in Events /\ ProcessHasReason(w)
  BY <1>2 DEF ProcessesTyped, Reasons
<1>4. /\ ProcessesTyped' /\ worker'[w].pc = "next"
      /\ \A v \in Workers : v # w => worker'[v] = worker[v]
  <2>1. worker[w].todo \in SUBSET Claims
    BY DEF ProcessesTyped, Process
  <2> QED
    BY <1>2, <2>1, HoldingIsProcess, Becomes
<1>5. \A v \in Workers : worker'[v] = worker[v] \/ ProcessHasReason(v)'
  BY <1>4 DEF ProcessHasReason
<1>6. CASE ~ Held(w)
  <2>1. outbox' = outbox
    BY <1>2, <1>6 DEF FinishAs
  <2>2. Reasons'
    BY <1>1, <1>5, <2>1, RestKeepsReasons DEF AnswersLast
  <2> QED
    BY <1>1, <1>4, <2>1, <2>2 DEF RowsTyped, TransportTyped
<1>7. CASE Held(w)
  <2>1. outbox[e].attempts = worker[w].attempt
    BY <1>7 DEF Held, Current
  <2>2. row \in Row /\ row.state = state /\ row.owner = None /\ row.attempts = outbox[e].attempts
    BY ZenonT(60), <1>2, <1>3 DEF RowsTyped, Row, States
  <2>3. outbox' = [outbox EXCEPT ![e] = row]
    BY <1>2, <1>7 DEF FinishAs, Current
  <2>4. /\ outbox'[e].state = state /\ outbox'[e].attempts = worker[w].attempt
        /\ \A d \in Events : d # e => outbox'[d] = outbox[d]
    <3> HIDE DEF row
    <3> QED
      BY <1>3, <2>1, <2>2, <2>3 DEF RowsTyped
  <2>5. RowsTyped'
    <3> HIDE DEF row
    <3> QED
      BY <1>2, <1>3, <2>2, <2>3 DEF RowsTyped
  <2>6. ASSUME NEW d \in Events, d = e PROVE RowHasReason(d)'
    <3>1. /\ state = "PUBLISHED" => d \in accepted'
          /\ state = "FAILED_TERMINAL" => Exhausted(d, worker[w].attempt)
          /\ state = "PENDING" => worker[w].attempt < MaxAttempts
      BY <1>1, <1>2, <1>3, <2>6 DEF ProcessHasReason
    <3>2. outbox'[d].state = state /\ outbox'[d].attempts = worker[w].attempt
      BY <2>4, <2>6
    <3> QED
      BY <1>1, <3>1, <3>2 DEF RowHasReason, Exhausted
  <2>7. Reasons'
    BY <1>1, <1>5, <2>4, <2>6, RestKeepsReasons DEF AnswersLast
  <2> QED
    BY <1>1, <1>4, <2>5, <2>7 DEF TransportTyped
<1> QED
  BY <1>6, <1>7

\* The steps of a process that write no row.
LEMMA ProcessStep ==
  ASSUME Inv, NEW w \in Workers,
         \/ Take(w) \/ Accept(w) \/ (\E answer \in Answers : Refuse(w, answer))
         \/ Rest(w) /\ UNCHANGED <<transportVars, faults>>
         \/ Crash(w)
  PROVE  Inv'
<1> USE DEF Inv, TypeInv
<1>1. UNCHANGED outbox /\ RowsTyped'
  BY DEF Take, TakeNext, Accept, Refuse, Rest, Crash, Die, RowsTyped
<1>2. ASSUME AnswersLast, TransportTyped', ProcessesTyped', ProcessHasReason(w)',
             \A v \in Workers : v # w => worker'[v] = worker[v]
      PROVE  Inv'
  BY <1>1, <1>2, RestKeepsReasons
<1>3. CASE Take(w)
  <2>1. PICK c \in worker[w].todo :
          worker' = [worker EXCEPT ![w] =
            [pc |-> "send", todo |-> worker[w].todo \ {c}, event |-> c[1], attempt |-> c[2]]]
    BY <1>3 DEF Take, TakeNext
  <2> DEFINE p == [pc |-> "send", todo |-> worker[w].todo \ {c}, event |-> c[1], attempt |-> c[2]]
  <2>2. worker[w].todo \subseteq Claims
    BY DEF ProcessesTyped, Process
  <2>3. c[1] \in Events /\ c[2] \in 0..AttemptCap
    BY <2>1, <2>2 DEF Claims
  <2>4. p \in Process /\ p.pc = "send" /\ p.event \in Events
    BY <2>2, <2>3 DEF Process, Labels
  <2> HIDE DEF p
  <2>5. worker' = [worker EXCEPT ![w] = p]
    BY <2>1 DEF p
  <2>6. ProcessesTyped' /\ worker'[w].pc = "send" /\ \A v \in Workers : v # w => worker'[v] = worker[v]
    BY <2>4, <2>5, Becomes
  <2>7. UNCHANGED <<accepted, refused, faults>>
    BY <1>3 DEF Take, transportVars
  <2> QED
    BY <1>2, <2>6, <2>7 DEF AnswersLast, TransportTyped, ProcessHasReason
<1>4. CASE Accept(w)
  <2>1. worker[w].event \in Events /\ "published" \in Labels
    BY <1>4 DEF Accept, At, ProcessesTyped, Labels
  <2>2. /\ ProcessesTyped' /\ worker'[w].pc = "published" /\ worker'[w].event = worker[w].event
        /\ \A v \in Workers : v # w => worker'[v] = worker[v]
    BY <1>4, <2>1, GoesTo DEF Accept
  <2>3. accepted' = accepted \cup {worker[w].event} /\ UNCHANGED <<refused, faults>>
    BY <1>4 DEF Accept, Current
  <2> QED
    BY <1>2, <2>1, <2>2, <2>3 DEF AnswersLast, TransportTyped, ProcessHasReason
<1>5. ASSUME NEW answer \in Answers, Refuse(w, answer) PROVE Inv'
  <2> DEFINE e == worker[w].event
             label == IF GivesUp(answer, worker[w].attempt) THEN "terminal" ELSE "retry"
  <2>1. e \in Events /\ label \in Labels /\ worker[w].attempt \in 0..AttemptCap
    BY <1>5 DEF Refuse, At, ProcessesTyped, Process, Labels
  <2>2. /\ ProcessesTyped' /\ worker'[w].pc = label
        /\ worker'[w].event = e /\ worker'[w].attempt = worker[w].attempt
        /\ \A v \in Workers : v # w => worker'[v] = worker[v]
    BY <1>5, <2>1, GoesTo DEF Refuse
  <2>3. refused' = [refused EXCEPT ![e] = @ \cup {answer}] /\ UNCHANGED <<accepted, faults>>
    BY <1>5 DEF Refuse, Current
  <2>4. TransportTyped' /\ AnswersLast /\ answer \in refused'[e]
    BY <2>1, <2>3 DEF TransportTyped, AnswersLast
  <2>5. ProcessHasReason(w)'
    <3>1. label = "terminal" => answer = "terminal" \/ (answer = "retryable" /\ worker[w].attempt >= MaxAttempts)
      BY DEF GivesUp, Answers
    <3>2. label # "terminal" => worker[w].attempt < MaxAttempts
      BY <2>1, PublisherAssumption, BatchAssumption DEF GivesUp
    <3>3. label # "published" /\ (label = "retry" => label # "terminal")
      OBVIOUS
    <3> HIDE DEF label
    <3> QED
      BY <2>2, <2>4, <3>1, <3>2, <3>3 DEF ProcessHasReason, Exhausted
  <2> QED
    BY <1>2, <2>2, <2>4, <2>5
<1>6. CASE (Rest(w) /\ UNCHANGED <<transportVars, faults>>) \/ Crash(w)
  <2>1. worker' = [worker EXCEPT ![w] = Fresh]
    BY <1>6 DEF Rest, Crash, Die
  <2>2. /\ ProcessesTyped' /\ worker'[w].pc = "idle"
        /\ \A v \in Workers : v # w => worker'[v] = worker[v]
    BY <2>1, HoldingIsProcess, Becomes
  <2>3. TransportTyped' /\ AnswersLast
    BY <1>6, PublisherAssumption
       DEF Crash, Die, transportVars, TransportTyped, AnswersLast, At, Current, ProcessesTyped
  <2> QED
    BY <1>2, <2>2, <2>3 DEF ProcessHasReason
<1> QED
  BY <1>3, <1>4, <1>5, <1>6

LEMMA InvNext == Inv /\ [Next]_vars => Inv'
<1> SUFFICES ASSUME Inv, [Next]_vars PROVE Inv'
  OBVIOUS
<1>1. CASE UNCHANGED vars
  BY <1>1 DEF vars, transportVars, Inv, TypeInv, RowsTyped, ProcessesTyped, TransportTyped, Reasons,
              ProcessHasReason, RowHasReason, Exhausted
<1>2. CASE Next
  BY <1>2, RowsStep, PollStep, SettleStep, ProcessStep DEF Next, Proceed
<1> QED
  BY <1>1, <1>2

LEMMA StaysReasoned == Spec => []Inv
<1>1. Inv /\ [Next]_vars => Inv'
  BY InvNext
<1> QED
  BY <1>1, InvInit, PTL DEF Spec

\* Every row, process and answer keeps its type, and a row is leased exactly while it is being
\* published, for any number of publishers.
THEOREM PublisherStaysTyped == Spec => []Typed(Labels)
<1>1. Inv => Typed(Labels)
  BY TypeInvIsTyped DEF Inv
<1> QED
  BY <1>1, StaysReasoned, PTL

\* An event that rests PUBLISHED was accepted by the transport, one that rests
\* FAILED_TERMINAL was refused for good or after its last attempt, and one that waits has
\* attempts left, whichever publisher wrote the row, however slow it was.
THEOREM RowsKeepReasons == Spec => []RowsHaveReasons
<1>1. Inv => RowsHaveReasons
  BY DEF Inv, Reasons, RowHasReason, Exhausted, RowsHaveReasons
<1> QED
  BY <1>1, StaysReasoned, PTL

=============================================================================
