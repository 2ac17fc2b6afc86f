--------------------------- MODULE PublicationProofs ---------------------------
(***************************************************************************)
(* Proofs about Publication, for any users, workers and bounds: every      *)
(* state is well typed, what is PUBLISHED was posted, and what is          *)
(* cancelled was never submitted.                                          *)
(***************************************************************************)
EXTENDS Publication, TLAPS

\* The statuses of a job that a submission has begun for, or that its answer left.
Past == {"SUBMITTING", "SUBMITTED", "PUBLISHED", "FAILED", "OUTCOME_UNKNOWN"}

\* What a slot that is about to store an answer knows of the provider: a post stays published.
AnswerIsTrue(s) ==
  act[s].pc = "store" =>
    \/ /\ act[s].op = "submit"
       /\ act[s].answer \in {"SUBMITTED", "PUBLISHED", "FAILED", "OUTCOME_UNKNOWN"}
       /\ act[s].answer = "PUBLISHED" => provider = "published"
    \/ act[s].op = "reconcile" /\ provider = "published"

\* The inductive invariant, beside the types: a slot between its two transactions keeps the job past submission,
\* where no decision, scheduling or cancellation reaches it.
PublicationIsSound ==
  /\ job = "PUBLISHED" <=> publication
  /\ publication => provider = "published"
  /\ sent => job \in Past
  /\ \A s \in Slots : act[s].pc \in {"provider", "store"} => job \in Past
  /\ \A s \in Slots : AnswerIsTrue(s)

-----------------------------------------------------------------------------
(* Slots.                                                                  *)

Pcs == {"idle", "invoke", "start", "provider", "store", "complete", "return"}
Ops == {"none", "submit", "reconcile", "cancel"}
Slot == [pc : Pcs, op : Ops, answer : Statuses \cup Outcomes]

\* A slot that goes on keeps its operation and its answer.
LEMMA GoesStep ==
  ASSUME act \in [Slots -> Slot], NEW s \in Slots, NEW pc \in Pcs, Goes(s, pc)
  PROVE  /\ act' \in [Slots -> Slot]
         /\ act'[s].pc = pc /\ act'[s].op = act[s].op /\ act'[s].answer = act[s].answer
         /\ \A t \in Slots : t # s => act'[t] = act[t]
  BY DEF Goes, Slot

\* A slot that is finished is neither at the provider nor about to store.
LEMMA FinishesStep ==
  ASSUME act \in [Slots -> Slot], NEW s \in Slots, NEW outcome \in Outcomes, Finishes(s, outcome)
  PROVE  /\ act' \in [Slots -> Slot]
         /\ act'[s].pc \notin {"provider", "store"}
         /\ act'[s].pc = "complete" => act'[s].answer = outcome
         /\ \A t \in Slots : t # s => act'[t] = act[t]
<1> DEFINE new == IF s \in Users THEN Resting ELSE [act[s] EXCEPT !.pc = "complete", !.answer = outcome]
<1>1. act' = [act EXCEPT ![s] = new]
  BY DEF Finishes
<1>2. /\ new \in Slot /\ new.pc \notin {"provider", "store"}
      /\ new.pc = "complete" => new.answer = outcome
  BY DEF Resting, Slot, Pcs, Ops, Statuses, Outcomes
<1> QED
  BY <1>1, <1>2

LEMMA DoneIsOutcome == \A status : Done(status) \in Outcomes
  BY DEF Done, Outcomes

-----------------------------------------------------------------------------
(* Types.                                                                  *)

\* TypeOK with what keeps it: a finished operation has an outcome for the gateway, and a
\* workflow whose activity may be tried again has tries left.
Typed ==
  /\ TypeOK
  /\ \A s \in Slots : act[s].pc = "complete" => act[s].answer \in Outcomes
  /\ flow.by = Nobody /\ flow.state \notin Ended => flow.tries < MaxTries

LEMMA TypedInit == Init => Typed
<1> SUFFICES ASSUME Init PROVE Typed
  OBVIOUS
<1> USE PublicationAssumption DEF Init
<1>1. flow \in [state : Ended \cup {"none", "waiting", "submit", "reconcile", "cancel"},
               by : Workers \cup {Nobody}, tries : 0..MaxTries, due : BOOLEAN]
  OBVIOUS
<1>2. record \in [{"submit", "reconcile"} -> {"none", "EXECUTING"} \cup Outcomes]
  OBVIOUS
<1>3. act \in [Slots -> [pc : {"idle", "invoke", "start", "provider", "store", "complete", "return"},
                         op : {"none", "submit", "reconcile", "cancel"},
                         answer : Statuses \cup Outcomes]]
  BY DEF Resting, Statuses
<1>4. current \in BOOLEAN /\ publication \in BOOLEAN /\ sent \in BOOLEAN
  BY Zenon
<1>5. TypeOK
  BY <1>1, <1>2, <1>3, <1>4 DEF TypeOK, Statuses
<1> QED
  BY <1>5 DEF Typed, Resting

\* The decisions, and the provider's.
LEMMA OutsideIsTyped ==
  ASSUME Typed,
         \/ \E state \in {"APPROVED", "REJECTED"} : Decide(state)
         \/ BindApproval \/ ApprovalLapses \/ Outdate \/ Settle
  PROVE  Typed'
<1>1. CASE \E state \in {"APPROVED", "REJECTED"} : Decide(state)
  BY <1>1 DEF Decide, Typed, TypeOK, Statuses, external, Slots
<1>2. CASE BindApproval
  BY <1>2 DEF BindApproval, Typed, TypeOK, external, Slots
<1>3. CASE ApprovalLapses
  BY <1>3 DEF ApprovalLapses, Typed, TypeOK, external, Slots
<1>4. CASE Outdate
  <2>1. current' \in BOOLEAN
    BY <1>4, Zenon DEF Outdate
  <2> QED
    BY <1>4, <2>1 DEF Outdate, Typed, TypeOK, external, Slots
<1>5. CASE Settle
  BY <1>5 DEF Settle, Typed, TypeOK, rows, Slots
<1> QED
  BY <1>1, <1>2, <1>3, <1>4, <1>5

\* What a step of one slot leaves of the slots' types.
SlotsTyped ==
  /\ act \in [Slots -> [pc : {"idle", "invoke", "start", "provider", "store", "complete", "return"},
                         op : {"none", "submit", "reconcile", "cancel"},
                         answer : Statuses \cup Outcomes]]
  /\ \A s \in Slots : act[s].pc = "complete" => act[s].answer \in Outcomes

LEMMA SlotStepsAreTyped ==
  ASSUME SlotsTyped, NEW s \in Slots,
         \/ \E pc \in Pcs \ {"complete"} : Goes(s, pc)
         \/ \E outcome \in Outcomes : Finishes(s, outcome)
  PROVE  SlotsTyped'
<1>1. act \in [Slots -> Slot]
  BY DEF SlotsTyped, Slot, Pcs, Ops
<1>2. CASE \E pc \in Pcs \ {"complete"} : Goes(s, pc)
  BY <1>1, <1>2, GoesStep DEF SlotsTyped, Slot, Pcs, Ops
<1>3. CASE \E outcome \in Outcomes : Finishes(s, outcome)
  BY <1>1, <1>3, FinishesStep DEF SlotsTyped, Slot, Pcs, Ops
<1> QED
  BY <1>2, <1>3

\* The operations, of users and behind the gateway.
LEMMA OperationIsTyped ==
  ASSUME Typed, NEW s \in Slots, Runs(s) \/ SubmitRaises(s) \/ AskRaises(s) \/ StoreFails(s)
  PROVE  Typed'
<1>a. SlotsTyped
  BY DEF Typed, TypeOK, SlotsTyped
<1>g. ASSUME NEW pc \in Pcs \ {"complete"}, Goes(s, pc) PROVE SlotsTyped'
  BY <1>a, <1>g, SlotStepsAreTyped
<1>f. ASSUME NEW outcome \in Outcomes, Finishes(s, outcome) PROVE SlotsTyped'
  BY <1>a, <1>f, SlotStepsAreTyped
<1>p. "FAILED_PRE_EFFECT" \in Outcomes /\ "SUCCEEDED" \in Outcomes /\ "UNKNOWN" \in Outcomes
  BY DEF Outcomes
<1>c. "provider" \in Pcs \ {"complete"} /\ "store" \in Pcs \ {"complete"}
  BY DEF Pcs
<1>1. CASE StartExecute(s)
  <2>1. SlotsTyped'
    BY <1>1, <1>g, <1>f, <1>p, <1>c, DoneIsOutcome DEF StartExecute
  <2>2. job' \in Statuses
    BY <1>1 DEF StartExecute, Typed, TypeOK, Statuses
  <2> QED
    BY <1>1, <2>1, <2>2 DEF StartExecute, Typed, TypeOK, SlotsTyped, external
<1>2. CASE Submit(s)
  <2>1. PICK p \in AfterSubmit : /\ provider' = p
                                 /\ \E r \in Reported(p) : act' = [act EXCEPT ![s].pc = "store", ![s].answer = r]
    BY <1>2 DEF Submit
  <2>2. PICK r \in Reported(p) : act' = [act EXCEPT ![s].pc = "store", ![s].answer = r]
    BY <2>1
  <2>3. r \in Statuses /\ p \in {"none", "pending", "published", "failed"}
    BY <2>2 DEF Reported, Statuses, AfterSubmit, Typed, TypeOK
  <2>4. act' = [act EXCEPT ![s] = [[act[s] EXCEPT !.pc = "store"] EXCEPT !.answer = r]]
    BY <2>2, <1>a DEF SlotsTyped
  <2>5. SlotsTyped'
    BY ZenonT(60), <1>a, <2>3, <2>4 DEF SlotsTyped
  <2> QED
    BY <1>2, <2>1, <2>3, <2>5 DEF Submit, Typed, TypeOK, SlotsTyped, rows
<1>3. CASE StoreExecute(s)
  <2>1. SlotsTyped'
    BY <1>3, <1>f, <1>p, DoneIsOutcome DEF StoreExecute
  <2>2. job' \in Statuses
    BY <1>3 DEF StoreExecute, Allowed, Typed, TypeOK, Statuses
  <2>3. publication' \in BOOLEAN
    BY <1>3, Zenon DEF StoreExecute, Typed, TypeOK
  <2> QED
    BY <1>3, <2>1, <2>2, <2>3 DEF StoreExecute, Typed, TypeOK, SlotsTyped, external
<1>4. CASE StartReconcile(s)
  <2>1. SlotsTyped'
    BY <1>4, <1>g, <1>f, <1>p, <1>c DEF StartReconcile
  <2> QED
    BY <1>4, <2>1 DEF StartReconcile, Typed, TypeOK, SlotsTyped, rows, external
<1>5. CASE AskProvider(s)
  <2>1. SlotsTyped'
    BY <1>5, <1>g, <1>f, <1>p, <1>c DEF AskProvider
  <2> QED
    BY <1>5, <2>1 DEF AskProvider, Typed, TypeOK, SlotsTyped, rows, external
<1>6. CASE StoreReconcile(s)
  <2>1. SlotsTyped'
    BY <1>6, <1>f, <1>p, DoneIsOutcome DEF StoreReconcile
  <2>2. job' \in Statuses
    BY <1>6 DEF StoreReconcile, Typed, TypeOK, Statuses
  <2>3. publication' \in BOOLEAN
    BY <1>6, Zenon DEF StoreReconcile, Typed, TypeOK
  <2> QED
    BY <1>6, <2>1, <2>2, <2>3 DEF StoreReconcile, Typed, TypeOK, SlotsTyped, external
<1>7. CASE SubmitRaises(s)
  <2>1. SlotsTyped'
    BY <1>7, <1>f, <1>p DEF SubmitRaises
  <2>2. provider' \in {"none", "pending", "published", "failed"}
    BY <1>7 DEF SubmitRaises, AfterSubmit, Typed, TypeOK
  <2>3. faults' \in 0..MaxFaults
    BY <1>7, PublicationAssumption DEF SubmitRaises, Typed, TypeOK
  <2> QED
    BY <1>7, <2>1, <2>2, <2>3 DEF SubmitRaises, Typed, TypeOK, SlotsTyped, rows
<1>8. CASE StoreFails(s)
  <2>1. SlotsTyped'
    BY <1>8, <1>f, <1>p DEF StoreFails
  <2>3. faults' \in 0..MaxFaults
    BY <1>8, PublicationAssumption DEF StoreFails, Typed, TypeOK
  <2> QED
    BY <1>8, <2>1, <2>3 DEF StoreFails, Typed, TypeOK, SlotsTyped, rows, external
<1>9. CASE AskRaises(s)
  <2>1. SlotsTyped'
    BY <1>9, <1>f, <1>p DEF AskRaises
  <2>3. faults' \in 0..MaxFaults
    BY <1>9, PublicationAssumption DEF AskRaises, Typed, TypeOK
  <2> QED
    BY <1>9, <2>1, <2>3 DEF AskRaises, Typed, TypeOK, SlotsTyped, rows, external
<1> QED
  BY <1>1, <1>2, <1>3, <1>4, <1>5, <1>6, <1>7, <1>8, <1>9 DEF Runs

LEMMA UserIsTyped ==
  ASSUME Typed, NEW u \in Users,
         Cancel(u) \/ \E op \in {"submit", "reconcile", "cancel"} : UserCalls(u, op)
  PROVE  Typed'
<1>1. CASE Cancel(u)
  BY <1>1 DEF Cancel, Typed, TypeOK, Resting, Slots, Statuses, external
<1>2. CASE \E op \in {"submit", "reconcile", "cancel"} : UserCalls(u, op)
  BY <1>2 DEF UserCalls, Typed, TypeOK, Slots, Statuses, external, rows
<1> QED
  BY <1>1, <1>2

\* The workflow and its activities.
LEMMA WorkflowIsTyped ==
  ASSUME Typed,
         \/ Start \/ SignalCancel \/ Temporal \/ TimeOut
         \/ \E w \in Workers : Invoke(w) \/ Complete(w) \/ Return(w)
         \/ \E s \in Slots : Crash(s)
  PROVE  Typed'
<1> DEFINE Flow == [state : Ended \cup {"none", "waiting", "submit", "reconcile", "cancel"},
                    by : Workers \cup {Nobody}, tries : 0..MaxTries, due : BOOLEAN]
           Again(f) == f.by = Nobody /\ f.state \notin Ended => f.tries < MaxTries
<1>f. flow \in Flow /\ Again(flow)
  BY DEF Typed, TypeOK
<1>a. SlotsTyped
  BY DEF Typed, TypeOK, SlotsTyped
<1>g. ASSUME NEW s \in Slots, NEW pc \in Pcs \ {"complete"}, Goes(s, pc) PROVE SlotsTyped'
  BY <1>a, <1>g, SlotStepsAreTyped
<1>r. Retried \in Flow /\ Again(Retried)
  BY <1>f DEF Retried, Ended
<1>1. CASE Start \/ SignalCancel \/ ScheduledTimeComes \/ DeadlinePasses
  <2>1. flow' \in Flow /\ Again(flow')
    BY <1>1, <1>f DEF Start, SignalCancel, ScheduledTimeComes, DeadlinePasses, Ended
  <2> QED
    BY <1>1, <2>1 DEF Start, SignalCancel, ScheduledTimeComes, DeadlinePasses, Typed, TypeOK, rows, external
<1>2. CASE TimeOut
  <2>1. flow' \in Flow /\ Again(flow')
    BY <1>2, <1>r, <1>f DEF TimeOut, Ended
  <2>2. faults' \in 0..MaxFaults
    BY <1>2, PublicationAssumption DEF TimeOut, Typed, TypeOK
  <2> QED
    BY <1>2, <2>1, <2>2 DEF TimeOut, Typed, TypeOK, rows, external
<1>3. ASSUME NEW w \in Workers, Dispatch(w) PROVE Typed'
  <2>1. flow' \in Flow /\ Again(flow')
    <3>1. flow' = [[flow EXCEPT !.by = w] EXCEPT !.tries = flow.tries + 1]
      BY <1>3 DEF Dispatch
    <3>2. w # Nobody /\ flow.tries < MaxTries
      BY <1>3, <1>f, PublicationAssumption DEF Dispatch, Ended
    <3>3. flow.tries + 1 \in 0..MaxTries
      BY <3>2, <1>f, PublicationAssumption
    <3> QED
      BY <1>f, <3>1, <3>2, <3>3
  <2>2. SlotsTyped'
    BY <1>3, <1>a DEF Dispatch, SlotsTyped, Slots, Statuses
  <2> QED
    BY <1>3, <2>1, <2>2 DEF Dispatch, Typed, TypeOK, SlotsTyped, rows, external
<1>4. ASSUME NEW w \in Workers, Invoke(w) PROVE Typed'
  <2>1. SlotsTyped'
    BY <1>4, <1>g DEF Invoke, Slots, Pcs
  <2>2. record' \in [{"submit", "reconcile"} -> {"none", "EXECUTING"} \cup Outcomes]
    BY <1>4 DEF Invoke, Typed, TypeOK
  <2> QED
    BY <1>4, <2>1, <2>2 DEF Invoke, Typed, TypeOK, SlotsTyped, rows, external
<1>5. ASSUME NEW w \in Workers, Complete(w) PROVE Typed'
  <2>1. SlotsTyped'
    BY <1>5, <1>g DEF Complete, Slots, Pcs
  <2>2. act[w].answer \in Outcomes
    BY <1>5 DEF Complete, Typed, Slots
  <2>3. record' \in [{"submit", "reconcile"} -> {"none", "EXECUTING"} \cup Outcomes]
    BY <1>5, <2>2 DEF Complete, Typed, TypeOK
  <2> QED
    BY <1>5, <2>1, <2>3 DEF Complete, Typed, TypeOK, SlotsTyped, rows, external
<1>6. ASSUME NEW w \in Workers, Return(w) PROVE Typed'
  <2>1. flow' \in Flow /\ Again(flow')
    <3>1. PICK to \in {"reconcile", "COMPLETED", "FAILED"} :
            After(flow) = [[[flow EXCEPT !.by = Nobody] EXCEPT !.tries = 0] EXCEPT !.state = to]
      BY <1>f DEF After
    <3> DEFINE g == [[[flow EXCEPT !.by = Nobody] EXCEPT !.tries = 0] EXCEPT !.state = to]
    <3>3. 0 \in 0..MaxTries /\ 0 < MaxTries
      BY PublicationAssumption
    <3>4. g \in Flow /\ g.tries = 0
      BY <1>f, <3>3 DEF Ended
    <3>2. After(flow) \in Flow /\ Again(After(flow))
      BY <3>1, <3>3, <3>4
    <3> QED
      BY <1>6, <1>f, <3>2 DEF Return
  <2>2. SlotsTyped'
    BY <1>6, <1>a DEF Return, SlotsTyped, Resting, Slots, Statuses
  <2> QED
    BY <1>6, <2>1, <2>2 DEF Return, Typed, TypeOK, SlotsTyped, rows, external
<1>7. ASSUME NEW s \in Slots, Crash(s) PROVE Typed'
  <2>1. flow' \in Flow /\ Again(flow')
    BY <1>7, <1>f, <1>r DEF Crash
  <2>2. SlotsTyped'
    BY <1>7, <1>a DEF Crash, SlotsTyped, Resting, Slots, Statuses
  <2>3. faults' \in 0..MaxFaults
    BY <1>7, PublicationAssumption DEF Crash, Typed, TypeOK
  <2> QED
    BY <1>7, <2>1, <2>2, <2>3 DEF Crash, Typed, TypeOK, SlotsTyped, rows, external
<1> QED
  BY <1>1, <1>2, <1>3, <1>4, <1>5, <1>6, <1>7 DEF Temporal

LEMMA TypedNext == Typed /\ [Next]_vars => Typed'
<1> SUFFICES ASSUME Typed, [Next]_vars PROVE Typed'
  OBVIOUS
<1>1. CASE UNCHANGED vars
  BY <1>1 DEF Typed, TypeOK, vars, rows, external, Slots
<1>2. CASE Next
  BY <1>2, OutsideIsTyped, OperationIsTyped, UserIsTyped, WorkflowIsTyped DEF Next, Activity, Slots
<1> QED
  BY <1>1, <1>2

\* Every row, slot and workflow keeps its type, for any users, workers and bounds.
THEOREM TypeCorrect == Spec => []TypeOK
<1>1. Spec => []Typed
  BY TypedInit, TypedNext, PTL DEF Spec
<1>2. Typed => TypeOK
  BY DEF Typed
<1> QED
  BY <1>1, <1>2, PTL

-----------------------------------------------------------------------------
(* Safety.                                                                 *)

SlotIsSound(s) == (act[s].pc \in {"provider", "store"} => job \in Past) /\ AnswerIsTrue(s)

\* A step that leaves the job, the publication and the provider alone, and takes no slot
\* towards the provider, keeps what is known.
LEMMA QuietStep ==
  ASSUME PublicationIsSound, UNCHANGED <<job, publication, provider, sent>>,
         \A s \in Slots : act'[s] = act[s] \/ act'[s].pc \notin {"provider", "store"}
  PROVE  PublicationIsSound'
  BY DEF PublicationIsSound, AnswerIsTrue

LEMMA SoundInit == Init => PublicationIsSound
<1> SUFFICES ASSUME Init PROVE PublicationIsSound
  OBVIOUS
<1>1. \A s \in Slots : act[s].pc = "idle"
  BY DEF Init, Resting
<1>2. job = "none" /\ ~ publication /\ ~ sent
  BY Zenon DEF Init
<1> QED
  BY <1>1, <1>2 DEF PublicationIsSound, AnswerIsTrue

LEMMA OutsideIsSound ==
  ASSUME Typed, PublicationIsSound,
         \/ \E state \in {"APPROVED", "REJECTED"} : Decide(state)
         \/ BindApproval \/ ApprovalLapses \/ Outdate \/ Settle
  PROVE  PublicationIsSound'
<1>1. ASSUME NEW state \in {"APPROVED", "REJECTED"}, Decide(state) PROVE PublicationIsSound'
  <2>1. job' = job \/ (job = "none" /\ job' = "APPROVED")
    BY <1>1 DEF Decide
  <2>2. UNCHANGED <<publication, act, provider, sent>>
    BY <1>1 DEF Decide, external
  <2> QED
    BY <2>1, <2>2 DEF PublicationIsSound, AnswerIsTrue, Past
<1>2. CASE BindApproval \/ ApprovalLapses \/ Outdate
  BY <1>2, QuietStep DEF BindApproval, ApprovalLapses, Outdate, external
<1>3. CASE Settle
  BY <1>3 DEF Settle, rows, PublicationIsSound, AnswerIsTrue
<1> QED
  BY <1>1, <1>2, <1>3

\* What the operations of a slot do to the other slots, and to itself.
LEMMA OthersStay ==
  ASSUME Typed, NEW s \in Slots
  PROVE  /\ \A pc \in Pcs : Goes(s, pc) =>
              /\ act'[s].pc = pc /\ act'[s].op = act[s].op
              /\ \A t \in Slots : t # s => act'[t] = act[t]
         /\ \A outcome \in Outcomes : Finishes(s, outcome) =>
              /\ act'[s].pc \notin {"provider", "store"}
              /\ \A t \in Slots : t # s => act'[t] = act[t]
<1>1. act \in [Slots -> Slot]
  BY DEF Typed, TypeOK, Slot, Pcs, Ops
<1> QED
  BY <1>1, GoesStep, FinishesStep

LEMMA ExecuteIsSound ==
  ASSUME Typed, PublicationIsSound, NEW s \in Slots,
         StartExecute(s) \/ Submit(s) \/ SubmitRaises(s) \/ StoreExecute(s) \/ StoreFails(s)
  PROVE  PublicationIsSound'
<1>p. "FAILED_PRE_EFFECT" \in Outcomes /\ "SUCCEEDED" \in Outcomes /\ "provider" \in Pcs
  BY DEF Outcomes, Pcs
<1>1. CASE StartExecute(s)
  <2>1. UNCHANGED <<publication, provider, sent>>
    BY <1>1 DEF StartExecute, external
  <2>2. CASE job' = job /\ \E outcome \in Outcomes : Finishes(s, outcome)
    BY <2>1, <2>2, OthersStay, QuietStep
  <2>3. CASE job = "APPROVED" /\ job' = "SCHEDULED" /\ Finishes(s, "SUCCEEDED")
    BY <2>1, <2>3, <1>p, OthersStay DEF PublicationIsSound, AnswerIsTrue, Past
  <2>4. CASE Submittable /\ job # "CANCELLED" /\ Goes(s, "provider")
             /\ ~(job = "APPROVED" /\ mode = "SCHEDULE")
             /\ job' = IF job \in {"APPROVED", "SCHEDULED"} THEN "SUBMITTING" ELSE job
    <3>1. job' \in Past
      BY <2>4 DEF Submittable, Past, Typed, TypeOK, Statuses
    <3>2. job' = "PUBLISHED" <=> job = "PUBLISHED"
      BY <2>4
    <3> QED
      BY <2>1, <2>4, <3>1, <3>2, <1>p, OthersStay DEF PublicationIsSound, AnswerIsTrue
  <2> QED
    BY <1>1, <2>2, <2>3, <2>4, <1>p, DoneIsOutcome DEF StartExecute, Submittable
<1>2. CASE Submit(s)
  <2>1. PICK p \in AfterSubmit : /\ provider' = p
                                 /\ \E r \in Reported(p) : act' = [act EXCEPT ![s].pc = "store", ![s].answer = r]
    BY <1>2 DEF Submit
  <2>2. PICK r \in Reported(p) : act' = [act EXCEPT ![s].pc = "store", ![s].answer = r]
    BY <2>1
  <2>3. act' = [act EXCEPT ![s] = [[act[s] EXCEPT !.pc = "store"] EXCEPT !.answer = r]]
    BY <2>2 DEF Typed, TypeOK
  <2>4. /\ act'[s].op = "submit" /\ act'[s].answer = r
        /\ \A t \in Slots : t # s => act'[t] = act[t]
    BY <1>2, <2>3 DEF Submit, Typed, TypeOK
  <2>5. /\ r \in {"SUBMITTED", "PUBLISHED", "FAILED", "OUTCOME_UNKNOWN"}
        /\ r = "PUBLISHED" => p = "published"
        /\ provider = "published" => p = "published"
    BY DEF Reported, AfterSubmit
  <2>6. job \in Past
    BY <1>2 DEF Submit, PublicationIsSound
  <2>7. UNCHANGED <<job, publication>>
    BY <1>2 DEF Submit, rows
  <2> QED
    BY <2>1, <2>4, <2>5, <2>6, <2>7 DEF PublicationIsSound, AnswerIsTrue
<1>3. CASE SubmitRaises(s)
  <2>1. provider = "published" => provider' = "published"
    BY <1>3 DEF SubmitRaises, AfterSubmit
  <2>2. job \in Past /\ UNCHANGED <<job, publication>>
    BY <1>3 DEF SubmitRaises, PublicationIsSound, rows
  <2>3. Finishes(s, "FAILED_PRE_EFFECT")
    BY <1>3 DEF SubmitRaises
  <2> QED
    BY <2>1, <2>2, <2>3, <1>p, OthersStay DEF PublicationIsSound, AnswerIsTrue
<1>4. CASE StoreExecute(s)
  <2>1. UNCHANGED <<provider, sent>>
    BY <1>4 DEF StoreExecute, external
  <2>2. CASE Allowed(job, act[s].answer) /\ job' = act[s].answer
             /\ publication' = (publication \/ act[s].answer = "PUBLISHED")
             /\ Finishes(s, Done(act[s].answer))
    <3>1. /\ act[s].answer \in {"SUBMITTED", "PUBLISHED", "FAILED", "OUTCOME_UNKNOWN"}
          /\ act[s].answer = "PUBLISHED" => provider = "published"
      BY <1>4 DEF StoreExecute, PublicationIsSound, AnswerIsTrue
    <3>2. job' \in Past /\ job # "PUBLISHED"
      BY <2>2, <3>1 DEF Allowed, Past
    <3>3. ~ publication
      BY <3>2 DEF PublicationIsSound
    <3> QED
      BY ZenonT(60), <2>1, <2>2, <3>1, <3>2, <3>3, DoneIsOutcome, OthersStay DEF PublicationIsSound, AnswerIsTrue
  <2>3. CASE Finishes(s, "FAILED_PRE_EFFECT") /\ UNCHANGED <<job, publication>>
    BY <2>1, <2>3, <1>p, OthersStay, QuietStep
  <2> QED
    BY <1>4, <2>2, <2>3 DEF StoreExecute
<1>5. CASE StoreFails(s)
  BY <1>5, <1>p, OthersStay, QuietStep DEF StoreFails, rows, external
<1> QED
  BY <1>1, <1>2, <1>3, <1>4, <1>5

LEMMA ReconcileIsSound ==
  ASSUME Typed, PublicationIsSound, NEW s \in Slots,
         StartReconcile(s) \/ AskProvider(s) \/ AskRaises(s) \/ StoreReconcile(s)
  PROVE  PublicationIsSound'
<1>p. /\ {"FAILED_PRE_EFFECT", "SUCCEEDED", "UNKNOWN"} \subseteq Outcomes
      /\ {"provider", "store"} \subseteq Pcs
  BY DEF Outcomes, Pcs
<1>1. CASE StartReconcile(s)
  <2>1. CASE job \in {"SUBMITTED", "OUTCOME_UNKNOWN"} /\ Goes(s, "provider")
    BY <1>1, <2>1, <1>p, OthersStay DEF StartReconcile, rows, external, PublicationIsSound, AnswerIsTrue, Past
  <2>2. CASE Finishes(s, "UNKNOWN")
    BY <1>1, <2>2, <1>p, OthersStay, QuietStep DEF StartReconcile, rows, external
  <2> QED
    BY <1>1, <2>1, <2>2 DEF StartReconcile
<1>2. CASE AskProvider(s)
  <2>1. CASE provider = "published" /\ Goes(s, "store")
    <3>1. job \in Past /\ act[s].op = "reconcile"
      BY <1>2 DEF AskProvider, PublicationIsSound
    <3> QED
      BY <1>2, <2>1, <3>1, <1>p, OthersStay DEF AskProvider, rows, external, PublicationIsSound, AnswerIsTrue
  <2>2. CASE Finishes(s, "UNKNOWN")
    BY <1>2, <2>2, <1>p, OthersStay, QuietStep DEF AskProvider, rows, external
  <2> QED
    BY <1>2, <2>1, <2>2 DEF AskProvider, StatusIsPublished
<1>3. CASE StoreReconcile(s)
  <2>1. UNCHANGED <<provider, sent>>
    BY <1>3 DEF StoreReconcile, external
  <2>2. CASE UNCHANGED <<job, publication>> /\ \E outcome \in Outcomes : Finishes(s, outcome)
    BY <2>1, <2>2, OthersStay, QuietStep
  <2>3. CASE job' = "PUBLISHED" /\ publication' = TRUE /\ Finishes(s, "SUCCEEDED")
    <3>1. provider = "published"
      BY <1>3 DEF StoreReconcile, PublicationIsSound, AnswerIsTrue
    <3> QED
      BY <2>1, <2>3, <3>1, <1>p, OthersStay DEF PublicationIsSound, AnswerIsTrue, Past
  <2> QED
    BY <1>3, <2>2, <2>3, <1>p, DoneIsOutcome DEF StoreReconcile
<1>4. CASE AskRaises(s)
  BY <1>4, <1>p, OthersStay, QuietStep DEF AskRaises, rows, external
<1> QED
  BY <1>1, <1>2, <1>3, <1>4

LEMMA UserIsSound ==
  ASSUME Typed, PublicationIsSound, NEW u \in Users,
         Cancel(u) \/ \E op \in {"submit", "reconcile", "cancel"} : UserCalls(u, op)
  PROVE  PublicationIsSound'
<1>1. CASE Cancel(u)
  <2>1. UNCHANGED <<publication, provider, sent>>
    BY <1>1 DEF Cancel, external
  <2>2. \A s \in Slots : act'[s] = act[s] \/ act'[s].pc = "idle"
    BY <1>1 DEF Cancel, Resting, Typed, TypeOK
  <2>3. CASE Cancellable /\ job' = "CANCELLED"
    BY <2>1, <2>2, <2>3 DEF Cancellable, PublicationIsSound, AnswerIsTrue, Past
  <2>4. CASE job' = job
    BY <2>1, <2>2, <2>4, QuietStep
  <2> QED
    BY <1>1, <2>3, <2>4 DEF Cancel
<1>2. ASSUME NEW op \in {"submit", "reconcile", "cancel"}, UserCalls(u, op) PROVE PublicationIsSound'
  <2>1. \A s \in Slots : act'[s] = act[s] \/ act'[s].pc = "start"
    BY <1>2 DEF UserCalls, Typed, TypeOK
  <2> QED
    BY <1>2, <2>1, QuietStep DEF UserCalls, rows, external
<1> QED
  BY <1>1, <1>2

LEMMA WorkflowIsSound ==
  ASSUME Typed, PublicationIsSound,
         \/ Start \/ SignalCancel \/ Temporal \/ TimeOut
         \/ \E w \in Workers : Invoke(w) \/ Complete(w) \/ Return(w)
         \/ \E s \in Slots : Crash(s)
  PROVE  PublicationIsSound'
<1> USE DEF rows, external
<1>p. {"start", "return"} \subseteq Pcs
  BY DEF Pcs
<1>1. CASE Start \/ SignalCancel \/ ScheduledTimeComes \/ DeadlinePasses \/ TimeOut
  BY <1>1, QuietStep DEF Start, SignalCancel, ScheduledTimeComes, DeadlinePasses, TimeOut
<1>2. ASSUME NEW w \in Workers, Dispatch(w) PROVE PublicationIsSound'
  <2>1. \A s \in Slots : act'[s] = act[s] \/ act'[s].pc = "invoke"
    BY <1>2 DEF Dispatch, Typed, TypeOK
  <2> QED
    BY <1>2, <2>1, QuietStep DEF Dispatch
<1>3. ASSUME NEW w \in Workers, Invoke(w) \/ Complete(w) PROVE PublicationIsSound'
  <2>1. w \in Slots
    BY DEF Slots
  <2>2. Goes(w, "start") \/ Goes(w, "return")
    BY <1>3 DEF Invoke, Complete
  <2>3. \A s \in Slots : act'[s] = act[s] \/ act'[s].pc \in {"start", "return"}
    BY <2>1, <2>2, <1>p, OthersStay
  <2> QED
    BY <1>3, <2>3, QuietStep DEF Invoke, Complete
<1>4. ASSUME NEW w \in Workers, Return(w) PROVE PublicationIsSound'
  <2>1. \A s \in Slots : act'[s] = act[s] \/ act'[s].pc = "idle"
    BY <1>4 DEF Return, Resting, Typed, TypeOK
  <2> QED
    BY <1>4, <2>1, QuietStep DEF Return
<1>5. ASSUME NEW s \in Slots, Crash(s) PROVE PublicationIsSound'
  <2>1. \A t \in Slots : act'[t] = act[t] \/ act'[t].pc = "idle"
    BY <1>5 DEF Crash, Resting, Typed, TypeOK
  <2> QED
    BY <1>5, <2>1, QuietStep DEF Crash
<1> QED
  BY <1>1, <1>2, <1>3, <1>4, <1>5 DEF Temporal

LEMMA SoundNext == Typed /\ PublicationIsSound /\ [Next]_vars => PublicationIsSound'
<1> SUFFICES ASSUME Typed, PublicationIsSound, [Next]_vars PROVE PublicationIsSound'
  OBVIOUS
<1>1. CASE UNCHANGED vars
  BY <1>1, QuietStep DEF vars, rows, external
<1>2. CASE Next
  BY <1>2, OutsideIsSound, ExecuteIsSound, ReconcileIsSound, UserIsSound, WorkflowIsSound
     DEF Next, Runs, Activity, Slots
<1> QED
  BY <1>1, <1>2

\* The inductive invariant holds in every reachable state.
LEMMA StaysSound == Spec => [](Typed /\ PublicationIsSound)
<1>1. Init => Typed /\ PublicationIsSound
  BY TypedInit, SoundInit
<1>2. Typed /\ PublicationIsSound /\ [Next]_vars => (Typed /\ PublicationIsSound)'
  BY TypedNext, SoundNext
<1> QED
  BY <1>1, <1>2, PTL DEF Spec

\* A PUBLISHED job has its publication and its post, for any number of users and workers that
\* execute and reconcile at the same time.
THEOREM PublishedStaysTrue == Spec => []PublishedIsTrue
<1>1. PublicationIsSound => PublishedIsTrue
  BY DEF PublicationIsSound, PublishedIsTrue
<1> QED
  BY <1>1, StaysSound, PTL

\* A job that is CANCELLED was never submitted: an execution under way keeps the job where no
\* cancellation reaches it.  (A rejected draft may have been submitted before its rejection.)
THEOREM CancelledStaysUnsubmitted == Spec => []CancelledIsNeverSubmitted
<1>1. PublicationIsSound => CancelledIsNeverSubmitted
  BY DEF PublicationIsSound, CancelledIsNeverSubmitted, Past
<1> QED
  BY <1>1, StaysSound, PTL

=============================================================================
