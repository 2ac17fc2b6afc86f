------------------------- MODULE CommerceActionProofs -------------------------
(***************************************************************************)
(* The theorems about CommerceAction, for any number of proposals, orders  *)
(* and activity attempts, any bound on tries, reconciliations and faults.  *)
(***************************************************************************)
EXTENDS CommerceAction, TLAPS

-----------------------------------------------------------------------------
(* Types.  A try is left to whoever may be dispatched, and what nobody     *)
(* asked for has no workflow.                                              *)

Answered == Dispositions \cup Results \cup {"none"}
Tools    == {"mutation", "status"}
AttemptRow == [pc : Pcs, p : Proposals \cup {Nobody}, tool : Tools, answer : Answered]
FlowRow == [state : FlowStates, by : Attempts \cup {Nobody}, tries : 0..MaxTries,
            rounds : 0..MaxRounds, due : BOOLEAN]

AttemptsTyped ==
  /\ act \in [Attempts -> AttemptRow]
  /\ \A a \in Attempts : act[a].pc # "idle" => act[a].p \in Proposals
  /\ \A a \in Attempts : act[a].pc \in {"record", "complete"} => act[a].answer \in Dispositions

TryIsLeft(f) == f.by = Nobody /\ f.state \notin Ended => f.tries < MaxTries
FlowsTyped ==
  /\ flow \in [Proposals -> FlowRow]
  /\ \A p \in Proposals : TryIsLeft(flow[p])
  /\ \A p \in Proposals : approval[p] = "none" => flow[p].state = "none" /\ flow[p].by = Nobody

RowsTyped ==
  /\ approval \in [Proposals -> {"none", "PENDING", "APPROVED", "CLOSED"}]
  /\ call \in [Proposals -> RecordStates] /\ ask \in [Proposals -> RecordStates]
  /\ job \in [Proposals -> JobStatuses]
  /\ results \subseteq Proposals /\ paid \subseteq Orders
  /\ provider \in [Proposals -> {"none", "pending", "accepted", "failed"}]
  /\ sent \in [Proposals -> Nat] /\ faults \in 0..MaxFaults

Typed == AttemptsTyped /\ FlowsTyped /\ RowsTyped

LEMMA TypedInit == Init => Typed
<1> SUFFICES ASSUME Init PROVE Typed
  OBVIOUS
<1>1. AttemptsTyped
  BY DEF Init, AttemptsTyped, AttemptRow, Resting, Pcs, Tools, Answered
<1>2. FlowsTyped
  BY CommerceAssumption DEF Init, FlowsTyped, FlowRow, FlowStates, Ended, TryIsLeft
<1>3. RowsTyped
  BY CommerceAssumption DEF Init, RowsTyped, RecordStates, JobStatuses
<1> QED
  BY <1>1, <1>2, <1>3 DEF Typed

LEMMA TypedIsTypeOK == Typed => TypeOK
BY DEF Typed, AttemptsTyped, FlowsTyped, RowsTyped, TypeOK, AttemptRow, FlowRow, Tools, Answered

-----------------------------------------------------------------------------
(* How a workflow moves.                                                   *)

LEMMA RetriedRow ==
  ASSUME NEW f \in FlowRow
  PROVE  /\ Retried(f) \in FlowRow /\ TryIsLeft(Retried(f))
         /\ Retried(f).by = Nobody /\ Retried(f).state \in {f.state, "ERROR"}
<1> DEFINE to == IF f.tries < MaxTries THEN f.state ELSE "ERROR"
           g == [[f EXCEPT !.by = Nobody] EXCEPT !.state = to]
<1>1. Retried(f) = g
  BY DEF Retried, FlowRow
<1>2. to \in FlowStates
  BY DEF FlowRow, FlowStates, Ended
<1>3. to \in {f.state, "ERROR"} /\ (to \in Ended \/ f.tries < MaxTries)
  BY DEF Ended
<1>4. g \in FlowRow /\ g.by = Nobody /\ g.state = to /\ g.tries = f.tries
  <2> HIDE DEF to
  <2> QED
    BY <1>2 DEF FlowRow
<1> QED
  BY <1>1, <1>3, <1>4 DEF TryIsLeft

LEMMA AfterRow ==
  ASSUME NEW f \in FlowRow, NEW result
  PROVE  /\ After(f, result) \in FlowRow /\ TryIsLeft(After(f, result))
         /\ After(f, result).by = Nobody
         /\ After(f, result).state = "COMPLETED" => result = "SUCCEEDED"
<1> DEFINE to == CASE result = "AWAITING_APPROVAL" -> IF f.due THEN "EXPIRED" ELSE "waiting"
                   [] result = "OUTCOME_UNKNOWN" -> IF f.rounds < MaxRounds THEN "reconcile" ELSE "EXPIRED"
                   [] result = "SUCCEEDED" -> "COMPLETED"
                   [] OTHER -> "FAILED"
           rounds == IF result = "OUTCOME_UNKNOWN" /\ f.rounds < MaxRounds THEN f.rounds + 1 ELSE f.rounds
           g == [[[[f EXCEPT !.by = Nobody] EXCEPT !.tries = 0] EXCEPT !.rounds = rounds] EXCEPT !.state = to]
<1>1. After(f, result) = g
  BY DEF After, FlowRow
<1>2. to \in FlowStates /\ (to = "COMPLETED" => result = "SUCCEEDED")
  BY DEF FlowStates, Ended
<1>3. rounds \in 0..MaxRounds
  BY CommerceAssumption DEF FlowRow
<1>4. 0 \in 0..MaxTries /\ 0 < MaxTries
  BY CommerceAssumption
<1>5. g \in FlowRow /\ g.by = Nobody /\ g.state = to /\ g.tries = 0
  <2> HIDE DEF to, rounds
  <2> QED
    BY <1>2, <1>3, <1>4 DEF FlowRow
<1> HIDE DEF to, g
<1> QED
  BY <1>1, <1>2, <1>4, <1>5 DEF TryIsLeft

-----------------------------------------------------------------------------
(* How an attempt moves: every other stays where it is.                    *)

Moves(a, pc, tool, answer) ==
  /\ act' \in [Attempts -> AttemptRow]
  /\ act'[a].pc = pc /\ act'[a].p = act[a].p /\ act'[a].tool = tool /\ act'[a].answer = answer
  /\ \A b \in Attempts : b # a => act'[b] = act[b]

LEMMA GoesMoves ==
  ASSUME AttemptsTyped, NEW a \in Attempts, NEW pc \in Pcs, Goes(a, pc)
  PROVE  Moves(a, pc, act[a].tool, act[a].answer)
BY DEF AttemptsTyped, Goes, Moves, AttemptRow

LEMMA OutcomeMoves ==
  ASSUME AttemptsTyped, NEW a \in Attempts, NEW pc \in Pcs, NEW answer \in Answered, Outcome(a, pc, answer)
  PROVE  Moves(a, pc, act[a].tool, answer)
<1> DEFINE new == [[act[a] EXCEPT !.pc = pc] EXCEPT !.answer = answer]
<1>1. act' = [act EXCEPT ![a] = new]
  BY DEF Outcome
<1>2. /\ new \in AttemptRow /\ new.pc = pc /\ new.answer = answer
      /\ new.p = act[a].p /\ new.tool = act[a].tool
  BY DEF AttemptsTyped, AttemptRow
<1> QED
  BY <1>1, <1>2 DEF AttemptsTyped, Moves

LEMMA AnswersMoves ==
  ASSUME AttemptsTyped, NEW a \in Attempts, NEW answer \in Answered, Answers(a, answer)
  PROVE  Moves(a, "return", act[a].tool, answer)
<1>1. Outcome(a, "return", answer) /\ "return" \in Pcs
  BY DEF Answers, Outcome, Pcs
<1> QED
  BY <1>1, OutcomeMoves

LEMMA InvokeMoves ==
  ASSUME AttemptsTyped, NEW a \in Attempts,
         act' = [act EXCEPT ![a].pc = "prepare", ![a].tool = "mutation"]
  PROVE  Moves(a, "prepare", "mutation", act[a].answer)
<1> DEFINE new == [[act[a] EXCEPT !.pc = "prepare"] EXCEPT !.tool = "mutation"]
<1>1. act' = [act EXCEPT ![a] = new]
  OBVIOUS
<1>2. /\ new \in AttemptRow /\ new.pc = "prepare" /\ new.tool = "mutation"
      /\ new.p = act[a].p /\ new.answer = act[a].answer
  BY DEF AttemptsTyped, AttemptRow, Pcs, Tools
<1> QED
  BY <1>1, <1>2 DEF AttemptsTyped, Moves

LEMMA MovesTyped ==
  ASSUME AttemptsTyped, NEW a \in Attempts, NEW pc, NEW tool, NEW answer,
         Moves(a, pc, tool, answer), act[a].pc # "idle",
         pc \in {"record", "complete"} => answer \in Dispositions
  PROVE  AttemptsTyped'
BY DEF AttemptsTyped, Moves

LEMMA RestsTyped ==
  ASSUME AttemptsTyped, NEW a \in Attempts, act' = [act EXCEPT ![a] = Resting]
  PROVE  AttemptsTyped'
BY DEF AttemptsTyped, Resting, AttemptRow, Pcs, Tools, Answered

LEMMA AnswersOK ==
  /\ \A s : Answer(s) \in Dispositions /\ (Answer(s) = "ACCEPTED" <=> s = "accepted")
  /\ \A s : Known(s) \in Results /\ (Known(s) = "SUCCEEDED" <=> s \in {"SUCCEEDED", "RECONCILED"})
  /\ \A d : Final(d) \in RecordStates \ {"RECONCILED", "none"} /\ (Final(d) = "SUCCEEDED" <=> d = "ACCEPTED")
  /\ \A d \in Dispositions : Recorded(d) \in JobStatuses /\ (MayStart(Final(d)) <=> d = "FAILED")
  /\ Dispositions \cup Results \subseteq Answered
BY DEF Answer, Known, Final, Recorded, MayStart, Dispositions, Results, RecordStates, JobStatuses, Answered

-----------------------------------------------------------------------------
(* Every step keeps the types.                                             *)

LEMMA FlowTyped ==
  ASSUME FlowsTyped, NEW p \in Proposals, NEW g \in FlowRow,
         flow' = [flow EXCEPT ![p] = g], TryIsLeft(g), approval' = approval, approval[p] # "none"
  PROVE  FlowsTyped'
BY DEF FlowsTyped

LEMMA ReleasedTyped ==
  ASSUME FlowsTyped, NEW a \in Attempts, flow' = Released(a), approval' = approval
  PROVE  /\ FlowsTyped'
         /\ \A p \in Proposals : flow'[p] = flow[p] \/ flow'[p].state \in {flow[p].state, "ERROR"}
<1>n. a # Nobody
  BY CommerceAssumption
<1>1. ASSUME NEW p \in Proposals
      PROVE  /\ flow'[p] \in FlowRow /\ TryIsLeft(flow'[p])
             /\ approval[p] = "none" => flow'[p].state = "none" /\ flow'[p].by = Nobody
             /\ flow'[p] = flow[p] \/ flow'[p].state \in {flow[p].state, "ERROR"}
  BY <1>n, RetriedRow DEF FlowsTyped, Released
<1>2. flow' \in [Proposals -> FlowRow]
  BY <1>1 DEF Released
<1> QED
  BY <1>1, <1>2 DEF FlowsTyped

\* The steps of the request, its approval and the workflow.
LEMMA WorkflowIsTyped ==
  ASSUME Typed, NEW p \in Proposals,
         RequestAction(p) \/ StartAction(p) \/ StartIsLost(p) \/ Decide(p) \/ DeadlinePasses(p) \/ WakeUp(p)
  PROVE  Typed'
<1> USE CommerceAssumption DEF Typed, rows, external
<1>f. flow[p] \in FlowRow /\ TryIsLeft(flow[p]) /\ (flow[p].state # "none" => approval[p] # "none")
  BY DEF FlowsTyped
<1>s. \A to \in FlowStates \ Ended :
        LET g == [flow[p] EXCEPT !.state = to]
        IN  g \in FlowRow /\ g.state = to /\ g.by = flow[p].by /\ g.tries = flow[p].tries
  BY <1>f DEF FlowRow, FlowStates, Ended
<1>k. AttemptsTyped' \/ act' # act
  BY DEF AttemptsTyped
<1>1. CASE RequestAction(p)
  <2>1. RowsTyped'
    BY <1>1 DEF RequestAction, RowsTyped
  <2>2. FlowsTyped'
    <3> DEFINE g == [flow[p] EXCEPT !.state = "requested"]
    <3>1. "requested" \in FlowStates \ Ended
      BY DEF FlowStates, Ended
    <3>2. g \in FlowRow /\ g.by = flow[p].by /\ g.tries = flow[p].tries
      BY <3>1, <1>s
    <3>3. TryIsLeft(g)
      BY <3>2, <1>1, <1>f DEF RequestAction, FlowsTyped, TryIsLeft, Ended
    <3>4. flow' = [flow EXCEPT ![p] = g]
      BY <1>1 DEF RequestAction
    <3> HIDE DEF g
    <3> QED
      BY <1>1, <3>2, <3>3, <3>4 DEF RequestAction, FlowsTyped, RowsTyped
  <2> QED
    BY <1>1, <1>k, <2>1, <2>2 DEF RequestAction
<1>2. CASE StartAction(p) \/ StartIsLost(p) \/ WakeUp(p)
  <2>1. PICK to \in FlowStates \ Ended :
          flow[p].state \in {"requested", "waiting"} /\ flow' = [flow EXCEPT ![p].state = to]
    BY <1>2 DEF StartAction, StartIsLost, WakeUp, FlowStates, Ended
  <2> DEFINE g == [flow[p] EXCEPT !.state = to]
  <2>2. g \in FlowRow /\ g.by = flow[p].by /\ g.tries = flow[p].tries /\ flow' = [flow EXCEPT ![p] = g]
    BY <2>1, <1>s
  <2>3. TryIsLeft(g) /\ approval[p] # "none"
    BY <2>1, <2>2, <1>f DEF TryIsLeft, Ended
  <2>4. approval' = approval /\ act' = act
    BY <1>2 DEF StartAction, StartIsLost, WakeUp
  <2>5. RowsTyped'
    BY <1>2 DEF StartAction, StartIsLost, WakeUp, RowsTyped
  <2> HIDE DEF g
  <2> QED
    BY <2>2, <2>3, <2>4, <2>5, <1>k, FlowTyped
<1>3. CASE DeadlinePasses(p)
  <2> DEFINE g == [flow[p] EXCEPT !.due = TRUE]
  <2>1. /\ g \in FlowRow /\ g.by = flow[p].by /\ g.tries = flow[p].tries /\ g.state = flow[p].state
        /\ flow' = [flow EXCEPT ![p] = g]
    BY <1>3, <1>f DEF DeadlinePasses, FlowRow
  <2>2. TryIsLeft(g) /\ approval[p] # "none"
    BY <2>1, <1>3, <1>f DEF DeadlinePasses, TryIsLeft
  <2>3. RowsTyped' /\ approval' = approval /\ act' = act
    BY <1>3 DEF DeadlinePasses, RowsTyped
  <2> HIDE DEF g
  <2> QED
    BY <2>1, <2>2, <2>3, <1>k, FlowTyped
<1>4. CASE Decide(p)
  <2>1. RowsTyped'
    BY <1>4 DEF Decide, RowsTyped
  <2>2. FlowsTyped'
    BY <1>4 DEF Decide, FlowsTyped, RowsTyped
  <2> QED
    BY <1>4, <1>k, <2>1, <2>2 DEF Decide
<1> QED
  BY <1>1, <1>2, <1>3, <1>4

LEMMA DispatchIsTyped ==
  ASSUME Typed, NEW a \in Attempts, NEW p \in Proposals, Dispatch(a, p)
  PROVE  Typed'
<1> USE CommerceAssumption DEF Typed, rows, external
<1>1. AttemptsTyped'
  BY DEF Dispatch, AttemptsTyped, AttemptRow, Pcs, Tools, Answered
<1>2. FlowsTyped'
  <2> DEFINE g == [[flow[p] EXCEPT !.by = a] EXCEPT !.tries = flow[p].tries + 1]
  <2>1. flow[p] \in FlowRow /\ flow[p].tries < MaxTries /\ approval[p] # "none" /\ a # Nobody
    BY DEF Dispatch, FlowsTyped, TryIsLeft, Ended
  <2>2. flow[p].tries + 1 \in 0..MaxTries
    BY <2>1 DEF FlowRow
  <2>3. g \in FlowRow /\ g.by = a
    BY <2>1, <2>2 DEF FlowRow
  <2>4. flow' = [flow EXCEPT ![p] = g] /\ approval' = approval
    BY DEF Dispatch
  <2>5. TryIsLeft(g)
    BY <2>1, <2>3 DEF TryIsLeft
  <2> HIDE DEF g
  <2> QED
    BY <2>1, <2>3, <2>4, <2>5, FlowTyped
<1>3. RowsTyped'
  BY DEF Dispatch, RowsTyped
<1> QED
  BY <1>1, <1>2, <1>3

\* The steps that end or give up an attempt.
LEMMA EndingIsTyped ==
  ASSUME Typed
  PROVE  /\ \A a \in Attempts : Return(a) \/ Crash(a) \/ ConfirmRaises(a) => Typed'
         /\ \A p \in Proposals : TimeOut(p) => Typed'
<1> USE CommerceAssumption DEF Typed, rows, external
<1>1. ASSUME NEW a \in Attempts, Return(a) PROVE Typed'
  <2>1. AttemptsTyped' /\ RowsTyped'
    BY <1>1, RestsTyped DEF Return, RowsTyped
  <2>2. act[a].p \in Proposals
    BY <1>1 DEF Return, AttemptsTyped
  <2>3. FlowsTyped'
    <3>1. CASE flow' = flow
      BY <1>1, <3>1 DEF Return, FlowsTyped
    <3>2. CASE flow[act[a].p].by = a
      <4> DEFINE g == After(flow[act[a].p], act[a].answer)
      <4>1. flow' = [flow EXCEPT ![act[a].p] = g]
        BY <1>1, <3>2 DEF Return
      <4>2. g \in FlowRow /\ TryIsLeft(g)
        BY <2>2, AfterRow DEF FlowsTyped
      <4>3. approval[act[a].p] # "none"
        BY <2>2, <3>2 DEF FlowsTyped
      <4> HIDE DEF g
      <4> QED
        BY <1>1, <2>2, <4>1, <4>2, <4>3, FlowTyped DEF Return
    <3> QED
      BY <1>1, <3>1, <3>2 DEF Return
  <2> QED
    BY <2>1, <2>3
<1>2. ASSUME NEW a \in Attempts, Crash(a) \/ ConfirmRaises(a) PROVE Typed'
  <2>1. Raise(a) /\ faults' \in 0..MaxFaults
    BY <1>2 DEF Crash, ConfirmRaises, RowsTyped
  <2> QED
    BY <2>1, RestsTyped, ReleasedTyped DEF Raise, RowsTyped
<1>3. ASSUME NEW p \in Proposals, TimeOut(p) PROVE Typed'
  <2> DEFINE r == Retried(flow[p])
             e == [[flow[p] EXCEPT !.by = Nobody] EXCEPT !.state = "ERROR"]
  <2>1. flow[p] \in FlowRow /\ approval[p] # "none"
    BY <1>3 DEF TimeOut, FlowsTyped
  <2>2. r \in FlowRow /\ TryIsLeft(r)
    BY <2>1, RetriedRow
  <2>3. e \in FlowRow /\ e.state = "ERROR"
    BY <2>1 DEF FlowRow, FlowStates, Ended
  <2>4. TryIsLeft(e)
    BY <2>3 DEF TryIsLeft, Ended
  <2>5. flow' = [flow EXCEPT ![p] = r] \/ flow' = [flow EXCEPT ![p] = e]
    BY <1>3 DEF TimeOut
  <2>6. RowsTyped' /\ AttemptsTyped' /\ approval' = approval
    BY <1>3 DEF TimeOut, RowsTyped, AttemptsTyped
  <2> HIDE DEF r, e
  <2> QED
    BY <2>1, <2>2, <2>3, <2>4, <2>5, <2>6, FlowTyped
<1> QED
  BY <1>1, <1>2, <1>3

-----------------------------------------------------------------------------
(* The steps of an attempt, as moves.                                      *)

LEMMA GatewayMoves ==
  ASSUME AttemptsTyped, NEW a \in Attempts
  PROVE  /\ Invoke(a) => \/ Moves(a, "prepare", "mutation", act[a].answer)
                         \/ \E r \in Results : Moves(a, "return", act[a].tool, r)
         /\ \A d : Completes(a, d) =>
              \/ act[a].tool = "status" /\ d = "ACCEPTED" /\ Moves(a, "confirm", act[a].tool, act[a].answer)
              \/ Moves(a, "return", act[a].tool, Known(Final(d)))
<1>a. \A r \in Results : Answers(a, r) => Moves(a, "return", act[a].tool, r)
  BY AnswersMoves, AnswersOK
<1>1. ASSUME Invoke(a), ~ Moves(a, "prepare", "mutation", act[a].answer)
      PROVE  \E r \in Results : Moves(a, "return", act[a].tool, r)
  <2>1. \E r \in Results : Answers(a, r)
    <3> DEFINE p == act[a].p
               r == CASE approval[p] = "PENDING" -> "AWAITING_APPROVAL"
                      [] approval[p] = "CLOSED"  -> "FAILED"
                      [] OTHER                   -> Known(call[p])
    <3>1. Known(call[p]) \in Results
      BY AnswersOK
    <3>2. r \in Results
      BY <3>1 DEF Results
    <3>3. Answers(a, r)
      BY <1>1, InvokeMoves DEF Invoke
    <3> HIDE DEF r
    <3> QED
      BY <3>2, <3>3
  <2> QED
    BY <2>1, <1>a
<1>2. ASSUME NEW d, Completes(a, d)
      PROVE  \/ act[a].tool = "status" /\ d = "ACCEPTED" /\ Moves(a, "confirm", act[a].tool, act[a].answer)
             \/ Moves(a, "return", act[a].tool, Known(Final(d)))
  <2>1. "confirm" \in Pcs /\ Known(Final(d)) \in Results
    BY AnswersOK DEF Pcs
  <2> QED
    BY <1>2, <2>1, <1>a, GoesMoves DEF Completes
<1> QED
  BY <1>1, <1>2

LEMMA ExecutorMoves ==
  ASSUME Typed, NEW a \in Attempts
  PROVE  /\ Prepare(a) => \/ Moves(a, "begin", act[a].tool, act[a].answer)
                          \/ Moves(a, "complete", act[a].tool, "FAILED")
         /\ Begin(a) => Moves(a, "send", act[a].tool, act[a].answer)
         /\ Send(a) => Moves(a, "record", act[a].tool, Answer(provider'[act[a].p]))
         /\ Record(a) => Moves(a, "complete", act[a].tool, act[a].answer)
         /\ SendRaises(a) \/ RecordFails(a) \/ QueryRaises(a) => Moves(a, "complete", act[a].tool, "FAILED")
<1> USE DEF Typed
<1>p. {"begin", "send", "record", "complete"} \subseteq Pcs
  BY DEF Pcs
<1>f. \A pc \in Pcs : Outcome(a, pc, "FAILED") => Moves(a, pc, act[a].tool, "FAILED")
  BY OutcomeMoves DEF Answered, Dispositions
<1>1. Prepare(a) => \/ Moves(a, "begin", act[a].tool, act[a].answer)
                    \/ Moves(a, "complete", act[a].tool, "FAILED")
  BY <1>p, <1>f, GoesMoves DEF Prepare
<1>2. Begin(a) => Moves(a, "send", act[a].tool, act[a].answer)
  BY <1>p, GoesMoves DEF Begin
<1>3. ASSUME Send(a) PROVE Moves(a, "record", act[a].tool, Answer(provider'[act[a].p]))
  <2>1. act[a].p \in Proposals
    BY <1>3 DEF Send, AttemptsTyped
  <2>2. PICK s : provider' = [provider EXCEPT ![act[a].p] = s] /\ Outcome(a, "record", Answer(s))
    BY <1>3 DEF Send
  <2>3. Answer(s) \in Answered
    BY AnswersOK
  <2>4. provider'[act[a].p] = s
    BY <2>1, <2>2 DEF RowsTyped
  <2> QED
    BY <1>p, <2>2, <2>3, <2>4, OutcomeMoves
<1>4. Record(a) => Moves(a, "complete", act[a].tool, act[a].answer)
  BY <1>p, GoesMoves DEF Record
<1>5. SendRaises(a) \/ RecordFails(a) \/ QueryRaises(a) => Moves(a, "complete", act[a].tool, "FAILED")
  BY <1>p, <1>f DEF SendRaises, RecordFails, QueryRaises
<1> QED
  BY <1>1, <1>2, <1>3, <1>4, <1>5

LEMMA StatusMoves ==
  ASSUME AttemptsTyped, NEW a \in Attempts
  PROVE  /\ AskStatus(a) =>
              \/ Moves(a, "operation", act[a].tool, act[a].answer)
              \/ ask[act[a].p] = "SUCCEEDED" /\ Moves(a, "confirm", act[a].tool, act[a].answer)
              \/ Moves(a, "return", act[a].tool, Known(ask[act[a].p]))
         /\ FindOperation(a) =>
              \/ job[act[a].p] = "OUTCOME_UNKNOWN" /\ Moves(a, "query", act[a].tool, act[a].answer)
              \/ Moves(a, "complete", act[a].tool, "FAILED")
         /\ Query(a) => Moves(a, "record", act[a].tool, Answer(provider[act[a].p]))
         /\ Confirm(a) => Moves(a, "invoke", act[a].tool, act[a].answer)
<1>p. {"operation", "confirm", "query", "record", "complete", "invoke"} \subseteq Pcs
  BY DEF Pcs
<1>1. AskStatus(a) =>
        \/ Moves(a, "operation", act[a].tool, act[a].answer)
        \/ ask[act[a].p] = "SUCCEEDED" /\ Moves(a, "confirm", act[a].tool, act[a].answer)
        \/ Moves(a, "return", act[a].tool, Known(ask[act[a].p]))
  <2>1. Known(ask[act[a].p]) \in Answered
    BY AnswersOK
  <2> QED
    BY <1>p, <2>1, GoesMoves, AnswersMoves DEF AskStatus
<1>2. FindOperation(a) =>
        \/ job[act[a].p] = "OUTCOME_UNKNOWN" /\ Moves(a, "query", act[a].tool, act[a].answer)
        \/ Moves(a, "complete", act[a].tool, "FAILED")
  <2>1. "FAILED" \in Answered
    BY DEF Answered, Dispositions
  <2> QED
    BY <1>p, <2>1, GoesMoves, OutcomeMoves DEF FindOperation
<1>3. Query(a) => Moves(a, "record", act[a].tool, Answer(provider[act[a].p]))
  <2>1. Answer(provider[act[a].p]) \in Answered
    BY AnswersOK
  <2> QED
    BY <1>p, <2>1, OutcomeMoves DEF Query
<1>4. Confirm(a) => Moves(a, "invoke", act[a].tool, act[a].answer)
  BY <1>p, GoesMoves DEF Confirm
<1> QED
  BY <1>1, <1>2, <1>3, <1>4

\* The steps that only move an attempt and write rows.
Executes(a) ==
  \/ Invoke(a) \/ Prepare(a) \/ Begin(a) \/ Send(a) \/ Record(a) \/ Complete(a)
  \/ AskStatus(a) \/ FindOperation(a) \/ Query(a) \/ Confirm(a)
  \/ SendRaises(a) \/ RecordFails(a) \/ CompleteFails(a) \/ QueryRaises(a)

LEMMA ExecutesIsTyped ==
  ASSUME Typed, NEW a \in Attempts, Executes(a)
  PROVE  Typed'
<1> USE DEF Typed
<1>0. act[a].pc # "idle" /\ flow' = flow /\ approval' = approval /\ act[a].p \in Proposals
  BY DEF Executes, Invoke, Prepare, Begin, Send, Record, Complete, AskStatus, FindOperation, Query, Confirm,
         SendRaises, RecordFails, CompleteFails, QueryRaises, Completes, rows, AttemptsTyped
<1>1. FlowsTyped'
  BY <1>0 DEF FlowsTyped
<1>m. \A pc, tool, answer :
        Moves(a, pc, tool, answer) /\ (pc \in {"record", "complete"} => answer \in Dispositions) => AttemptsTyped'
  BY <1>0, MovesTyped
<1>d. /\ \A s : Answer(s) \in Dispositions
      /\ "FAILED" \in Dispositions
      /\ act[a].pc \in {"record", "complete"} => act[a].answer \in Dispositions
  BY AnswersOK DEF Dispositions, AttemptsTyped
<1>c. \A d \in Dispositions : Completes(a, d) => AttemptsTyped'
  BY <1>m, GatewayMoves
<1>r. {"EXECUTING", "RECONCILED"} \subseteq RecordStates /\ "SUBMITTING" \in JobStatuses
  BY DEF RecordStates, JobStatuses
<1>2. AttemptsTyped'
  <2>1. CASE Invoke(a)
    BY <2>1, <1>m, GatewayMoves
  <2>2. CASE Complete(a) \/ CompleteFails(a)
    BY <2>2, <1>c, <1>d DEF Complete, CompleteFails, Dispositions
  <2>3. CASE Prepare(a) \/ Begin(a) \/ Send(a) \/ Record(a) \/ SendRaises(a) \/ RecordFails(a) \/ QueryRaises(a)
    <3>1. Record(a) => act[a].pc = "record"
      BY DEF Record
    <3> QED
      BY <2>3, <3>1, <1>m, <1>d, ExecutorMoves
  <2>4. CASE AskStatus(a) \/ FindOperation(a) \/ Query(a) \/ Confirm(a)
    BY <2>4, <1>m, <1>d, StatusMoves
  <2> QED
    BY <2>1, <2>2, <2>3, <2>4 DEF Executes
<1>3. RowsTyped'
  <2> USE <1>0, <1>r, CommerceAssumption DEF RowsTyped, rows, external
  <2>1. CASE Invoke(a) \/ AskStatus(a) \/ Confirm(a)
    BY <2>1 DEF Invoke, AskStatus, Confirm
  <2>2. CASE Complete(a) \/ CompleteFails(a)
    <3>1. PICK d : Completes(a, d)
      BY <2>2 DEF Complete, CompleteFails
    <3>2. Final(d) \in RecordStates
      BY AnswersOK
    <3>3. faults' \in 0..MaxFaults
      BY <2>2 DEF Complete, CompleteFails
    <3> QED
      BY <3>1, <3>2, <3>3 DEF Completes
  <2>3. CASE Prepare(a) \/ FindOperation(a) \/ Query(a) \/ RecordFails(a) \/ QueryRaises(a)
    BY <2>3 DEF Prepare, FindOperation, Query, RecordFails, QueryRaises
  <2>4. CASE Begin(a)
    BY <2>4 DEF Begin
  <2>5. CASE Send(a) \/ SendRaises(a)
    BY <2>5 DEF Send, SendRaises
  <2>6. CASE Record(a)
    <3>1. Recorded(act[a].answer) \in JobStatuses
      BY <2>6, <1>d, AnswersOK DEF Record
    <3> QED
      BY <2>6, <3>1 DEF Record
  <2> QED
    BY <2>1, <2>2, <2>3, <2>4, <2>5, <2>6 DEF Executes
<1> QED
  BY <1>1, <1>2, <1>3

LEMMA TypedNext == Typed /\ [Next]_vars => Typed'
<1> SUFFICES ASSUME Typed, [Next]_vars PROVE Typed'
  OBVIOUS
<1>1. CASE UNCHANGED vars
  BY <1>1 DEF Typed, AttemptsTyped, FlowsTyped, RowsTyped, vars, rows, external
<1>2. ASSUME NEW p \in Proposals, Settle(p) PROVE Typed'
  BY <1>2 DEF Settle, Typed, AttemptsTyped, FlowsTyped, RowsTyped, rows
<1>3. ASSUME NEW o \in Orders, Sync(o) PROVE Typed'
  BY <1>3 DEF Sync, Typed, AttemptsTyped, FlowsTyped, RowsTyped, external
<1>4. ASSUME NEW p \in Proposals, RequestAction(p) \/ Decide(p) \/ Workflow(p) \/ StartIsLost(p) \/ TimeOut(p)
      PROVE  Typed'
  BY <1>4, WorkflowIsTyped, DispatchIsTyped, EndingIsTyped DEF Workflow
<1>5. ASSUME NEW a \in Attempts,
             \/ Attempt(a) \/ Crash(a) \/ SendRaises(a) \/ RecordFails(a) \/ CompleteFails(a) \/ QueryRaises(a)
      PROVE  Typed'
  BY <1>5, ExecutesIsTyped, EndingIsTyped DEF Attempt, Executes
<1> QED
  BY <1>1, <1>2, <1>3, <1>4, <1>5 DEF Next, Fault, Rest

\* Every row, workflow and attempt keeps its type, for any proposals, attempts and bounds: no
\* activity is tried more often than the retry policy allows, and no workflow reconciles more
\* often than its input says.
THEOREM TypeCorrect == Spec => []TypeOK
<1>1. Typed /\ [Next]_vars => Typed'
  BY TypedNext
<1> QED
  BY <1>1, TypedInit, TypedIsTypeOK, PTL DEF Spec

-----------------------------------------------------------------------------
(* What is true of every proposal and every attempt.                       *)

Done(p) == provider[p] = "accepted" /\ p \in results

\* The attempt executes the mutation behind the gateway.
Doing(a, p) ==
  /\ act[a].p = p /\ act[a].tool = "mutation"
  /\ act[a].pc \in {"prepare", "begin", "send", "record", "complete"}

\* Nobody submits the mutation again: the record admits no attempt, and one that is still
\* executing has only to report that the mutation was not refused.
Closed(p) ==
  /\ ~ MayStart(call[p])
  /\ \A a \in Attempts : Doing(a, p) => act[a].pc = "complete" /\ act[a].answer # "FAILED"

\* The idempotency record lets one attempt execute.
Exclusive ==
  \A p \in Proposals, a \in Attempts : Doing(a, p) =>
    call[p] = "EXECUTING" /\ \A b \in Attempts : Doing(b, p) => b = a

\* What an attempt brings along is so, and remains so while it is on its way.
AttemptIsSound(a) ==
  LET p  == act[a].p
      pc == act[a].pc
      answer == act[a].answer
  IN  /\ pc \in {"prepare", "begin", "send"} => act[a].tool = "mutation"
      /\ pc \in {"ask", "operation", "query"} => act[a].tool = "status"
      /\ pc = "record" /\ answer = "ACCEPTED" => provider[p] = "accepted"
      /\ pc = "complete" /\ answer = "ACCEPTED" => Done(p)
      /\ pc = "return" /\ answer = "SUCCEEDED" => Done(p)
      /\ pc = "confirm" => Done(p)
      /\ pc \in {"query", "record"} /\ act[a].tool = "status" => Closed(p)

Reported(p) ==
  \/ flow[p].state = "COMPLETED" \/ job[p] = "SUCCEEDED"
  \/ call[p] \in {"SUCCEEDED", "RECONCILED"} \/ ask[p] \in {"SUCCEEDED", "RECONCILED"}

RowsAreSound(p) ==
  /\ Reported(p) => Done(p)
  /\ p \in results => provider[p] = "accepted"
  /\ job[p] \in {"OUTCOME_UNKNOWN", "SUCCEEDED"} => Closed(p)

Sound ==
  /\ Exclusive
  /\ \A a \in Attempts : AttemptIsSound(a)
  /\ \A p \in Proposals : RowsAreSound(p)

LEMMA SoundInit == Init => Sound
BY DEF Init, Sound, Exclusive, AttemptIsSound, RowsAreSound, Reported, Doing, Resting

\* What no step undoes.
Lasts(p) ==
  /\ provider[p] = "accepted" => provider'[p] = "accepted"
  /\ Done(p) => Done(p)'
  /\ Closed(p) => Closed(p)'

\* The attempts of a step in which one of them moves.
LEMMA OthersStaySound ==
  ASSUME Typed, \A b \in Attempts : AttemptIsSound(b), \A p \in Proposals : Lasts(p),
         NEW a \in Attempts, \A b \in Attempts : b # a => act'[b] = act[b],
         AttemptIsSound(a)'
  PROVE  \A b \in Attempts : AttemptIsSound(b)'
<1> SUFFICES ASSUME NEW b \in Attempts, b # a PROVE AttemptIsSound(b)'
  OBVIOUS
<1>1. act'[b] = act[b] /\ AttemptIsSound(b)
  OBVIOUS
<1>2. act[b].pc # "idle" => Lasts(act[b].p)
  BY DEF Typed, AttemptsTyped
<1> QED
  BY <1>1, <1>2 DEF AttemptIsSound, Lasts

\* The proposals whose rows a step leaves alone.
LEMMA RowsStaySound ==
  ASSUME NEW p \in Proposals, RowsAreSound(p), Lasts(p), Reported(p)' => Reported(p) \/ Done(p)',
         p \in results' => p \in results \/ Done(p)', job'[p] = job[p]
  PROVE  RowsAreSound(p)'
BY DEF RowsAreSound, Lasts, Done

\* Where no attempt starts to execute and the record of whoever executes is left alone.
LEMMA ExclusiveStays ==
  ASSUME Exclusive,
         \A p \in Proposals, b \in Attempts : Doing(b, p)' => Doing(b, p) /\ call'[p] = call[p]
  PROVE  Exclusive'
BY DEF Exclusive

LEMMA ClosedStays ==
  ASSUME NEW p \in Proposals,
         ~ MayStart(call[p]) /\ Closed(p) => ~ MayStart(call'[p]),
         \A b \in Attempts : Doing(b, p)' => Doing(b, p) /\ (act[b].pc = "complete" => act'[b] = act[b])
  PROVE  Closed(p) => Closed(p)'
BY DEF Closed

-----------------------------------------------------------------------------
(* Steps that write no row an attempt relies on.                           *)

Asks(attempt) == attempt.pc = "ask" /\ attempt.tool = "status"

LEMMA QuietStep ==
  ASSUME Typed, Sound, UNCHANGED <<call, ask, job, results>>,
         \A p \in Proposals : provider[p] = "accepted" => provider'[p] = "accepted",
         \A b \in Attempts : act'[b] = act[b] \/ act'[b].pc \in {"idle", "invoke"} \/ Asks(act'[b]),
         \A p \in Proposals : flow'[p].state = "COMPLETED" => flow[p].state = "COMPLETED" \/ Done(p)
  PROVE  Sound'
<1>1. \A p \in Proposals, b \in Attempts : Doing(b, p)' => Doing(b, p) /\ act'[b] = act[b]
  BY DEF Doing, Asks
<1>2. Exclusive'
  BY <1>1, ExclusiveStays DEF Sound
<1>3. ASSUME NEW p \in Proposals PROVE Lasts(p)
  <2>1. Closed(p) => Closed(p)'
    BY <1>1, ClosedStays
  <2> QED
    BY <2>1 DEF Lasts, Done
<1>4. ASSUME NEW b \in Attempts PROVE AttemptIsSound(b)'
  <2>1. CASE act'[b] # act[b]
    BY <2>1 DEF AttemptIsSound, Asks
  <2>2. CASE act'[b] = act[b]
    <3>1. act[b].pc # "idle" => Lasts(act[b].p)
      BY <1>3 DEF Typed, AttemptsTyped
    <3> QED
      BY <2>2, <3>1 DEF Sound, AttemptIsSound, Lasts
  <2> QED
    BY <2>1, <2>2
<1>5. ASSUME NEW p \in Proposals PROVE RowsAreSound(p)'
  <2>1. Lasts(p) /\ RowsAreSound(p)
    BY <1>3 DEF Sound
  <2>2. Reported(p)' => Reported(p) \/ Done(p)'
    BY <2>1 DEF Reported, Lasts
  <2> QED
    BY <2>1, <2>2, RowsStaySound
<1> QED
  BY <1>2, <1>4, <1>5 DEF Sound

LEMMA OutsideIsSound ==
  ASSUME Typed, Sound, NEW p \in Proposals,
         \/ RequestAction(p) \/ StartAction(p) \/ StartIsLost(p) \/ Decide(p) \/ DeadlinePasses(p)
         \/ WakeUp(p) \/ Settle(p) \/ (\E a \in Attempts : Dispatch(a, p)) \/ TimeOut(p)
  PROVE  Sound'
<1> USE DEF rows, external
<1>f. flow \in [Proposals -> FlowRow]
  BY DEF Typed, FlowsTyped
<1>1. CASE RequestAction(p) \/ StartAction(p) \/ StartIsLost(p) \/ DeadlinePasses(p) \/ WakeUp(p)
  <2>1. \A q \in Proposals : flow'[q].state = "COMPLETED" => flow[q].state = "COMPLETED"
    BY <1>1, <1>f DEF RequestAction, StartAction, StartIsLost, DeadlinePasses, WakeUp, FlowRow
  <2> QED
    BY <1>1, <2>1, QuietStep DEF RequestAction, StartAction, StartIsLost, DeadlinePasses, WakeUp
<1>2. CASE Decide(p)
  BY <1>2, QuietStep DEF Decide
<1>3. CASE Settle(p)
  <2>1. \A q \in Proposals : provider[q] = "accepted" => provider'[q] = "accepted"
    BY <1>3 DEF Settle, Typed, RowsTyped
  <2> QED
    BY <1>3, <2>1, QuietStep DEF Settle
<1>4. ASSUME NEW a \in Attempts, Dispatch(a, p) PROVE Sound'
  <2>1. \A b \in Attempts : act'[b] = act[b] \/ act'[b].pc \in {"idle", "invoke"} \/ Asks(act'[b])
    BY <1>4 DEF Asks, Dispatch, Typed, AttemptsTyped
  <2>2. \A q \in Proposals : flow'[q].state = flow[q].state
    BY <1>4, <1>f DEF Dispatch, FlowRow
  <2> QED
    BY <1>4, <2>1, <2>2, QuietStep DEF Dispatch
<1>5. CASE TimeOut(p)
  <2>1. Retried(flow[p]).state \in {flow[p].state, "ERROR"}
    BY <1>f, RetriedRow
  <2>2. \A q \in Proposals : flow'[q].state = "COMPLETED" => flow[q].state = "COMPLETED"
    BY <1>5, <1>f, <2>1 DEF TimeOut, FlowRow
  <2> QED
    BY <1>5, <2>2, QuietStep DEF TimeOut
<1> QED
  BY <1>1, <1>2, <1>3, <1>4, <1>5

LEMMA EndingIsSound ==
  ASSUME Typed, Sound, NEW a \in Attempts, Return(a) \/ Crash(a) \/ ConfirmRaises(a)
  PROVE  Sound'
<1> USE DEF rows, external
<1>a. act' = [act EXCEPT ![a] = Resting] /\ UNCHANGED <<rows, external>>
  BY DEF Return, Crash, ConfirmRaises, Raise
<1>1. \A b \in Attempts : act'[b] = act[b] \/ act'[b].pc \in {"idle", "invoke"} \/ Asks(act'[b])
  BY <1>a DEF Resting, Typed, AttemptsTyped
<1>2. ASSUME NEW q \in Proposals, flow'[q].state = "COMPLETED"
      PROVE  flow[q].state = "COMPLETED" \/ Done(q)
  <2>1. CASE Return(a)
    <3> DEFINE g == After(flow[act[a].p], act[a].answer)
    <3>1. act[a].p \in Proposals
      BY <2>1 DEF Return, Typed, AttemptsTyped
    <3>2. flow' = flow \/ flow' = [flow EXCEPT ![act[a].p] = g]
      BY <2>1 DEF Return
    <3>3. g.state = "COMPLETED" => act[a].answer = "SUCCEEDED"
      BY <3>1, AfterRow DEF Typed, FlowsTyped
    <3>4. act[a].answer = "SUCCEEDED" => Done(act[a].p)
      BY <2>1 DEF Return, Sound, AttemptIsSound
    <3> HIDE DEF g
    <3> QED
      BY <1>2, <3>1, <3>2, <3>3, <3>4 DEF Typed, FlowsTyped
  <2>2. CASE Crash(a) \/ ConfirmRaises(a)
    <3>1. flow' = Released(a) /\ approval' = approval
      BY <2>2 DEF Crash, ConfirmRaises, Raise
    <3> QED
      BY <1>2, <3>1, ReleasedTyped DEF Typed
  <2> QED
    BY <2>1, <2>2
<1> QED
  BY <1>a, <1>1, <1>2, QuietStep

-----------------------------------------------------------------------------
(* The steps of an attempt.                                                *)

\* An attempt that moves without starting to execute leaves the record of whoever executes
\* and the closed proposals as they are.
Steady(a) ==
  /\ Exclusive'
  /\ \A q \in Proposals : Closed(q) => Closed(q)'

LEMMA SteadyStep ==
  ASSUME Typed, Sound, NEW a \in Attempts, NEW pc, NEW answer, Moves(a, pc, act[a].tool, answer),
         call' = call,
         Doing(a, act[a].p)' => Doing(a, act[a].p) /\ act[a].pc # "complete"
  PROVE  Steady(a)
<1>1. \A b \in Attempts, q \in Proposals : Doing(b, q)' => Doing(b, q) /\ (act[b].pc = "complete" => act'[b] = act[b])
  BY DEF Moves, Doing
<1>2. Exclusive'
  BY <1>1, ExclusiveStays DEF Sound
<1>3. \A q \in Proposals : Closed(q) => Closed(q)'
  BY <1>1, ClosedStays
<1> QED
  BY <1>2, <1>3 DEF Steady

LEMMA MovedIsSound ==
  ASSUME Typed, Sound, NEW a \in Attempts, Steady(a),
         \A b \in Attempts : b # a => act'[b] = act[b],
         \A q \in Proposals : provider[q] = "accepted" => provider'[q] = "accepted",
         results \subseteq results',
         (\A q \in Proposals : Lasts(q)) => AttemptIsSound(a)' /\ \A q \in Proposals : RowsAreSound(q)'
  PROVE  Sound'
<1>1. \A q \in Proposals : Lasts(q)
  BY DEF Steady, Lasts, Done
<1> QED
  BY <1>1, OthersStaySound DEF Steady, Sound

LEMMA InvokeIsSound ==
  ASSUME Typed, Sound, NEW a \in Attempts, Invoke(a)
  PROVE  Sound'
<1> DEFINE p == act[a].p
<1>p. p \in Proposals /\ AttemptIsSound(a) /\ call \in [Proposals -> RecordStates]
  BY DEF Invoke, Typed, AttemptsTyped, RowsTyped, Sound
<1>q. UNCHANGED <<ask, job, results, provider, flow>>
  BY DEF Invoke, external
<1>1. CASE MayStart(call[p]) /\ call' = [call EXCEPT ![p] = "EXECUTING"]
            /\ act' = [act EXCEPT ![a].pc = "prepare", ![a].tool = "mutation"]
  <2>m. Moves(a, "prepare", "mutation", act[a].answer)
    BY <1>1, InvokeMoves DEF Typed
  <2>1. \A b \in Attempts : ~ Doing(b, p)
    BY <1>1, <1>p DEF Sound, Exclusive, MayStart
  <2>2. \A b \in Attempts, q \in Proposals : Doing(b, q)' => (b = a /\ q = p) \/ (b # a /\ q # p /\ Doing(b, q) /\ act'[b] = act[b])
    BY <2>m, <2>1 DEF Moves, Doing
  <2>3. Exclusive'
    BY <1>1, <1>p, <2>2 DEF Sound, Exclusive
  <2>4. ASSUME NEW q \in Proposals, Closed(q) PROVE Closed(q)'
    <3>1. q # p
      BY <1>1, <2>4 DEF Closed
    <3> QED
      BY <1>1, <1>p, <2>2, <2>4, <3>1 DEF Closed
  <2>5. Steady(a)
    BY <2>3, <2>4 DEF Steady
  <2>6. ASSUME \A q \in Proposals : Lasts(q)
        PROVE  AttemptIsSound(a)' /\ \A q \in Proposals : RowsAreSound(q)'
    <3>1. AttemptIsSound(a)'
      BY <2>m DEF AttemptIsSound, Moves
    <3>2. \A q \in Proposals : Reported(q)' => Reported(q)
      BY <1>1, <1>p, <1>q DEF Reported
    <3>3. \A q \in Proposals : RowsAreSound(q)'
      BY <1>q, <2>6, <3>2, RowsStaySound DEF Sound
    <3> QED
      BY <3>1, <3>3
  <2> QED
    BY <1>q, <2>m, <2>5, <2>6, MovedIsSound DEF Moves
<1>2. CASE UNCHANGED call /\ Answers(a, CASE approval[p] = "PENDING" -> "AWAITING_APPROVAL"
                                         [] approval[p] = "CLOSED"  -> "FAILED"
                                         [] OTHER                   -> Known(call[p]))
  <2> DEFINE r == CASE approval[p] = "PENDING" -> "AWAITING_APPROVAL"
                    [] approval[p] = "CLOSED"  -> "FAILED"
                    [] OTHER                   -> Known(call[p])
  <2>1. Known(call[p]) \in Results /\ (Known(call[p]) = "SUCCEEDED" => call[p] \in {"SUCCEEDED", "RECONCILED"})
    BY AnswersOK
  <2>2. r \in Answered /\ (r = "SUCCEEDED" => Reported(p))
    BY <2>1 DEF Answered, Results, Reported
  <2>m. Moves(a, "return", act[a].tool, r)
    <3>1. Answers(a, r)
      BY <1>2
    <3> HIDE DEF r
    <3> QED
      BY <2>2, <3>1, AnswersMoves DEF Typed
  <2> HIDE DEF r
  <2>3. ~ Doing(a, p)'
    BY <2>m DEF Doing, Moves
  <2>4. Steady(a)
    BY <1>2, <2>3, <2>m, SteadyStep
  <2>5. ASSUME \A q \in Proposals : Lasts(q)
        PROVE  AttemptIsSound(a)' /\ \A q \in Proposals : RowsAreSound(q)'
    <3>1. AttemptIsSound(a)'
      <4>1. r = "SUCCEEDED" => Done(p)'
        BY <1>p, <2>2, <2>5, <2>m DEF Sound, RowsAreSound, Lasts, Moves
      <4> QED
        BY <2>m, <4>1 DEF AttemptIsSound, Moves
    <3>2. \A q \in Proposals : Reported(q)' => Reported(q)
      BY <1>2, <1>q DEF Reported
    <3>3. \A q \in Proposals : RowsAreSound(q)'
      BY <1>q, <2>5, <3>2, RowsStaySound DEF Sound
    <3> QED
      BY <3>1, <3>3
  <2> QED
    BY <1>q, <2>m, <2>4, <2>5, MovedIsSound DEF Moves
<1> QED
  BY <1>1, <1>2 DEF Invoke

\* Steps that only move an attempt, without news.
LEMMA RowsKept ==
  ASSUME Sound, UNCHANGED <<flow, call, ask, job, results>>, \A q \in Proposals : Lasts(q)
  PROVE  \A q \in Proposals : RowsAreSound(q)'
<1>1. \A q \in Proposals : Reported(q)' => Reported(q)
  BY DEF Reported
<1> QED
  BY <1>1, RowsStaySound DEF Sound

LEMMA BeforeRecordIsSound ==
  ASSUME Typed, Sound, NEW a \in Attempts, Prepare(a) \/ Begin(a) \/ Send(a) \/ SendRaises(a)
  PROVE  Sound'
<1> USE DEF rows, external
<1>p. act[a].p \in Proposals /\ AttemptIsSound(a) /\ Doing(a, act[a].p) /\ act[a].pc # "complete"
  BY DEF Prepare, Begin, Send, SendRaises, Typed, AttemptsTyped, Sound, AttemptIsSound, Doing
<1>n. ~ Closed(act[a].p)
  BY <1>p DEF Closed
<1>1. PICK pc \in Pcs, answer \in Answered :
        /\ Moves(a, pc, act[a].tool, answer)
        /\ pc \in {"begin", "send", "record", "complete"}
        /\ pc = "complete" => answer = "FAILED"
        /\ pc = "record" => provider'[act[a].p] = "accepted" \/ answer # "ACCEPTED"
  <2>1. {"begin", "send", "record", "complete"} \subseteq Pcs /\ "FAILED" \in Answered
    BY DEF Pcs, Answered, Dispositions
  <2>2. act[a].answer \in Answered
    BY DEF Typed, AttemptsTyped, AttemptRow
  <2>3. /\ Answer(provider'[act[a].p]) \in Answered
        /\ Answer(provider'[act[a].p]) = "ACCEPTED" => provider'[act[a].p] = "accepted"
    BY AnswersOK
  <2>4. \/ Moves(a, "begin", act[a].tool, act[a].answer) \/ Moves(a, "complete", act[a].tool, "FAILED")
        \/ Moves(a, "send", act[a].tool, act[a].answer)
        \/ Moves(a, "record", act[a].tool, Answer(provider'[act[a].p]))
    BY ExecutorMoves
  <2> QED
    BY <2>1, <2>2, <2>3, <2>4
<1>2. UNCHANGED <<flow, call, ask, results>>
  BY DEF Prepare, Begin, Send, SendRaises
<1>3. Steady(a)
  <2>1. Doing(a, act[a].p)' => Doing(a, act[a].p) /\ act[a].pc # "complete"
    BY <1>p
  <2> QED
    BY <1>1, <1>2, <2>1, SteadyStep
<1>4. \A q \in Proposals : provider[q] = "accepted" => provider'[q] = "accepted"
  BY DEF Prepare, Begin, Send, SendRaises, Typed, RowsTyped
<1>5. ASSUME \A q \in Proposals : Lasts(q)
      PROVE  AttemptIsSound(a)' /\ \A q \in Proposals : RowsAreSound(q)'
  <2>1. AttemptIsSound(a)'
    BY <1>p, <1>1 DEF AttemptIsSound, Moves, Doing
  <2>2. \A q \in Proposals : job'[q] = job[q] \/ job'[q] = "SUBMITTING"
    BY DEF Prepare, Begin, Send, SendRaises, Typed, RowsTyped
  <2>3. \A q \in Proposals : Reported(q)' => Reported(q)
    BY <1>2, <2>2 DEF Reported
  <2>4. \A q \in Proposals : RowsAreSound(q)'
    BY <1>2, <1>4, <1>5, <2>2, <2>3 DEF Sound, RowsAreSound, Lasts
  <2> QED
    BY <2>1, <2>4
<1> QED
  BY <1>1, <1>2, <1>3, <1>4, <1>5, MovedIsSound DEF Moves

LEMMA RecordIsSound ==
  ASSUME Typed, Sound, NEW a \in Attempts, Record(a)
  PROVE  Sound'
<1> USE DEF rows, external
<1> DEFINE p == act[a].p
           d == act[a].answer
<1>p. /\ p \in Proposals /\ AttemptIsSound(a) /\ d \in Dispositions /\ act[a].pc = "record"
      /\ job \in [Proposals -> JobStatuses] /\ RowsAreSound(p)
  BY DEF Record, Typed, AttemptsTyped, RowsTyped, Sound
<1>t. act[a].tool \in {"mutation", "status"}
  BY DEF Typed, AttemptsTyped, AttemptRow, Tools
<1>m. Moves(a, "complete", act[a].tool, d)
  BY ExecutorMoves DEF Record
<1>2. UNCHANGED <<flow, call, ask, provider>> /\ results \subseteq results'
  BY DEF Record
<1>3. Steady(a)
  <2>1. Doing(a, p)' => Doing(a, p) /\ act[a].pc # "complete"
    BY <1>p, <1>m DEF Doing, Moves
  <2> QED
    BY <1>m, <1>2, <2>1, SteadyStep
<1>4. d = "ACCEPTED" => Done(p)'
  BY <1>p, <1>m, <1>2 DEF Record, AttemptIsSound, Done, Moves
<1>5. ASSUME \A q \in Proposals : Lasts(q)
      PROVE  AttemptIsSound(a)' /\ \A q \in Proposals : RowsAreSound(q)'
  <2>1. AttemptIsSound(a)'
    BY <1>m, <1>4 DEF AttemptIsSound, Moves
  <2>2. ASSUME NEW q \in Proposals, q # p PROVE RowsAreSound(q)'
    <3>1. job'[q] = job[q] /\ (q \in results' => q \in results)
      BY <1>p, <2>2 DEF Record
    <3>2. Reported(q)' => Reported(q)
      BY <1>2, <3>1 DEF Reported
    <3> QED
      BY <1>5, <3>1, <3>2, RowsStaySound DEF Sound
  <2>3. RowsAreSound(p)'
    <3>1. job'[p] = job[p] \/ (job'[p] = Recorded(d) /\ job[p] # "SUCCEEDED")
      BY <1>p DEF Record
    <3>2. job'[p] = "SUCCEEDED" => job[p] = "SUCCEEDED" \/ d = "ACCEPTED"
      BY <1>p, <3>1 DEF Recorded, Dispositions
    <3>3. Reported(p)' => Reported(p) \/ d = "ACCEPTED"
      BY <1>2, <1>m, <3>2 DEF Reported, Moves
    <3>4. p \in results' => p \in results \/ d = "ACCEPTED"
      BY DEF Record
    <3>5. job'[p] \in {"OUTCOME_UNKNOWN", "SUCCEEDED"} => Closed(p)'
      <4>1. CASE Closed(p)
        BY <4>1, <1>p, <1>5, <1>m DEF Lasts, Moves
      <4>2. CASE ~ Closed(p)
        <5>1. act[a].tool = "mutation" /\ Doing(a, p)
          BY <4>2, <1>p, <1>t DEF AttemptIsSound, Doing
        <5>2. call[p] = "EXECUTING" /\ \A b \in Attempts : Doing(b, p) => b = a
          BY <1>p, <5>1 DEF Sound, Exclusive
        <5>3. job[p] \notin {"OUTCOME_UNKNOWN", "SUCCEEDED"}
          BY <4>2, <1>p DEF RowsAreSound
        <5>4. job'[p] \in {"OUTCOME_UNKNOWN", "SUCCEEDED"} => d # "FAILED"
          BY <3>1, <5>3 DEF Recorded
        <5>5. \A b \in Attempts : Doing(b, p)' => b = a
          BY <1>m, <5>2 DEF Doing, Moves
        <5> QED
          BY <1>2, <1>m, <5>2, <5>4, <5>5 DEF Closed, MayStart, Moves
      <4> QED
        BY <4>1, <4>2
    <3> QED
      BY <1>4, <1>5, <1>p, <1>m, <3>3, <3>4, <3>5 DEF RowsAreSound, Lasts, Done, Moves
  <2> QED
    BY <2>1, <2>2, <2>3, <1>m DEF Moves
<1> QED
  BY <1>2, <1>3, <1>5, <1>m, MovedIsSound DEF Moves

LEMMA WithoutNewsIsSound ==
  ASSUME Typed, Sound, NEW a \in Attempts,
         RecordFails(a) \/ QueryRaises(a) \/ FindOperation(a) \/ Query(a)
  PROVE  Sound'
<1> USE DEF rows, external
<1>p. /\ act[a].p \in Proposals /\ AttemptIsSound(a) /\ act[a].pc \in {"record", "query", "operation"}
      /\ RowsAreSound(act[a].p)
  BY DEF RecordFails, QueryRaises, FindOperation, Query, Typed, AttemptsTyped, Sound
<1>1. PICK pc \in Pcs, answer \in Answered :
        /\ Moves(a, pc, act[a].tool, answer)
        /\ \/ pc = "complete" /\ answer = "FAILED"
           \/ pc = "query" /\ act[a].pc = "operation" /\ job[act[a].p] = "OUTCOME_UNKNOWN"
           \/ pc = "record" /\ act[a].pc = "query" /\ answer = Answer(provider[act[a].p])
  <2>1. {"query", "record", "complete"} \subseteq Pcs /\ "FAILED" \in Answered
    BY DEF Pcs, Answered, Dispositions
  <2>2. act[a].answer \in Answered /\ Answer(provider[act[a].p]) \in Answered
    BY AnswersOK DEF Typed, AttemptsTyped, AttemptRow
  <2>3. \/ Moves(a, "complete", act[a].tool, "FAILED")
        \/ act[a].pc = "operation" /\ job[act[a].p] = "OUTCOME_UNKNOWN" /\ Moves(a, "query", act[a].tool, act[a].answer)
        \/ act[a].pc = "query" /\ Moves(a, "record", act[a].tool, Answer(provider[act[a].p]))
    BY ExecutorMoves, StatusMoves DEF Typed, FindOperation, Query
  <2> QED
    BY <2>1, <2>2, <2>3
<1>2. UNCHANGED <<flow, call, ask, job, results, provider>>
  BY DEF RecordFails, QueryRaises, FindOperation, Query
<1>3. Steady(a)
  <2>1. Doing(a, act[a].p)' => Doing(a, act[a].p) /\ act[a].pc # "complete"
    BY <1>p, <1>1 DEF Doing, Moves, AttemptIsSound
  <2> QED
    BY <1>1, <1>2, <2>1, SteadyStep
<1>4. ASSUME \A q \in Proposals : Lasts(q)
      PROVE  AttemptIsSound(a)' /\ \A q \in Proposals : RowsAreSound(q)'
  <2>1. Closed(act[a].p) => Closed(act[a].p)'
    BY <1>1, <1>p, <1>4 DEF Lasts, Moves
  <2>2. Answer(provider[act[a].p]) = "ACCEPTED" => provider[act[a].p] = "accepted"
    BY AnswersOK
  <2>3. pc \in {"query", "record"} => Closed(act[a].p) /\ act[a].tool = "status"
    BY <1>1, <1>p DEF AttemptIsSound, RowsAreSound
  <2>4. AttemptIsSound(a)'
    BY <1>p, <1>1, <1>2, <2>1, <2>2, <2>3 DEF AttemptIsSound, Moves
  <2> QED
    BY <1>2, <1>4, <2>4, RowsKept
<1> QED
  BY <1>1, <1>2, <1>3, <1>4, MovedIsSound DEF Moves

LEMMA AskIsSound ==
  ASSUME Typed, Sound, NEW a \in Attempts, AskStatus(a)
  PROVE  Sound'
<1> USE DEF rows, external
<1> DEFINE p == act[a].p
<1>p. /\ p \in Proposals /\ AttemptIsSound(a) /\ act[a].pc = "ask" /\ RowsAreSound(p)
      /\ ask \in [Proposals -> RecordStates]
  BY DEF AskStatus, Typed, AttemptsTyped, RowsTyped, Sound
<1>u. UNCHANGED <<flow, call, job, results, provider>>
  BY DEF AskStatus
<1>1. PICK pc, answer :
        /\ Moves(a, pc, act[a].tool, answer)
        /\ \/ pc = "operation" /\ act[a].tool = "status"
           \/ pc = "confirm" /\ ask[p] = "SUCCEEDED"
           \/ pc = "return" /\ (answer = "SUCCEEDED" => ask[p] \in {"SUCCEEDED", "RECONCILED"})
  <2>1. act[a].tool = "status"
    BY <1>p DEF AttemptIsSound
  <2>2. \/ Moves(a, "operation", act[a].tool, act[a].answer)
        \/ ask[p] = "SUCCEEDED" /\ Moves(a, "confirm", act[a].tool, act[a].answer)
        \/ Moves(a, "return", act[a].tool, Known(ask[p]))
    BY StatusMoves DEF Typed
  <2>3. Known(ask[p]) = "SUCCEEDED" => ask[p] \in {"SUCCEEDED", "RECONCILED"}
    BY AnswersOK
  <2> QED
    BY <2>1, <2>2, <2>3
<1>2. Steady(a)
  <2>1. ~ Doing(a, p)'
    BY <1>1 DEF Doing, Moves
  <2> QED
    BY <1>1, <1>u, <2>1, SteadyStep
<1>3. ASSUME \A q \in Proposals : Lasts(q)
      PROVE  AttemptIsSound(a)' /\ \A q \in Proposals : RowsAreSound(q)'
  <2>1. ask[p] \in {"SUCCEEDED", "RECONCILED"} => Done(p)'
    BY <1>p, <1>u, <1>1, <1>3 DEF RowsAreSound, Reported, Lasts, Moves
  <2>2. AttemptIsSound(a)'
    BY <1>1, <2>1 DEF AttemptIsSound, Moves
  <2>3. \A q \in Proposals : Reported(q)' => Reported(q)
    BY <1>u, <1>p DEF AskStatus, Reported
  <2>4. \A q \in Proposals : RowsAreSound(q)'
    BY <1>u, <1>3, <2>3, RowsStaySound DEF Sound
  <2> QED
    BY <2>2, <2>4
<1> QED
  BY <1>1, <1>u, <1>2, <1>3, MovedIsSound DEF Moves

LEMMA ConfirmIsSound ==
  ASSUME Typed, Sound, NEW a \in Attempts, Confirm(a)
  PROVE  Sound'
<1> USE DEF rows, external
<1> DEFINE p == act[a].p
<1>p. p \in Proposals /\ AttemptIsSound(a) /\ act[a].pc = "confirm" /\ call[p] = "UNKNOWN" /\ Done(p)
  BY DEF Confirm, Typed, AttemptsTyped, Sound, AttemptIsSound
<1>u. UNCHANGED <<flow, ask, job, results, provider>> /\ call' = [call EXCEPT ![p] = "RECONCILED"]
  BY DEF Confirm
<1>c. call \in [Proposals -> RecordStates]
  BY DEF Typed, RowsTyped
<1>m. Moves(a, "invoke", act[a].tool, act[a].answer)
  BY StatusMoves DEF Typed
<1>1. \A q \in Proposals, b \in Attempts : Doing(b, q)' => Doing(b, q) /\ act'[b] = act[b] /\ q # p
  BY <1>p, <1>m DEF Doing, Moves, Sound, Exclusive
<1>2. Exclusive'
  BY <1>c, <1>u, <1>1, ExclusiveStays DEF Sound
<1>3. ASSUME NEW q \in Proposals PROVE Closed(q) => Closed(q)'
  <2>1. ~ MayStart(call'[q]) \/ MayStart(call[q])
    BY <1>c, <1>u DEF MayStart
  <2> QED
    BY <1>1, <2>1, ClosedStays
<1>4. Steady(a)
  BY <1>2, <1>3 DEF Steady
<1>5. ASSUME \A q \in Proposals : Lasts(q)
      PROVE  AttemptIsSound(a)' /\ \A q \in Proposals : RowsAreSound(q)'
  <2>1. AttemptIsSound(a)'
    BY <1>m DEF AttemptIsSound, Moves
  <2>2. \A q \in Proposals : Reported(q)' => Reported(q) \/ Done(q)'
    BY <1>c, <1>u, <1>p DEF Reported, Done
  <2>3. \A q \in Proposals : RowsAreSound(q)'
    BY <1>u, <1>5, <2>2, RowsStaySound DEF Sound
  <2> QED
    BY <2>1, <2>3
<1> QED
  BY <1>m, <1>u, <1>4, <1>5, MovedIsSound DEF Moves

LEMMA CompleteIsSound ==
  ASSUME Typed, Sound, NEW a \in Attempts, Complete(a) \/ CompleteFails(a)
  PROVE  Sound'
<1> USE DEF rows, external
<1> DEFINE p == act[a].p
<1>p. p \in Proposals /\ AttemptIsSound(a) /\ act[a].pc = "complete" /\ act[a].answer \in Dispositions
  BY DEF Complete, CompleteFails, Typed, AttemptsTyped, Sound
<1>c. call \in [Proposals -> RecordStates] /\ ask \in [Proposals -> RecordStates]
  BY DEF Typed, RowsTyped
<1>1. PICK d \in Dispositions : /\ Completes(a, d)
                                /\ d = "ACCEPTED" => act[a].answer = "ACCEPTED"
                                /\ d = "FAILED" => act[a].answer = "FAILED"
  BY <1>p DEF Complete, CompleteFails, Dispositions
<1>d. d = "ACCEPTED" => Done(p)
  BY <1>1, <1>p DEF AttemptIsSound
<1>f. /\ Final(d) \in RecordStates \ {"RECONCILED", "none"}
      /\ Final(d) = "SUCCEEDED" <=> d = "ACCEPTED"
      /\ MayStart(Final(d)) <=> d = "FAILED"
      /\ Known(Final(d)) = "SUCCEEDED" => d = "ACCEPTED"
  BY AnswersOK
<1>u. UNCHANGED <<flow, job, results, provider>>
  BY <1>1 DEF Completes
<1>2. PICK pc, answer :
        /\ Moves(a, pc, act[a].tool, answer)
        /\ \/ pc = "confirm" /\ d = "ACCEPTED"
           \/ pc = "return" /\ answer = Known(Final(d))
  BY <1>1, GatewayMoves DEF Typed
<1>3. \A q \in Proposals, b \in Attempts : Doing(b, q)' => Doing(b, q) /\ act'[b] = act[b] /\ b # a
  BY <1>2 DEF Doing, Moves
<1>4. ASSUME NEW q \in Proposals, call'[q] # call[q]
      PROVE  q = p /\ Doing(a, p) /\ call'[q] = Final(d)
  BY <1>1, <1>4, <1>c, <1>p DEF Completes, Doing
<1>5. Exclusive'
  <2>1. ASSUME NEW q \in Proposals, NEW b \in Attempts, Doing(b, q)' PROVE call'[q] = call[q]
    BY <1>3, <1>4, <2>1 DEF Sound, Exclusive
  <2> QED
    BY <1>3, <2>1, ExclusiveStays DEF Sound
<1>6. ASSUME NEW q \in Proposals PROVE Closed(q) => Closed(q)'
  <2>1. ~ MayStart(call[q]) /\ Closed(q) => ~ MayStart(call'[q])
    <3>1. CASE call'[q] = call[q]
      BY <3>1
    <3>2. CASE call'[q] # call[q]
      BY <3>2, <1>1, <1>4, <1>f DEF Closed
    <3> QED
      BY <3>1, <3>2
  <2> QED
    BY <1>3, <2>1, ClosedStays
<1>7. Steady(a)
  BY <1>5, <1>6 DEF Steady
<1>8. ASSUME \A q \in Proposals : Lasts(q)
      PROVE  AttemptIsSound(a)' /\ \A q \in Proposals : RowsAreSound(q)'
  <2>1. d = "ACCEPTED" => Done(p)'
    BY <1>d, <1>p, <1>8, <1>2 DEF Lasts, Moves
  <2>2. AttemptIsSound(a)'
    BY <1>2, <1>f, <2>1 DEF AttemptIsSound, Moves
  <2>3. ASSUME NEW q \in Proposals PROVE Reported(q)' => Reported(q) \/ Done(q)'
    <3>1. call'[q] = call[q] \/ (q = p /\ call'[q] = Final(d))
      BY <1>4
    <3>2. ask'[q] = ask[q] \/ (q = p /\ ask'[q] = Final(d))
      BY <1>1, <1>c, <1>p DEF Completes
    <3>3. Final(d) \in {"SUCCEEDED", "RECONCILED"} => d = "ACCEPTED"
      BY <1>f
    <3>4. q = p /\ d = "ACCEPTED" => Done(q)'
      BY <1>d, <1>8 DEF Lasts
    <3> QED
      BY <1>u, <3>1, <3>2, <3>3, <3>4 DEF Reported
  <2>4. \A q \in Proposals : RowsAreSound(q)'
    BY <1>u, <1>8, <2>3, RowsStaySound DEF Sound
  <2> QED
    BY <2>2, <2>4
<1> QED
  BY <1>2, <1>u, <1>7, <1>8, MovedIsSound DEF Moves

LEMMA SoundNext == Typed /\ Sound /\ [Next]_vars => Sound'
<1> SUFFICES ASSUME Typed, Sound, [Next]_vars PROVE Sound'
  OBVIOUS
<1>1. CASE UNCHANGED vars
  BY <1>1, QuietStep DEF vars, rows, external
<1>2. ASSUME NEW o \in Orders, Sync(o) PROVE Sound'
  BY <1>2, QuietStep DEF Sync, external
<1>3. ASSUME NEW p \in Proposals,
             RequestAction(p) \/ Decide(p) \/ Workflow(p) \/ Settle(p) \/ StartIsLost(p) \/ TimeOut(p)
      PROVE  Sound'
  BY <1>3, OutsideIsSound DEF Workflow
<1>4. ASSUME NEW a \in Attempts,
             \/ Attempt(a) \/ Crash(a) \/ SendRaises(a) \/ RecordFails(a) \/ CompleteFails(a) \/ QueryRaises(a)
      PROVE  Sound'
  BY <1>4, InvokeIsSound, BeforeRecordIsSound, RecordIsSound, WithoutNewsIsSound, AskIsSound,
     ConfirmIsSound, CompleteIsSound, EndingIsSound DEF Attempt
<1> QED
  BY <1>1, <1>2, <1>3, <1>4 DEF Next, Fault, Rest

\* The inductive invariant holds in every reachable state.
LEMMA StaysSound == Spec => [](Typed /\ Sound)
<1>1. Init => Typed /\ Sound
  BY TypedInit, SoundInit
<1>2. Typed /\ Sound /\ [Next]_vars => (Typed /\ Sound)'
  BY TypedNext, SoundNext
<1> QED
  BY <1>1, <1>2, PTL DEF Spec

\* What the workflow, the job, the idempotency record or a result row calls a success is a
\* mutation the provider accepted, with its result row, for any number of proposals and of
\* attempts that run at the same time.
THEOREM SuccessStaysTrue == Spec => []SuccessIsTrue
<1>1. Sound => SuccessIsTrue
  BY DEF Sound, RowsAreSound, Reported, Done, SuccessIsTrue
<1> QED
  BY <1>1, StaysSound, PTL

\* Once its job says that it succeeded or that nobody knows, a mutation is never submitted
\* again: neither by an attempt Temporal gave up on nor by one it started since.
THEOREM RecordedStaysSubmittedOnce == Spec => RecordedIsNotResubmitted
<1>1. Typed /\ Sound /\ [Next]_vars =>
        [\A p \in Proposals : job[p] \in {"OUTCOME_UNKNOWN", "SUCCEEDED"} => sent'[p] = sent[p]]_vars
  <2> SUFFICES ASSUME Typed, Sound, Next, NEW p \in Proposals, job[p] \in {"OUTCOME_UNKNOWN", "SUCCEEDED"}
               PROVE  sent'[p] = sent[p]
    BY DEF vars
  <2>1. ASSUME NEW a \in Attempts, Send(a) \/ SendRaises(a) PROVE sent'[p] = sent[p]
    <3>1. act[a].p \in Proposals /\ act[a].pc = "send" /\ Doing(a, act[a].p)
      BY <2>1 DEF Send, SendRaises, Typed, AttemptsTyped, Sound, AttemptIsSound, Doing
    <3>2. act[a].p # p
      BY <3>1 DEF Sound, RowsAreSound, Closed
    <3> QED
      BY <2>1, <3>1, <3>2 DEF Send, SendRaises, Typed, RowsTyped
  <2>2. CASE \A a \in Attempts : ~ Send(a) /\ ~ SendRaises(a)
    <3>1. UNCHANGED sent
      BY <2>2 DEF Next, Fault, Rest, vars, rows, external, RequestAction, Decide, Workflow, Settle, Attempt, Sync,
         StartAction, StartIsLost, DeadlinePasses, WakeUp, Dispatch, Return, Raise, Crash, TimeOut, Invoke, Prepare,
         Begin, Record, RecordFails, Completes, Complete, CompleteFails, AskStatus, FindOperation, Query, QueryRaises,
         Confirm, ConfirmRaises
    <3> QED
      BY <3>1
  <2> QED
    BY <2>1, <2>2
<1> QED
  BY <1>1, StaysSound, PTL DEF RecordedIsNotResubmitted, Spec

=============================================================================
