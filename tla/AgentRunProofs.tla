---------------------------- MODULE AgentRunProofs ----------------------------
(***************************************************************************)
(* Proofs about AgentRun, for any runs, keys, callers, workers and bounds: *)
(* types; only the worker that claimed a run calls the provider for it;    *)
(* closed runs rest; a run's successor follows a closed run; the ledger    *)
(* implements BudgetOnce, and is what its runs say.                        *)
(***************************************************************************)
EXTENDS AgentRun, FiniteSetTheorems, TLAPS

-----------------------------------------------------------------------------
(* Types.                                                                  *)

RunRow == [status : RunStatuses,
           key : Keys \cup {RecoveryKey(r) : r \in Runs} \cup {None},
           product : Products \cup {None}, period : Periods,
           of : Runs \cup {None}, code : Codes \cup {None}, cost : Charges]
AttemptRow == [status : AttemptStatuses,
               response : Responses \cup {None}, cost : Charges, owed : {0, Reserve}]
Account == [admitted : Nat, reserved : Int, actual : Nat, unknown : Int]
Places == {"idle", "claimed", "started", "calling", "answered", "recorded", "failing", "doubting"}
Tries == 0..MaxTransport
Heard == Answers \cup {None, "unready"}
Charged == Bills \cup {0}
WorkerRow == [at : Places,
              run : Runs \cup {None}, tries : Tries, answer : Heard, bill : Charged]

\* A worker that is not idle carries a run, and one that is about to call has tries left.
Carrying ==
  \A w \in Workers :
    /\ worker[w].at # "idle" <=> worker[w].run \in Runs
    /\ worker[w].at = "idle" => worker[w].run = None
    /\ worker[w].at = "started" => worker[w].tries < MaxTransport

Typed ==
  /\ run \in [Runs -> RunRow] /\ attempt \in [Runs -> AttemptRow]
  /\ ledger \in [Periods -> Account] /\ invoiced \subseteq Runs
  /\ caller \in [Callers -> Keys \cup {None}] /\ worker \in [Workers -> WorkerRow]
  /\ period \in Periods /\ faults \in 0..MaxFaults
  /\ calls \in [Runs -> Nat] /\ billed \in [Runs -> Charges]
  /\ Carrying

LEMMA TypedIs == Typed <=> TypeOK /\ Carrying
  BY DEF Typed, TypeOK, RunRow, AttemptRow, Account, WorkerRow, Places, Tries, Heard, Charged

LEMMA Numbers ==
  /\ Reserve \in Nat \ {0} /\ MaxTransport \in Nat \ {0} /\ MaxCharge \in Nat
  /\ 0 \in Charges /\ Charged \subseteq Charges /\ Charges \subseteq Nat
  /\ 1 \in Periods /\ None \notin Runs /\ 0 \in Charged /\ 0 \in Tries
  /\ {None, "unready", "rejected"} \subseteq Heard /\ Answers \subseteq Heard /\ Tries \subseteq Nat
  BY AgentRunAssumption DEF Charges, Periods, Charged, Tries, Heard, Answers

LEMMA TypedInit == Init => Typed
<1> SUFFICES ASSUME Init PROVE Typed
  OBVIOUS
<1> USE Numbers, AgentRunAssumption DEF Init
<1>1. run \in [Runs -> RunRow]
  BY DEF Absent, RunRow, RunStatuses
<1>2. attempt \in [Runs -> AttemptRow]
  BY DEF Unclaimed, AttemptRow, AttemptStatuses
<1>3. ledger \in [Periods -> Account]
  BY DEF Account
<1>4. worker \in [Workers -> WorkerRow] /\ Carrying
  BY DEF Idle, WorkerRow, Places, Typed, Carrying
<1> QED
  BY <1>1, <1>2, <1>3, <1>4, Numbers DEF Typed


-----------------------------------------------------------------------------
(* Workers.                                                                *)

\* A worker that moves keeps its run.
Moves(w, at, tries, answer, bill) ==
  /\ worker' \in [Workers -> WorkerRow]
  /\ worker'[w].at = at /\ worker'[w].run = worker[w].run /\ worker'[w].tries = tries
  /\ worker'[w].answer = answer /\ worker'[w].bill = bill
  /\ \A v \in Workers \ {w} : worker'[v] = worker[v]

LEMMA MovesAreTyped ==
  ASSUME Typed, NEW w \in Workers, worker[w].at # "idle",
         NEW at \in Places \ {"idle"}, NEW tries, NEW answer, NEW bill,
         Moves(w, at, tries, answer, bill),
         at = "started" => tries < MaxTransport
  PROVE  worker' \in [Workers -> WorkerRow] /\ Carrying'
  BY DEF Moves, Typed, Carrying

LEMMA LeavesAreTyped ==
  ASSUME Typed, NEW w \in Workers, Leave(w)
  PROVE  worker' \in [Workers -> WorkerRow] /\ Carrying'
<1>1. Idle \in WorkerRow
  BY Numbers DEF Idle, WorkerRow, Places
<1> QED
  BY <1>1, Numbers DEF Typed, Leave, Idle, Carrying

LEMMA GotoMoves ==
  ASSUME Typed, NEW w \in Workers, NEW at \in Places, Goto(w, at)
  PROVE  Moves(w, at, 0, worker[w].answer, worker[w].bill)
  BY Numbers DEF Typed, Goto, Moves, WorkerRow

\* What a worker does that leaves the rows alone.
LEMMA ThinkingIsTyped ==
  ASSUME Typed, NEW w \in Workers,
         \/ RefuseInvocation(w) \/ \E b \in Bills \cup {0} : CallProvider(w, b)
         \/ \E a \in Answers : Answer(w, a)
         \/ TryAgain(w) \/ EndCall(w) \/ LateWorkerStops(w) \/ Crash(w)
  PROVE  Typed'
<1>0. /\ worker[w] \in WorkerRow 
      /\ worker[w].answer \in Heard /\ worker[w].bill \in Charged
      /\ worker[w].tries \in Tries
      /\ {"failing", "calling", "answered", "started"} \subseteq Places
  BY Numbers DEF Typed, WorkerRow, Places
<1>1. CASE RefuseInvocation(w)
  <2>1. PICK a \in {"rejected", "unready"} :
          worker' = [worker EXCEPT ![w].at = "failing", ![w].answer = a]
    BY <1>1 DEF RefuseInvocation
  <2>2. Moves(w, "failing", worker[w].tries, a, worker[w].bill)
    BY <1>0, <2>1, Numbers DEF Typed, Moves, WorkerRow
  <2>3. worker' \in [Workers -> WorkerRow] /\ Carrying'
    BY <1>0, <1>1, <2>2, MovesAreTyped DEF Places, RefuseInvocation, Answers
  <2> QED
    BY <1>1, <2>3 DEF RefuseInvocation, rows, Unpaid, provider, Typed
<1>2. ASSUME NEW b \in Bills \cup {0}, CallProvider(w, b) PROVE Typed'
  <2>a. worker[w].run \in Runs /\ worker[w].tries < MaxTransport
    BY <1>0, <1>2, Numbers DEF CallProvider, Typed, Carrying
  <2>0. worker[w].run \in Runs /\ worker[w].tries + 1 \in Tries
    BY <1>0, <2>a, Numbers DEF Tries
  <2>1. Moves(w, "calling", worker[w].tries + 1, worker[w].answer, b)
    BY <1>0, <1>2, <2>0 DEF Typed, CallProvider, Moves, WorkerRow, Charged
  <2>2. worker' \in [Workers -> WorkerRow] /\ Carrying'
    BY <1>0, <1>2, <2>0, <2>1, MovesAreTyped DEF Places, CallProvider
  <2>3. calls' \in [Runs -> Nat]
    <3>1. calls \in [Runs -> Nat] /\ calls[worker[w].run] + 1 \in Nat
      BY <2>0 DEF Typed
    <3> QED
      BY <1>2, <2>0, <3>1 DEF CallProvider
  <2>4. billed[worker[w].run] \in Charges /\ b \in Charges
    BY <2>0, Numbers DEF Typed, Charged
  <2>5. billed[worker[w].run] + b \in Charges
    BY <1>2, <2>4, Numbers DEF CallProvider, Charges
  <2>6. billed' \in [Runs -> Charges]
    BY <1>2, <2>0, <2>5 DEF Typed, CallProvider
  <2> QED
    BY <1>2, <2>2, <2>3, <2>6 DEF CallProvider, rows, Typed
<1>3. ASSUME NEW a \in Answers, Answer(w, a) PROVE Typed'
  <2>1. Moves(w, "answered", worker[w].tries, a, worker[w].bill)
    BY <1>0, <1>3, Numbers DEF Typed, Answer, Moves, WorkerRow
  <2>2. worker' \in [Workers -> WorkerRow] /\ Carrying'
    BY <1>0, <1>3, <2>1, MovesAreTyped DEF Places, Answer
  <2> QED
    BY <1>3, <2>2 DEF Answer, rows, Unpaid, provider, Typed
<1>4. CASE TryAgain(w)
  <2>1. Moves(w, "started", worker[w].tries, None, 0)
    BY <1>0, <1>4, Numbers DEF Typed, TryAgain, Moves, WorkerRow
  <2>2. worker' \in [Workers -> WorkerRow] /\ Carrying'
    BY <1>0, <1>4, <2>1, MovesAreTyped DEF Places, TryAgain
  <2> QED
    BY <1>4, <2>2 DEF TryAgain, rows, Unpaid, provider, Typed
<1>5. CASE EndCall(w)
  <2>1. PICK at \in {"failing", "doubting"} : Goto(w, at)
    BY <1>5 DEF EndCall
  <2>2. Moves(w, at, 0, worker[w].answer, worker[w].bill)
    BY <2>1, GotoMoves DEF Places
  <2>3. worker' \in [Workers -> WorkerRow] /\ Carrying'
    BY <1>0, <1>5, <2>2, MovesAreTyped DEF Places, EndCall
  <2> QED
    BY <1>5, <2>3 DEF EndCall, rows, Unpaid, provider, Typed
<1>6. CASE LateWorkerStops(w)
  <2>1. worker' \in [Workers -> WorkerRow] /\ Carrying'
    BY <1>6, LeavesAreTyped DEF LateWorkerStops
  <2> QED
    BY <1>6, <2>1 DEF LateWorkerStops, rows, Unpaid, provider, Typed
<1>7. CASE Crash(w)
  <2>1. worker' \in [Workers -> WorkerRow] /\ Carrying'
    BY <1>7, LeavesAreTyped DEF Crash
  <2>2. faults' \in 0..MaxFaults
    BY <1>7, AgentRunAssumption DEF Typed, Crash
  <2> QED
    BY <1>7, <2>1, <2>2 DEF Crash, rows, provider, Typed
<1> QED
  BY <1>1, <1>2, <1>3, <1>4, <1>5, <1>6, <1>7

-----------------------------------------------------------------------------
(* Rows that workers write.                                                *)

LEMMA SettledIsTyped ==
  ASSUME ledger \in [Periods -> Account], NEW p \in Periods, NEW cost \in Nat, NEW owed \in Int
  PROVE  Settled(ledger, p, cost, owed) \in [Periods -> Account]
<1> DEFINE a == ledger[p]
<1>1. /\ a \in Account /\ a.reserved - Reserve \in Int
      /\ a.actual + cost \in Nat /\ a.unknown + owed \in Int
  BY Numbers DEF Account
<1>2. [a EXCEPT !.reserved = a.reserved - Reserve, !.actual = a.actual + cost,
                !.unknown = a.unknown + owed] \in Account
  BY <1>1 DEF Account
<1>3. Settled(ledger, p, cost, owed)
        = [ledger EXCEPT ![p] = [a EXCEPT !.reserved = a.reserved - Reserve,
                                          !.actual = a.actual + cost,
                                          !.unknown = a.unknown + owed]]
  BY <1>1 DEF Settled
<1> QED
  BY <1>2, <1>3

LEMMA ReservedIsTyped ==
  ASSUME NEW l \in [Periods -> Account], NEW p \in Periods
  PROVE  Reserved(l, p) \in [Periods -> Account]
<1> DEFINE a == l[p]
<1>1. a \in Account /\ a.admitted + 1 \in Nat /\ a.reserved + Reserve \in Int
  BY Numbers DEF Account
<1>2. [a EXCEPT !.admitted = a.admitted + 1, !.reserved = a.reserved + Reserve] \in Account
  BY <1>1 DEF Account
<1>3. Reserved(l, p) = [l EXCEPT ![p] = [a EXCEPT !.admitted = a.admitted + 1,
                                                 !.reserved = a.reserved + Reserve]]
  BY <1>1 DEF Reserved
<1> QED
  BY <1>2, <1>3

LEMMA ClaimIsTyped ==
  ASSUME Typed, NEW w \in Workers, NEW r \in Runs, Claim(w, r)
  PROVE  Typed'
<1> USE DEF Claim
<1>1. run' \in [Runs -> RunRow]
  <2>1. run[r] \in RunRow /\ "RUNNING" \in RunStatuses
    BY DEF Typed, RunStatuses
  <2>2. [run[r] EXCEPT !.status = "RUNNING"] \in RunRow
    BY <2>1 DEF RunRow
  <2> QED
    BY <2>2 DEF Typed
<1>2. attempt' \in [Runs -> AttemptRow]
  <2>1. attempt[r] \in AttemptRow /\ "CLAIMED" \in AttemptStatuses
    BY DEF Typed, AttemptStatuses
  <2>2. [attempt[r] EXCEPT !.status = "CLAIMED"] \in AttemptRow
    BY <2>1 DEF AttemptRow
  <2> QED
    BY <2>2 DEF Typed
<1>3. [Idle EXCEPT !.at = "claimed", !.run = r] \in WorkerRow
  BY Numbers DEF Idle, WorkerRow, Places
<1>4. worker' \in [Workers -> WorkerRow] /\ Carrying'
  BY <1>3 DEF Typed, Idle, Carrying
<1>5. Typed'
  <2>1. /\ ledger' = ledger /\ invoiced' = invoiced /\ caller' = caller /\ period' = period
        /\ calls' = calls /\ billed' = billed /\ faults' = faults
    BY DEF provider
  <2> QED
    BY <1>1, <1>2, <1>4, <2>1 DEF Typed
<1> QED
  BY <1>5

\* What a worker writes of its run and its attempt, where it owns them.
LEMMA OwnedRowsAreTyped ==
  ASSUME Typed, NEW r \in Runs
  PROVE  /\ \A s \in AttemptStatuses : [attempt EXCEPT ![r].status = s] \in [Runs -> AttemptRow]
         /\ \A s \in AttemptStatuses, o \in {0, Reserve} :
              [attempt EXCEPT ![r] = [@ EXCEPT !.status = s, !.owed = o]] \in [Runs -> AttemptRow]
  BY DEF Typed, AttemptRow

LEMMA WritesAreTyped ==
  ASSUME Typed, NEW w \in Workers,
         MarkProviderStarted(w) \/ RecordResponse(w) \/ MarkAttemptUnknown(w)
  PROVE  Typed'
<1>0. /\ worker[w] \in WorkerRow  /\ 0 < MaxTransport
      /\ worker[w].answer \in Heard /\ worker[w].bill \in Charged
  BY Numbers DEF Typed, WorkerRow
<1>1. CASE MarkProviderStarted(w)
  <2>1. worker[w].run \in Runs /\ worker[w].at # "idle"
    BY <1>1 DEF MarkProviderStarted, Typed, Carrying
  <2>2. Moves(w, "started", 0, worker[w].answer, worker[w].bill)
    BY <1>1, GotoMoves DEF MarkProviderStarted, Places
  <2>3. worker' \in [Workers -> WorkerRow] /\ Carrying'
    BY <1>0, <2>1, <2>2, MovesAreTyped DEF Places
  <2>4. attempt' \in [Runs -> AttemptRow]
    BY <1>1, <2>1, OwnedRowsAreTyped DEF MarkProviderStarted, AttemptStatuses
  <2> QED
    BY <1>1, <2>3, <2>4
       DEF MarkProviderStarted, Unpaid, provider, Typed
<1>2. CASE RecordResponse(w)
  <2>1. worker[w].run \in Runs /\ worker[w].at # "idle"
    BY <1>2 DEF RecordResponse, Typed, Carrying
  <2>2. Moves(w, "recorded", 0, worker[w].answer, worker[w].bill)
    BY <1>2, GotoMoves DEF RecordResponse, Places
  <2>3. worker' \in [Workers -> WorkerRow] /\ Carrying'
    BY <1>0, <2>1, <2>2, MovesAreTyped DEF Places
  <2>4. attempt' \in [Runs -> AttemptRow]
    <3> DEFINE cost == IF worker[w].answer = "unmetered" THEN 0 ELSE worker[w].bill
    <3>1. cost \in Charges
      BY <1>0, Numbers
    <3>2. [attempt[worker[w].run] EXCEPT !.status = "RESPONSE_RECORDED",
                                         !.response = worker[w].answer, !.cost = cost] \in AttemptRow
      <4> HIDE DEF cost
      <4>1. worker[w].answer \in Responses /\ "RESPONSE_RECORDED" \in AttemptStatuses
        BY <1>2 DEF RecordResponse, AttemptStatuses
      <4>2. attempt[worker[w].run] \in AttemptRow
        BY <2>1 DEF Typed
      <4> QED
        BY <3>1, <4>1, <4>2 DEF AttemptRow
    <3> QED
      BY <1>2, <2>1, <3>2 DEF Typed, RecordResponse
  <2> QED
    BY <1>2, <2>3, <2>4
       DEF RecordResponse, Unpaid, provider, Typed
<1>3. CASE MarkAttemptUnknown(w)
  <2>1. worker[w].run \in Runs
    BY <1>3 DEF MarkAttemptUnknown, Typed, Carrying
  <2>2. worker' \in [Workers -> WorkerRow] /\ Carrying'
    BY <1>3, LeavesAreTyped DEF MarkAttemptUnknown
  <2>3. attempt' \in [Runs -> AttemptRow]
    BY <1>3, <2>1, OwnedRowsAreTyped DEF MarkAttemptUnknown, AttemptStatuses
  <2> QED
    BY <1>3, <2>2, <2>3
       DEF MarkAttemptUnknown, Unpaid, provider, Typed
<1> QED
  BY <1>1, <1>2, <1>3

\* How a worker closes its run, and with it its attempt and its reservation.
LEMMA FinishesAreTyped ==
  ASSUME Typed, NEW w \in Workers, FinishSuccess(w) \/ FinishFailure(w)
  PROVE  Typed'
<1> DEFINE r == worker[w].run
           answer == worker[w].answer
           bill == worker[w].bill
<1>1. /\ r \in Runs /\ run[r].period \in Periods /\ bill \in Charges /\ run[r] \in RunRow
      /\ attempt[r] \in AttemptRow
  BY Numbers DEF FinishSuccess, FinishFailure, Typed, Carrying, WorkerRow, RunRow
<1>2. worker' \in [Workers -> WorkerRow] /\ Carrying'
  BY LeavesAreTyped DEF FinishSuccess, FinishFailure
<1>3. CASE FinishSuccess(w)
  <2>1. attempt' = [attempt EXCEPT ![r].status = "SUCCEEDED"] /\ "SUCCEEDED" \in AttemptStatuses
    BY <1>3 DEF FinishSuccess, AttemptStatuses
  <2>2. attempt' \in [Runs -> AttemptRow]
    BY <1>1, <2>1, OwnedRowsAreTyped
  <2>3. run' = [run EXCEPT ![r].status = "SUCCEEDED", ![r].cost = bill] /\ "SUCCEEDED" \in RunStatuses
    BY <1>3 DEF FinishSuccess, RunStatuses
  <2>4. run' \in [Runs -> RunRow]
    BY <1>1, <2>3 DEF Typed, RunRow
  <2>5. ledger' \in [Periods -> Account]
    <3>1. ledger' = Settled(ledger, run[r].period, bill, 0)
      BY <1>3 DEF FinishSuccess
    <3>2. bill \in Nat /\ ledger \in [Periods -> Account]
      BY <1>1, Numbers DEF Typed
    <3> QED
      BY <1>1, <3>1, <3>2, SettledIsTyped
  <2> QED
    BY <1>2, <1>3, <2>2, <2>4, <2>5 DEF FinishSuccess, Unpaid, provider, Typed
<1>4. CASE FinishFailure(w)
  <2> DEFINE cost == IF answer \in {"completed", "cut"} THEN bill ELSE 0
             owed == IF answer = "unmetered" THEN Reserve ELSE 0
  <2>a. cost \in Charges
    BY <1>1, Numbers
  <2>b. owed \in {0, Reserve} /\ 0 \in Int /\ Reserve \in Int
    BY Numbers
  <2>0. cost \in Charges /\ owed \in {0, Reserve} /\ owed \in Int /\ cost \in Nat
    BY <2>a, <2>b, Numbers
  <2>1. /\ attempt' = [attempt EXCEPT ![r].status = FailedAttempt(answer), ![r].owed = owed]
        /\ run' = [run EXCEPT ![r].status = "FAILED", ![r].code = FailureCode(answer),
                              ![r].cost = cost]
        /\ ledger' = Settled(ledger, run[r].period, cost, owed)
    BY <1>4 DEF FinishFailure
  <2> HIDE DEF cost, owed
  <2>2. FailedAttempt(answer) \in AttemptStatuses /\ FailureCode(answer) \in Codes
    BY DEF FailedAttempt, FailureCode, AttemptStatuses, Codes
  <2>3. attempt' \in [Runs -> AttemptRow]
    BY <1>1, <2>0, <2>1, <2>2 DEF Typed, AttemptRow
  <2>4. [run[r] EXCEPT !.status = "FAILED", !.code = FailureCode(answer), !.cost = cost] \in RunRow
    BY <1>1, <2>0, <2>2 DEF RunRow, RunStatuses
  <2>5. run' \in [Runs -> RunRow]
    BY <1>1, <2>1, <2>4 DEF Typed
  <2>6. ledger' \in [Periods -> Account]
    BY <1>1, <2>0, <2>1, SettledIsTyped DEF Typed
  <2> QED
    BY <1>2, <1>4, <2>3, <2>5, <2>6 DEF FinishFailure, Unpaid, provider, Typed
<1> QED
  BY <1>3, <1>4

-----------------------------------------------------------------------------
(* Rows that admissions and operators write.                               *)

\* A run that is inserted is well typed.
LEMMA PendingIsTyped ==
  ASSUME Typed, NEW k \in Keys \cup {RecoveryKey(r) : r \in Runs}, NEW p \in Products \cup {None},
         NEW of \in Runs \cup {None}
  PROVE  /\ Pending(k, p, of) \in RunRow
         /\ Pending(k, p, of).status = "PENDING" /\ Pending(k, p, of).of = of
         /\ Pending(k, p, of).period = period
  BY Numbers DEF Pending, Absent, Typed, RunRow, RunStatuses

LEMMA AdmissionIsTyped ==
  ASSUME Typed, Admission
  PROVE  Typed'
<1>1. ASSUME NEW c \in Callers, NEW k \in Keys, Request(c, k) PROVE Typed'
  BY <1>1 DEF Request, Typed, rows, provider, Carrying
<1>2. ASSUME NEW c \in Callers, NEW r \in Runs, Admit(c, r) PROVE Typed'
  <2>1. caller[c] \in Keys /\ ProductOf[caller[c]] \in Products
    BY <1>2 DEF Admit, Typed, Products
  <2>2. run' \in [Runs -> RunRow]
    BY <1>2, <2>1, PendingIsTyped DEF Admit, Typed
  <2>3. ledger' \in [Periods -> Account]
    BY <1>2, ReservedIsTyped DEF Admit, Typed
  <2> QED
    BY <1>2, <2>2, <2>3 DEF Admit, Typed, provider, Carrying
<1>3. ASSUME NEW c \in Callers, GiveUp(c) PROVE Typed'
  BY <1>3 DEF GiveUp, Typed, rows, provider, Carrying
<1> QED
  BY <1>1, <1>2, <1>3 DEF Admission

\* A stranded run that is given up: its row, its attempt and its reservation.
LEMMA AbandoningIsTyped ==
  ASSUME Typed, NEW r \in Runs, CanAbandon(r)
  PROVE  /\ AbandonedRun(r) \in RunRow
         /\ AbandonedRun(r).status = "FAILED" /\ AbandonedRun(r).code = StrandedCode(r)
         /\ AbandonedRun(r).cost = AbandonedCost(r)
         /\ AbandonedRun(r).key = run[r].key /\ AbandonedRun(r).product = run[r].product
         /\ AbandonedRun(r).period = run[r].period /\ AbandonedRun(r).of = run[r].of
         /\ AbandonAttempt(r) => attempt' \in [Runs -> AttemptRow]
         /\ AbandonedLedger(r) \in [Periods -> Account]
<1>1. /\ StrandedCode(r) \in Codes /\ AbandonedCost(r) \in Charges
      /\ AbandonedAttempt(r) \in AttemptStatuses /\ AbandonedOwed(r) \in {0, Reserve}
  BY Numbers DEF StrandedCode, Codes, StrandedCodes, AbandonedCost, AbandonedAttempt,
                 AttemptStatuses, AbandonedOwed, Typed, AttemptRow
<1>2. run[r] \in RunRow /\ run[r].period \in Periods /\ "FAILED" \in RunStatuses
  BY DEF Typed, RunRow, RunStatuses
<1>3. /\ AbandonedRun(r) \in RunRow
      /\ AbandonedRun(r).status = "FAILED" /\ AbandonedRun(r).code = StrandedCode(r)
      /\ AbandonedRun(r).cost = AbandonedCost(r)
      /\ AbandonedRun(r).key = run[r].key /\ AbandonedRun(r).product = run[r].product
      /\ AbandonedRun(r).period = run[r].period /\ AbandonedRun(r).of = run[r].of
  BY <1>1, <1>2 DEF AbandonedRun, RunRow
<1>4. AbandonAttempt(r) => attempt' \in [Runs -> AttemptRow]
  <2>1. [attempt EXCEPT ![r] = [@ EXCEPT !.status = AbandonedAttempt(r), !.owed = AbandonedOwed(r)]]
          \in [Runs -> AttemptRow]
    BY <1>1, OwnedRowsAreTyped
  <2> QED
    BY <2>1 DEF AbandonAttempt
<1>5. AbandonedLedger(r) \in [Periods -> Account]
  <2>1. /\ AbandonedCost(r) \in Nat /\ AbandonedOwed(r) \in Int
        /\ ledger \in [Periods -> Account] /\ run[r].period \in Periods
    <3>1. AbandonedCost(r) \in Nat
      BY <1>1, Numbers
    <3>2. AbandonedOwed(r) \in Int
      BY <1>1, Numbers
    <3> QED
      BY <1>2, <3>1, <3>2 DEF Typed
  <2> QED
    BY <2>1, SettledIsTyped DEF AbandonedLedger
<1> QED
  BY <1>3, <1>4, <1>5

LEMMA RecoveryIsTyped ==
  ASSUME Typed, NEW r \in Runs, Recovery(r)
  PROVE  Typed'
<1>0. RecoveryKey(r) \in {RecoveryKey(s) : s \in Runs} /\ run[r].product \in Products \cup {None}
  BY DEF Typed, RunRow
<1>1. CASE Abandon(r)
  <2>1. /\ AbandonedRun(r) \in RunRow /\ attempt' \in [Runs -> AttemptRow]
        /\ ledger' \in [Periods -> Account] /\ run' = [run EXCEPT ![r] = AbandonedRun(r)]
    BY <1>1, AbandoningIsTyped DEF Abandon
  <2>2. run' \in [Runs -> RunRow]
    BY <2>1 DEF Typed
  <2> QED
    BY <1>1, <2>1, <2>2 DEF Abandon, Typed, provider, Carrying
<1>2. CASE ReconcileUnknownCost(r)
  <2> DEFINE p == run[r].period
             a == ledger[p]
  <2>1. /\ p \in Periods /\ a \in Account /\ attempt[r].owed \in Nat /\ billed[r] \in Nat
        /\ a.unknown - attempt[r].owed \in Int /\ a.actual + billed[r] \in Nat
    <3>1. p \in Periods /\ a \in Account /\ a.unknown \in Int /\ a.actual \in Nat
      BY DEF Typed, RunRow, Account
    <3>2. attempt[r].owed \in Nat /\ billed[r] \in Nat
      BY Numbers DEF Typed, AttemptRow
    <3> QED
      BY <3>1, <3>2
  <2>2. ledger' = [ledger EXCEPT ![p] = [[a EXCEPT !.unknown = a.unknown - attempt[r].owed]
                                            EXCEPT !.actual = a.actual + billed[r]]]
    BY <1>2, <2>1 DEF ReconcileUnknownCost, Typed, Account
  <2>3. [[a EXCEPT !.unknown = a.unknown - attempt[r].owed]
            EXCEPT !.actual = a.actual + billed[r]] \in Account
    BY <2>1 DEF Account
  <2>4. ledger' \in [Periods -> Account]
    BY <2>1, <2>2, <2>3 DEF Typed
  <2> QED
    BY <1>2, <2>4 DEF ReconcileUnknownCost, Typed, provider, Carrying
<1>3. ASSUME NEW s \in Runs, RerunStranded(r, s) PROVE Typed'
  <2>1. /\ AbandonedRun(r) \in RunRow /\ attempt' \in [Runs -> AttemptRow]
        /\ AbandonedLedger(r) \in [Periods -> Account]
    BY <1>3, AbandoningIsTyped DEF RerunStranded
  <2>2. run' \in [Runs -> RunRow]
    BY <1>0, <1>3, <2>1, PendingIsTyped DEF RerunStranded, Typed
  <2>3. ledger' \in [Periods -> Account]
    BY <1>3, <2>1, ReservedIsTyped DEF RerunStranded, Typed
  <2> QED
    BY <1>3, <2>1, <2>2, <2>3 DEF RerunStranded, Typed, provider, Carrying
<1>4. ASSUME NEW s \in Runs, RerunKnownFailure(r, s) PROVE Typed'
  <2>1. run' \in [Runs -> RunRow]
    BY <1>0, <1>4, PendingIsTyped DEF RerunKnownFailure, Typed
  <2>2. ledger' \in [Periods -> Account]
    BY <1>4, ReservedIsTyped DEF RerunKnownFailure, Typed
  <2> QED
    BY <1>4, <2>1, <2>2 DEF RerunKnownFailure, Typed, provider, Carrying
<1> QED
  BY <1>1, <1>2, <1>3, <1>4 DEF Recovery

LEMMA StaysTyped == Typed /\ [Next]_vars => Typed'
<1> SUFFICES ASSUME Typed, [Next]_vars PROVE Typed'
  OBVIOUS
<1>1. CASE Admission
  BY <1>1, AdmissionIsTyped
<1>2. ASSUME NEW w \in Workers, NEW r \in Runs, Claim(w, r) PROVE Typed'
  BY <1>2, ClaimIsTyped
<1>3. ASSUME NEW w \in Workers, Execute(w) \/ Crash(w) PROVE Typed'
  BY <1>3, ThinkingIsTyped, WritesAreTyped, FinishesAreTyped DEF Execute
<1>4. ASSUME NEW r \in Runs, Recovery(r) PROVE Typed'
  BY <1>4, RecoveryIsTyped
<1>5. CASE NextPeriod
  <2>1. period' \in Periods
    BY <1>5, AgentRunAssumption DEF NextPeriod, Typed, Periods
  <2> QED
    BY <1>5, <2>1 DEF NextPeriod, Typed, rows, provider, Carrying
<1>6. CASE UNCHANGED vars
  BY <1>6 DEF vars, rows, provider, Typed, Carrying
<1> QED
  BY <1>1, <1>2, <1>3, <1>4, <1>5, <1>6 DEF Next

\* Every row, and what every worker and every caller holds of it, is well typed in every
\* reachable state, for any number of runs, workers, callers and periods.
THEOREM TypeCorrect == Spec => []TypeOK
<1>1. Init => Typed
  BY TypedInit
<1>2. Typed /\ [Next]_vars => Typed'
  BY StaysTyped
<1>3. Typed => TypeOK
  BY TypedIs
<1> QED
  BY <1>1, <1>2, <1>3, PTL DEF Spec

-----------------------------------------------------------------------------
(* Runs and those who carry them.                                          *)

\* What the charge of a closed run may be.
ChargeIsTrue(r) ==
  \/ attempt[r].status \in {"SUCCEEDED", "FAILED_RESPONSE"} /\ attempt[r].owed = 0
     /\ run[r].cost = billed[r]
  \/ attempt[r].status = "FAILED_NO_RESPONSE" /\ billed[r] = 0
  \/ attempt[r].owed = Reserve

\* What the rows of a run say of its inferences.
RunIsSound(r) ==
  /\ run[r].status \in {"NONE", "PENDING"} <=> attempt[r].status = "NONE"
  /\ attempt[r].status \in {"NONE", "CLAIMED"} => calls[r] = 0
  /\ calls[r] = 0 => billed[r] = 0
  /\ calls[r] <= MaxTransport
  /\ attempt[r].status \in {"NONE", "CLAIMED", "PROVIDER_STARTED", "RESPONSE_RECORDED"}
       => attempt[r].owed = 0
  /\ attempt[r].status = "UNKNOWN" => attempt[r].owed = Reserve
  /\ attempt[r].status = "RESPONSE_RECORDED" /\ attempt[r].response = "completed"
     /\ calls[r] <= 1 => attempt[r].cost = billed[r]
  /\ Terminal(r) => attempt[r].status \notin {"CLAIMED", "PROVIDER_STARTED", "RESPONSE_RECORDED"}
  /\ Terminal(r) /\ calls[r] <= 1 => ChargeIsTrue(r)
  /\ r \in invoiced => run[r].status = "FAILED"

\* What a worker knows of its run, however far it is and whoever closed the run meanwhile.
WorkerIsSound(w) ==
  LET r == worker[w].run
      at == worker[w].at
  IN  at # "idle" =>
        /\ run[r].status \notin {"NONE", "PENDING"}
        /\ at = "claimed" => calls[r] = 0
        /\ at \in {"started", "calling", "answered"} => calls[r] = worker[w].tries
        /\ at \in {"started", "calling", "answered", "doubting"} =>
             attempt[r].status \in {"PROVIDER_STARTED", "UNKNOWN"}
        /\ at \in {"calling", "answered", "recorded"} /\ calls[r] <= 1 =>
             billed[r] = worker[w].bill
        /\ at = "answered" /\ worker[w].answer = "rejected" => worker[w].bill = 0
        /\ at = "recorded" => worker[w].answer \in Responses
        /\ at = "failing" => worker[w].answer \in {"rejected", "unready"}
                             /\ (calls[r] <= 1 => billed[r] = 0)

Alone ==
  \A v, w \in Workers : worker[v].run = worker[w].run /\ worker[v].run # None => v = w

Sound ==
  /\ \A r \in Runs : RunIsSound(r)
  /\ \A w \in Workers : WorkerIsSound(w)
  /\ Alone

\* What a step of w leaves of everything that is not about its run.
Aside(w, r) ==
  /\ \A s \in Runs \ {r} : /\ run'[s] = run[s] /\ attempt'[s] = attempt[s]
                           /\ calls'[s] = calls[s] /\ billed'[s] = billed[s]
  /\ invoiced' = invoiced
  /\ \A v \in Workers \ {w} : worker'[v] = worker[v]
  /\ worker'[w].run \in {r, None}

LEMMA AsideIsSound ==
  ASSUME Typed, Typed', Sound, NEW w \in Workers, NEW r \in Runs, Aside(w, r),
         \A v \in Workers \ {w} : worker[v].run # r,
         RunIsSound(r)', WorkerIsSound(w)'
  PROVE  Sound'
<1>1. ASSUME NEW s \in Runs PROVE RunIsSound(s)'
  BY DEF Aside, Sound, RunIsSound, ChargeIsTrue, Terminal
<1>2. ASSUME NEW v \in Workers PROVE WorkerIsSound(v)'
  <2>1. CASE v = w
    BY <2>1
  <2>2. CASE v # w
    <3>1. worker'[v] = worker[v] /\ worker[v].run # r /\ WorkerIsSound(v)
      BY <2>2 DEF Aside, Sound
    <3>2. worker[v].at # "idle" => worker[v].run \in Runs \ {r}
      BY <3>1 DEF Typed, Carrying
    <3> QED
      BY <3>1, <3>2 DEF Aside, WorkerIsSound
  <2> QED
    BY <2>1, <2>2
<1>3. Alone'
  BY DEF Aside, Sound, Alone
<1> QED
  BY <1>1, <1>2, <1>3 DEF Sound

LEMMA SoundInit == Init => Sound
<1> SUFFICES ASSUME Init PROVE Sound
  OBVIOUS
<1>1. \A r \in Runs : RunIsSound(r)
  BY Numbers DEF Init, Absent, Unclaimed, RunIsSound, Terminal
<1>2. (\A w \in Workers : WorkerIsSound(w)) /\ Alone
  BY DEF Init, Idle, WorkerIsSound, Alone
<1> QED
  BY <1>1, <1>2 DEF Sound

LEMMA ClaimIsSound ==
  ASSUME Typed, Typed', Sound, NEW w \in Workers, NEW r \in Runs, Claim(w, r)
  PROVE  Sound'
<1>1. /\ run[r].status = "PENDING" /\ RunIsSound(r)
      /\ attempt[r].status = "NONE" /\ calls[r] = 0 /\ billed[r] = 0 /\ attempt[r].owed = 0
  BY DEF Claim, Sound, RunIsSound
<1>2. \A v \in Workers \ {w} : worker[v].run # r
  BY <1>1 DEF Sound, WorkerIsSound, Typed, Carrying
<1>3. /\ run'[r].status = "RUNNING" /\ attempt'[r].status = "CLAIMED"
      /\ attempt'[r].owed = attempt[r].owed /\ calls' = calls /\ billed' = billed
      /\ invoiced' = invoiced /\ worker'[w].at = "claimed" /\ worker'[w].run = r
  BY DEF Claim, Typed, RunRow, AttemptRow, provider, WorkerRow, Idle
<1>4. Aside(w, r)
  BY <1>3 DEF Claim, Aside, Typed
<1>5. RunIsSound(r)'
  BY <1>1, <1>3, Numbers DEF RunIsSound, Terminal
<1>6. WorkerIsSound(w)'
  BY <1>1, <1>3 DEF WorkerIsSound
<1> QED
  BY <1>2, <1>4, <1>5, <1>6, AsideIsSound

\* A worker is alone on its run.
LEMMA CarriersAreAlone ==
  ASSUME Typed, Sound, NEW w \in Workers, worker[w].at # "idle"
  PROVE  /\ worker[w].run \in Runs /\ RunIsSound(worker[w].run) /\ WorkerIsSound(w)
         /\ \A v \in Workers \ {w} : worker[v].run # worker[w].run
  BY Numbers DEF Typed, Carrying, Sound, Alone

LEMMA ThinkingIsSound ==
  ASSUME Typed, Typed', Sound, NEW w \in Workers,
         \/ RefuseInvocation(w) \/ \E a \in Answers : Answer(w, a)
         \/ TryAgain(w) \/ EndCall(w) \/ LateWorkerStops(w) \/ Crash(w)
  PROVE  Sound'
<1>1. /\ worker[w].at # "idle" /\ run' = run /\ attempt' = attempt /\ invoiced' = invoiced
      /\ calls' = calls /\ billed' = billed
  BY DEF RefuseInvocation, Answer, TryAgain, EndCall, LateWorkerStops, Crash, rows, Unpaid, provider
<1>0. PICK r \in Runs : r = worker[w].run
  BY <1>1, CarriersAreAlone
<1>2. /\ r \in Runs /\ RunIsSound(r) /\ WorkerIsSound(w)
      /\ \A v \in Workers \ {w} : worker[v].run # r
  BY <1>0, <1>1, CarriersAreAlone
<1>3. RunIsSound(r)'
  BY <1>1, <1>2 DEF RunIsSound, ChargeIsTrue, Terminal
<1>4. worker[w] \in WorkerRow /\ worker \in [Workers -> WorkerRow]
  BY DEF Typed
<1> DEFINE WorkerIsAside == /\ \A v \in Workers \ {w} : worker'[v] = worker[v]
                            /\ worker'[w].run \in {r, None} /\ WorkerIsSound(w)'
<1>5. WorkerIsAside
  <2>1. CASE RefuseInvocation(w)
    BY <1>0, <1>1, <1>2, <1>4, <2>1 DEF RefuseInvocation, WorkerIsSound, RunIsSound, WorkerRow
  <2>2. ASSUME NEW a \in Answers, Answer(w, a) PROVE WorkerIsAside
    BY <1>0, <1>1, <1>2, <1>4, <2>2 DEF Answer, WorkerIsSound, WorkerRow
  <2>3. CASE TryAgain(w)
    BY <1>0, <1>1, <1>2, <1>4, <2>3 DEF TryAgain, WorkerIsSound, WorkerRow
  <2>4. CASE EndCall(w)
    BY <1>0, <1>1, <1>2, <1>4, <2>4 DEF EndCall, Goto, WorkerIsSound, WorkerRow
  <2>5. CASE LateWorkerStops(w) \/ Crash(w)
    BY <1>4, <2>5 DEF LateWorkerStops, Crash, Leave, Idle, WorkerIsSound
  <2> QED
    BY <2>1, <2>2, <2>3, <2>4, <2>5
<1>6. Aside(w, r)
  BY <1>1, <1>5 DEF Aside
<1> QED
  BY <1>2, <1>3, <1>5, <1>6, AsideIsSound

LEMMA CallProviderIsSound ==
  ASSUME Typed, Typed', Sound, NEW w \in Workers, NEW b \in Bills \cup {0}, CallProvider(w, b)
  PROVE  Sound'
<1>1. worker[w].at = "started" /\ worker[w] \in WorkerRow
  BY DEF CallProvider, Typed
<1>2. PICK r \in Runs : r = worker[w].run
  BY <1>1, CarriersAreAlone
<1>3. /\ RunIsSound(r) /\ WorkerIsSound(w)
      /\ \A v \in Workers \ {w} : worker[v].run # r
  BY <1>1, <1>2, CarriersAreAlone
<1>4. /\ worker[w].tries < MaxTransport /\ worker[w].tries \in Nat /\ calls[r] \in Nat
      /\ billed[r] \in Nat /\ b \in Nat
  <2>1. worker[w].tries < MaxTransport /\ worker[w].tries \in Nat /\ calls[r] \in Nat
    BY <1>1, Numbers DEF Typed, Carrying, WorkerRow
  <2>2. billed[r] \in Charges /\ b \in Charged
    BY DEF Typed, Charged
  <2> QED
    BY <2>1, <2>2, Numbers
<1>5. /\ run' = run /\ attempt' = attempt /\ invoiced' = invoiced
      /\ calls'[r] = calls[r] + 1 /\ billed'[r] = billed[r] + b
      /\ \A s \in Runs \ {r} : calls'[s] = calls[s] /\ billed'[s] = billed[s]
  BY <1>2 DEF CallProvider, rows, Typed
<1>6. /\ worker'[w].at = "calling" /\ worker'[w].run = r /\ worker'[w].bill = b
      /\ worker'[w].tries = worker[w].tries + 1
      /\ \A v \in Workers \ {w} : worker'[v] = worker[v]
  BY <1>1, <1>2 DEF CallProvider, Typed, WorkerRow
<1>7. calls[r] = worker[w].tries /\ attempt[r].status \in {"PROVIDER_STARTED", "UNKNOWN"}
  BY <1>1, <1>2, <1>3 DEF WorkerIsSound
<1>8. RunIsSound(r)'
  <2>1. calls'[r] <= MaxTransport /\ calls'[r] # 0
    BY <1>4, <1>5, <1>7, Numbers
  <2>2. Terminal(r) => attempt[r].status = "UNKNOWN" /\ attempt[r].owed = Reserve
    BY <1>3, <1>7 DEF RunIsSound
  <2> QED
    BY <1>3, <1>5, <1>7, <2>1, <2>2 DEF RunIsSound, ChargeIsTrue, Terminal
<1>9. WorkerIsSound(w)'
  <2>1. calls'[r] <= 1 => billed'[r] = b
    BY <1>3, <1>4, <1>5 DEF RunIsSound
  <2>2. calls'[r] = worker'[w].tries /\ run[r].status \notin {"NONE", "PENDING"}
    BY <1>1, <1>2, <1>3, <1>5, <1>6, <1>7 DEF WorkerIsSound
  <2> QED
    BY <1>5, <1>6, <1>7, <2>1, <2>2 DEF WorkerIsSound
<1> QED
  BY <1>3, <1>5, <1>6, <1>8, <1>9, AsideIsSound DEF Aside

LEMMA WritesAreSound ==
  ASSUME Typed, Typed', Sound, NEW w \in Workers,
         MarkProviderStarted(w) \/ RecordResponse(w) \/ MarkAttemptUnknown(w)
  PROVE  Sound'
<1>1. worker[w].at # "idle" /\ worker[w] \in WorkerRow
  BY DEF MarkProviderStarted, RecordResponse, MarkAttemptUnknown, Typed
<1>2. PICK r \in Runs : r = worker[w].run
  BY <1>1, CarriersAreAlone
<1>3. /\ RunIsSound(r) /\ WorkerIsSound(w)
      /\ \A v \in Workers \ {w} : worker[v].run # r
  BY <1>1, <1>2, CarriersAreAlone
<1>4. /\ run' = run /\ run[r].status = "RUNNING" /\ invoiced' = invoiced
      /\ calls' = calls /\ billed' = billed
      /\ \A s \in Runs \ {r} : attempt'[s] = attempt[s]
      /\ \A v \in Workers \ {w} : worker'[v] = worker[v]
  BY <1>2 DEF MarkProviderStarted, RecordResponse, MarkAttemptUnknown, Owns, Goto, Leave, Unpaid,
              provider, Typed
<1>5. attempt \in [Runs -> AttemptRow] /\ worker \in [Workers -> WorkerRow]
  BY DEF Typed
<1> DEFINE Done == worker'[w].run \in {r, None} /\ RunIsSound(r)' /\ WorkerIsSound(w)'
<1>6. ASSUME MarkProviderStarted(w) PROVE Done
  <2>1. /\ worker[w].at = "claimed" /\ worker'[w].at = "started" /\ worker'[w].run = r
        /\ worker'[w].tries = 0
    BY <1>2, <1>5, <1>6 DEF MarkProviderStarted, Goto, WorkerRow
  <2>2. /\ attempt[r].status = "CLAIMED" /\ attempt'[r].status = "PROVIDER_STARTED"
        /\ attempt'[r].owed = attempt[r].owed
    BY <1>2, <1>5, <1>6 DEF MarkProviderStarted, Owns, AttemptRow
  <2>3. calls[r] = 0 /\ attempt[r].owed = 0
    BY <1>3, <2>2 DEF RunIsSound
  <2> QED
    BY <1>3, <1>4, <2>1, <2>2, <2>3 DEF RunIsSound, WorkerIsSound, Terminal
<1>7. ASSUME RecordResponse(w) PROVE Done
  <2>1. /\ worker[w].at = "answered" /\ worker'[w].at = "recorded" /\ worker'[w].run = r
        /\ worker'[w].answer = worker[w].answer /\ worker'[w].bill = worker[w].bill
        /\ worker[w].answer \in Responses
    BY <1>2, <1>5, <1>7 DEF RecordResponse, Goto, WorkerRow
  <2>2. /\ attempt[r].status = "PROVIDER_STARTED" /\ attempt'[r].status = "RESPONSE_RECORDED"
        /\ attempt'[r].owed = attempt[r].owed /\ attempt'[r].response = worker[w].answer
        /\ worker[w].answer = "completed" => attempt'[r].cost = worker[w].bill
    BY <1>2, <1>5, <1>7 DEF RecordResponse, Owns, AttemptRow
  <2>3. /\ attempt[r].owed = 0
        /\ calls[r] <= 1 => billed[r] = worker[w].bill
    BY <1>2, <1>3, <2>1, <2>2 DEF RunIsSound, WorkerIsSound
  <2>4. RunIsSound(r)'
    BY <1>3, <1>4, <2>2, <2>3 DEF RunIsSound, Terminal
  <2>5. WorkerIsSound(w)'
    BY <1>4, <2>1, <2>3 DEF WorkerIsSound
  <2> QED
    BY <2>1, <2>4, <2>5
<1>8. ASSUME MarkAttemptUnknown(w) PROVE Done
  <2>1. worker'[w].at = "idle" /\ worker'[w].run = None
    BY <1>5, <1>8 DEF MarkAttemptUnknown, Leave, Idle
  <2>2. /\ attempt[r].status = "PROVIDER_STARTED" /\ attempt'[r].status = "UNKNOWN"
        /\ attempt'[r].owed = Reserve
    BY <1>2, <1>5, <1>8 DEF MarkAttemptUnknown, Owns, AttemptRow
  <2> QED
    BY <1>3, <1>4, <2>1, <2>2 DEF RunIsSound, WorkerIsSound, Terminal
<1>9. Done
  BY <1>6, <1>7, <1>8
<1> QED
  BY <1>3, <1>4, <1>9, AsideIsSound DEF Aside

LEMMA FinishesAreSound ==
  ASSUME Typed, Typed', Sound, NEW w \in Workers, FinishSuccess(w) \/ FinishFailure(w)
  PROVE  Sound'
<1>1. worker[w].at # "idle" /\ worker[w] \in WorkerRow
  BY DEF FinishSuccess, FinishFailure, Typed
<1>2. PICK r \in Runs : r = worker[w].run
  BY <1>1, CarriersAreAlone
<1>3. /\ RunIsSound(r) /\ WorkerIsSound(w)
      /\ \A v \in Workers \ {w} : worker[v].run # r
  BY <1>1, <1>2, CarriersAreAlone
<1>4. /\ run[r].status = "RUNNING" /\ invoiced' = invoiced
      /\ calls' = calls /\ billed' = billed
      /\ \A s \in Runs \ {r} : run'[s] = run[s] /\ attempt'[s] = attempt[s]
      /\ \A v \in Workers \ {w} : worker'[v] = worker[v]
  BY ZenonT(60), <1>2 DEF FinishSuccess, FinishFailure, Owns, Leave, Unpaid, provider, Typed
<1>5. /\ attempt[r] \in AttemptRow /\ run[r] \in RunRow
      /\ attempt \in [Runs -> AttemptRow] /\ run \in [Runs -> RunRow]
  BY DEF Typed
<1>6. worker'[w].at = "idle" /\ worker'[w].run = None /\ WorkerIsSound(w)'
  <2>1. Leave(w)
    BY DEF FinishSuccess, FinishFailure
  <2>2. worker'[w] = Idle
    BY <2>1 DEF Leave, Typed
  <2> QED
    BY <2>2 DEF Idle, WorkerIsSound
<1>7. r \notin invoiced
  BY <1>3, <1>4 DEF RunIsSound
<1>8. ASSUME FinishSuccess(w) PROVE RunIsSound(r)'
  <2>1. /\ worker[w].at = "recorded" /\ attempt[r].status = "RESPONSE_RECORDED"
        /\ run'[r].status = "SUCCEEDED" /\ run'[r].cost = worker[w].bill
        /\ attempt'[r].status = "SUCCEEDED" /\ attempt'[r].owed = attempt[r].owed
    BY <1>2, <1>5, <1>8 DEF FinishSuccess, Owns, AttemptRow, RunRow
  <2>2. attempt[r].owed = 0 /\ (calls[r] <= 1 => billed[r] = worker[w].bill)
    BY <1>2, <1>3, <2>1 DEF RunIsSound, WorkerIsSound
  <2> QED
    BY <1>3, <1>4, <1>7, <2>1, <2>2 DEF RunIsSound, ChargeIsTrue, Terminal
<1>9. ASSUME FinishFailure(w) PROVE RunIsSound(r)'
  <2> DEFINE answer == worker[w].answer
  <2>1. /\ worker[w].at \in {"recorded", "failing"}
        /\ run'[r].status = "FAILED" /\ attempt'[r].status = FailedAttempt(answer)
        /\ run'[r].cost = (IF answer \in {"completed", "cut"} THEN worker[w].bill ELSE 0)
        /\ attempt'[r].owed = (IF answer = "unmetered" THEN Reserve ELSE 0)
    BY <1>2, <1>5, <1>9 DEF FinishFailure, AttemptRow, RunRow
  <2>2. \/ /\ answer \in Responses /\ (calls[r] <= 1 => billed[r] = worker[w].bill)
        \/ /\ answer \in {"rejected", "unready"} /\ (calls[r] <= 1 => billed[r] = 0)
    BY <1>2, <1>3, <2>1 DEF WorkerIsSound
  <2>3. FailedAttempt(answer) \in {"SUCCEEDED", "FAILED_RESPONSE", "FAILED_NO_RESPONSE"}
    BY DEF FailedAttempt
  <2>4. calls[r] <= 1 => ChargeIsTrue(r)'
    BY <1>4, <2>1, <2>2 DEF ChargeIsTrue, FailedAttempt, Responses
  <2> QED
    BY <1>3, <1>4, <1>7, <2>1, <2>3, <2>4 DEF RunIsSound, Terminal
<1> QED
  <2>1. RunIsSound(r)'
    BY <1>8, <1>9
  <2> QED
    BY <1>3, <1>4, <1>6, <2>1, AsideIsSound DEF Aside

\* What changes rows only: it takes no run back from its worker, and no inference.
LEMMA RowsStaySound ==
  ASSUME Typed, Typed', Sound, worker' = worker, calls' = calls, billed' = billed,
         \A r \in Runs : RunIsSound(r)',
         \A r \in Runs : run[r].status \notin {"NONE", "PENDING"} =>
                           run'[r].status \notin {"NONE", "PENDING"},
         \A r \in Runs : attempt[r].status \in {"PROVIDER_STARTED", "UNKNOWN"} =>
                           attempt'[r].status \in {"PROVIDER_STARTED", "UNKNOWN"}
  PROVE  Sound'
<1>1. ASSUME NEW w \in Workers PROVE WorkerIsSound(w)'
  <2>1. WorkerIsSound(w) /\ (worker[w].at # "idle" => worker[w].run \in Runs)
    BY DEF Sound, Typed, Carrying
  <2> QED
    BY <2>1 DEF WorkerIsSound
<1>2. Alone'
  BY DEF Sound, Alone
<1> QED
  BY <1>1, <1>2 DEF Sound

LEMMA InsertedIsSound ==
  ASSUME Typed, Sound, NEW s \in Runs, run[s].status = "NONE", run'[s].status = "PENDING",
         attempt'[s] = attempt[s], calls' = calls, billed' = billed, invoiced' = invoiced
  PROVE  RunIsSound(s)'
<1>1. RunIsSound(s)
  BY DEF Sound
<1>2. s \notin invoiced
  BY <1>1 DEF RunIsSound
<1> QED
  BY <1>1, <1>2 DEF RunIsSound, Terminal

LEMMA KeptIsSound ==
  ASSUME Sound, NEW r \in Runs, run'[r] = run[r], attempt'[r] = attempt[r],
         calls' = calls, billed' = billed, invoiced' = invoiced
  PROVE  RunIsSound(r)'
  BY DEF Sound, RunIsSound, ChargeIsTrue, Terminal

LEMMA AbandonedIsSound ==
  ASSUME Typed, Sound, NEW r \in Runs, CanAbandon(r), AbandonAttempt(r),
         run'[r] = AbandonedRun(r), calls' = calls, billed' = billed, invoiced' = invoiced
  PROVE  /\ RunIsSound(r)' /\ run'[r].status = "FAILED"
         /\ attempt[r].status \in {"PROVIDER_STARTED", "UNKNOWN"} => attempt'[r].status = "UNKNOWN"
         /\ \A t \in Runs \ {r} : attempt'[t] = attempt[t]
<1>1. RunIsSound(r) /\ run[r].status = "RUNNING" /\ r \notin invoiced
  BY DEF Sound, RunIsSound, CanAbandon, Stranded
<1>2. run'[r].status = "FAILED" /\ run'[r].cost = AbandonedCost(r)
  BY AbandoningIsTyped
<1>3. /\ attempt'[r].status = AbandonedAttempt(r) /\ attempt'[r].owed = AbandonedOwed(r)
      /\ attempt'[r].response = attempt[r].response
      /\ \A t \in Runs \ {r} : attempt'[t] = attempt[t]
  BY DEF AbandonAttempt, Typed, AttemptRow
<1>4. attempt[r].status \in {"CLAIMED", "PROVIDER_STARTED", "RESPONSE_RECORDED", "UNKNOWN"}
  BY DEF CanAbandon, Stranded
<1>5. CASE attempt[r].status = "CLAIMED"
  <2>1. attempt'[r].status = "FAILED_NO_RESPONSE" /\ attempt'[r].owed = 0 /\ billed[r] = 0
    BY <1>1, <1>3, <1>5 DEF AbandonedAttempt, AbandonedOwed, RunIsSound
  <2> QED
    BY <1>1, <1>2, <1>3, <1>5, <2>1 DEF RunIsSound, ChargeIsTrue, Terminal
<1>6. CASE attempt[r].status = "RESPONSE_RECORDED"
  <2>1. /\ attempt'[r].status = "SUCCEEDED" /\ attempt'[r].owed = 0
        /\ attempt[r].response = "completed" /\ run'[r].cost = attempt[r].cost
    BY <1>2, <1>3, <1>6 DEF AbandonedAttempt, AbandonedOwed, AbandonedCost, CanAbandon, Storable
  <2>2. calls[r] <= 1 => run'[r].cost = billed[r]
    BY <1>1, <1>6, <2>1 DEF RunIsSound
  <2> QED
    BY <1>1, <1>2, <1>3, <1>6, <2>1, <2>2 DEF RunIsSound, ChargeIsTrue, Terminal
<1>7. CASE attempt[r].status \in {"PROVIDER_STARTED", "UNKNOWN"}
  <2>1. attempt'[r].status = "UNKNOWN" /\ attempt'[r].owed = Reserve
    BY <1>3, <1>7 DEF AbandonedAttempt, AbandonedOwed
  <2> QED
    BY <1>1, <1>2, <1>3, <1>7, <2>1 DEF RunIsSound, ChargeIsTrue, Terminal
<1> QED
  BY <1>4, <1>5, <1>6, <1>7

LEMMA AdmissionIsSound ==
  ASSUME Typed, Typed', Sound, Admission
  PROVE  Sound'
<1>0. worker' = worker /\ calls' = calls /\ billed' = billed /\ attempt' = attempt /\ invoiced' = invoiced
  BY DEF Admission, Request, Admit, GiveUp, rows, provider
<1>1. CASE run' = run
  <2>1. \A r \in Runs : RunIsSound(r)'
    BY <1>0, <1>1, KeptIsSound
  <2> QED
    BY <1>0, <1>1, <2>1, RowsStaySound
<1>2. ASSUME NEW c \in Callers, NEW s \in Runs, Admit(c, s) PROVE Sound'
  <2>1. caller[c] \in Keys /\ ProductOf[caller[c]] \in Products
    BY <1>2 DEF Admit, Typed, Products
  <2>2. /\ run[s].status = "NONE" /\ run'[s].status = "PENDING"
        /\ \A t \in Runs \ {s} : run'[t] = run[t]
    BY <1>2, <2>1, PendingIsTyped DEF Admit, Fresh, Typed
  <2>3. \A r \in Runs : RunIsSound(r)'
    BY <1>0, <2>2, InsertedIsSound, KeptIsSound
  <2> QED
    BY <1>0, <2>2, <2>3, RowsStaySound
<1> QED
  BY <1>1, <1>2 DEF Admission, Request, GiveUp, rows

\* A replacement: r is closed, and s is inserted.
LEMMA RerunStrandedStep ==
  ASSUME Typed, NEW r \in Runs, NEW s \in Runs, RerunStranded(r, s)
  PROVE  /\ s # r /\ run[s].status = "NONE" /\ run[r].status = "RUNNING"
         /\ run'[r] = AbandonedRun(r) /\ run'[s] = Pending(RecoveryKey(r), run[r].product, r)
         /\ run'[s].status = "PENDING" /\ run'[s].of = r /\ run'[s].period = period
         /\ \A t \in Runs \ {r, s} : run'[t] = run[t]
<1>1. RecoveryKey(r) \in {RecoveryKey(t) : t \in Runs} /\ run[r].product \in Products \cup {None}
  BY DEF Typed, RunRow
<1>2. s # r /\ run[s].status = "NONE" /\ run[r].status = "RUNNING"
  BY DEF RerunStranded, Fresh, CanAbandon, Stranded
<1>3. run' = [[run EXCEPT ![r] = AbandonedRun(r)]
                 EXCEPT ![s] = Pending(RecoveryKey(r), run[r].product, r)]
  BY DEF RerunStranded
<1>4. /\ run'[r] = AbandonedRun(r) /\ run'[s] = Pending(RecoveryKey(r), run[r].product, r)
      /\ \A t \in Runs \ {r, s} : run'[t] = run[t]
  BY <1>2, <1>3 DEF Typed
<1>5. run'[s].status = "PENDING" /\ run'[s].of = r /\ run'[s].period = period
  BY <1>1, <1>4, PendingIsTyped
<1> QED
  BY <1>2, <1>4, <1>5

LEMMA RerunKnownFailureStep ==
  ASSUME Typed, NEW r \in Runs, NEW s \in Runs, RerunKnownFailure(r, s)
  PROVE  /\ s # r /\ run[s].status = "NONE" /\ run[r].status = "FAILED"
         /\ run'[s] = Pending(RecoveryKey(r), run[r].product, r)
         /\ run'[s].status = "PENDING" /\ run'[s].of = r /\ run'[s].period = period
         /\ \A t \in Runs \ {s} : run'[t] = run[t]
<1>1. RecoveryKey(r) \in {RecoveryKey(t) : t \in Runs} /\ run[r].product \in Products \cup {None}
  BY DEF Typed, RunRow
<1>2. s # r /\ run[s].status = "NONE" /\ run[r].status = "FAILED"
  BY DEF RerunKnownFailure, Fresh, KnownFailure
<1>3. /\ run'[s] = Pending(RecoveryKey(r), run[r].product, r)
      /\ \A t \in Runs \ {s} : run'[t] = run[t]
  BY DEF RerunKnownFailure, Typed
<1> QED
  BY <1>1, <1>2, <1>3, PendingIsTyped

LEMMA RecoveryIsSound ==
  ASSUME Typed, Typed', Sound, NEW r \in Runs, Recovery(r)
  PROVE  Sound'
<1>0. worker' = worker /\ calls' = calls /\ billed' = billed
  BY DEF Recovery, Abandon, ReconcileUnknownCost, RerunStranded, RerunKnownFailure, provider
<1>1. CASE Abandon(r)
  <2>1. /\ CanAbandon(r) /\ AbandonAttempt(r) /\ run'[r] = AbandonedRun(r) /\ invoiced' = invoiced
        /\ \A t \in Runs \ {r} : run'[t] = run[t]
    BY <1>1 DEF Abandon, Typed
  <2>2. \A t \in Runs : RunIsSound(t)'
    BY <1>0, <2>1, AbandonedIsSound, KeptIsSound
  <2> QED
    BY <1>0, <2>1, <2>2, AbandonedIsSound, RowsStaySound
<1>2. CASE ReconcileUnknownCost(r)
  <2>1. /\ run' = run /\ attempt' = attempt /\ run[r].status = "FAILED"
        /\ invoiced' = invoiced \cup {r}
    BY <1>2 DEF ReconcileUnknownCost
  <2>2. ASSUME NEW t \in Runs PROVE RunIsSound(t)'
    BY <1>0, <2>1 DEF Sound, RunIsSound, ChargeIsTrue, Terminal
  <2> QED
    BY <1>0, <2>1, <2>2, RowsStaySound
<1>3. ASSUME NEW s \in Runs, RerunStranded(r, s) PROVE Sound'
  <2>1. CanAbandon(r) /\ AbandonAttempt(r) /\ invoiced' = invoiced
    BY <1>3 DEF RerunStranded
  <2>2. /\ s # r /\ run[s].status = "NONE" /\ run'[s].status = "PENDING"
        /\ run'[r] = AbandonedRun(r) /\ \A t \in Runs \ {r, s} : run'[t] = run[t]
    BY <1>3, RerunStrandedStep
  <2>3. \A t \in Runs : RunIsSound(t)'
    BY <1>0, <2>1, <2>2, AbandonedIsSound, InsertedIsSound, KeptIsSound
  <2> QED
    BY <1>0, <2>1, <2>2, <2>3, AbandonedIsSound, RowsStaySound
<1>4. ASSUME NEW s \in Runs, RerunKnownFailure(r, s) PROVE Sound'
  <2>1. attempt' = attempt /\ invoiced' = invoiced
    BY <1>4 DEF RerunKnownFailure
  <2>2. /\ run[s].status = "NONE" /\ run'[s].status = "PENDING"
        /\ \A t \in Runs \ {s} : run'[t] = run[t]
    BY <1>4, RerunKnownFailureStep
  <2>3. \A t \in Runs : RunIsSound(t)'
    BY <1>0, <2>1, <2>2, InsertedIsSound, KeptIsSound
  <2> QED
    BY <1>0, <2>1, <2>2, <2>3, RowsStaySound
<1> QED
  BY <1>1, <1>2, <1>3, <1>4 DEF Recovery

LEMMA StaysSound == Typed /\ Typed' /\ Sound /\ [Next]_vars => Sound'
<1> SUFFICES ASSUME Typed, Typed', Sound, [Next]_vars PROVE Sound'
  OBVIOUS
<1>1. CASE Admission
  BY <1>1, AdmissionIsSound
<1>2. ASSUME NEW w \in Workers, NEW r \in Runs, Claim(w, r) PROVE Sound'
  BY <1>2, ClaimIsSound
<1>3. ASSUME NEW w \in Workers, Execute(w) \/ Crash(w) PROVE Sound'
  BY <1>3, ThinkingIsSound, CallProviderIsSound, WritesAreSound, FinishesAreSound DEF Execute
<1>4. ASSUME NEW r \in Runs, Recovery(r) PROVE Sound'
  BY <1>4, RecoveryIsSound
<1>5. CASE NextPeriod \/ UNCHANGED vars
  <2>1. /\ run' = run /\ attempt' = attempt /\ invoiced' = invoiced /\ worker' = worker
        /\ calls' = calls /\ billed' = billed
    BY <1>5 DEF NextPeriod, vars, rows, provider
  <2>2. \A r \in Runs : RunIsSound(r)'
    BY <2>1, KeptIsSound
  <2> QED
    BY <2>1, <2>2, RowsStaySound
<1> QED
  BY <1>1, <1>2, <1>3, <1>4, <1>5 DEF Next

\* In every reachable state, only the worker that claimed a run has called the provider for
\* it, after saying so in the row, and at most MaxTransport times, whatever leases lapse,
\* workers die and operators recover.
THEOREM RunsHaveOneCaller == Spec => []OneCaller
<1>1. Init => Typed /\ Sound
  BY TypedInit, SoundInit
<1>2. Typed /\ Sound /\ [Next]_vars => (Typed /\ Sound)'
  BY StaysTyped, StaysSound
<1>3. Typed /\ Sound => OneCaller
  BY Numbers DEF OneCaller, Sound, RunIsSound, Alone, Typed
<1> QED
  BY <1>1, <1>2, <1>3, PTL DEF Spec

\* In every reachable state, a run that is closed with a known charge, and whose inference
\* was sent once, was charged that much.
THEOREM ChargesStayTrue == Spec => []ChargesAreTrue
<1>1. Init => Typed /\ Sound
  BY TypedInit, SoundInit
<1>2. Typed /\ Sound /\ [Next]_vars => (Typed /\ Sound)'
  BY StaysTyped, StaysSound
<1>3. Typed /\ Sound => ChargesAreTrue
  BY DEF ChargesAreTrue, Sound, RunIsSound, ChargeIsTrue
<1> QED
  BY <1>1, <1>2, <1>3, PTL DEF Spec

-----------------------------------------------------------------------------
(* Closed runs and their successors.                                       *)

\* A step changes the rows of runs that are not closed.
LEMMA ClosedRests ==
  ASSUME Typed, [Next]_vars, NEW r \in Runs, Terminal(r)
  PROVE  run'[r] = run[r] /\ attempt'[r] = attempt[r]
<1>0. run[r].status \in {"SUCCEEDED", "FAILED"}
  BY DEF Terminal
<1>1. CASE Admission
  BY <1>0, <1>1 DEF Admission, Request, Admit, GiveUp, Fresh, rows, Typed
<1>2. ASSUME NEW w \in Workers, NEW s \in Runs, Claim(w, s) PROVE run'[r] = run[r] /\ attempt'[r] = attempt[r]
  BY <1>0, <1>2 DEF Claim, Typed
<1>3. ASSUME NEW w \in Workers, Execute(w) \/ Crash(w) PROVE run'[r] = run[r] /\ attempt'[r] = attempt[r]
  <2>1. CASE \/ RefuseInvocation(w) \/ (\E b \in Bills \cup {0} : CallProvider(w, b))
             \/ (\E a \in Answers : Answer(w, a))
             \/ TryAgain(w) \/ EndCall(w) \/ LateWorkerStops(w) \/ Crash(w)
    BY <2>1 DEF RefuseInvocation, CallProvider, Answer, TryAgain, EndCall, LateWorkerStops, Crash, rows
  <2>2. CASE MarkProviderStarted(w) \/ RecordResponse(w) \/ MarkAttemptUnknown(w)
    BY <1>0, <2>2 DEF MarkProviderStarted, RecordResponse, MarkAttemptUnknown, Owns, Typed
  <2>3. CASE FinishSuccess(w)
    BY <1>0, <2>3 DEF FinishSuccess, Owns, Typed
  <2>4. CASE FinishFailure(w)
    BY <1>0, <2>4 DEF FinishFailure, Owns, Typed
  <2> QED
    BY <1>3, <2>1, <2>2, <2>3, <2>4 DEF Execute
<1>4. ASSUME NEW q \in Runs, Recovery(q) PROVE run'[r] = run[r] /\ attempt'[r] = attempt[r]
  <2>1. CASE Abandon(q)
    BY <1>0, <2>1 DEF Abandon, AbandonAttempt, CanAbandon, Stranded, Typed
  <2>2. CASE ReconcileUnknownCost(q)
    BY <2>2 DEF ReconcileUnknownCost
  <2>3. ASSUME NEW s \in Runs, RerunStranded(q, s) PROVE run'[r] = run[r] /\ attempt'[r] = attempt[r]
    <3>1. r # q /\ r # s /\ run'[r] = run[r]
      BY <1>0, <2>3, RerunStrandedStep
    <3>2. attempt'[r] = attempt[r]
      BY <2>3, <3>1 DEF RerunStranded, AbandonAttempt, Typed
    <3> QED
      BY <3>1, <3>2
  <2>4. ASSUME NEW s \in Runs, RerunKnownFailure(q, s) PROVE run'[r] = run[r] /\ attempt'[r] = attempt[r]
    BY <1>0, <2>4, RerunKnownFailureStep DEF RerunKnownFailure
  <2> QED
    BY <1>4, <2>1, <2>2, <2>3, <2>4 DEF Recovery
<1>5. CASE NextPeriod \/ UNCHANGED vars
  BY <1>5 DEF NextPeriod, vars, rows
<1> QED
  BY <1>1, <1>2, <1>3, <1>4, <1>5 DEF Next

\* A closed run and its attempt never change again, whoever wakes up late.
THEOREM ClosedRunsStay == Spec => ClosedRunsRest
<1>1. Init => Typed
  BY TypedInit
<1>2. Typed /\ [Next]_vars => Typed'
  BY StaysTyped
<1>3. Typed /\ [Next]_vars
        => [\A r \in Runs : Terminal(r) => run'[r] = run[r] /\ attempt'[r] = attempt[r]]_vars
  BY ClosedRests
<1> QED
  BY <1>1, <1>2, <1>3, PTL DEF Spec, ClosedRunsRest

\* r gives way to s in this step.
Replaces(s, r) == RerunStranded(r, s) \/ RerunKnownFailure(r, s)

\* A run that is written keeps what it replaces, and only a replacement is inserted with it.
LEMMA OriginsStay ==
  ASSUME Typed, [Next]_vars, NEW t \in Runs, ~\E r \in Runs : Replaces(t, r)
  PROVE  \/ run'[t] = run[t]
         \/ run'[t].of = run[t].of /\ run'[t].status # "NONE"
         \/ run'[t].of = None /\ run'[t].status # "NONE"
<1> DEFINE Stays == \/ run'[t] = run[t]
                    \/ run'[t].of = run[t].of /\ run'[t].status # "NONE"
                    \/ run'[t].of = None /\ run'[t].status # "NONE"
<1>1. CASE Admission
  <2>1. ASSUME NEW c \in Callers, NEW s \in Runs, Admit(c, s) PROVE Stays
    <3>1. caller[c] \in Keys /\ ProductOf[caller[c]] \in Products
      BY <2>1 DEF Admit, Typed, Products
    <3>2. run' = [run EXCEPT ![s] = Pending(caller[c], ProductOf[caller[c]], None)]
      BY <2>1 DEF Admit
    <3> QED
      BY <3>1, <3>2, PendingIsTyped DEF Typed
  <2> QED
    BY <1>1, <2>1 DEF Admission, Request, GiveUp, rows
<1>2. ASSUME NEW w \in Workers, NEW s \in Runs, Claim(w, s) PROVE Stays
  BY <1>2 DEF Claim, Typed, RunRow
<1>3. ASSUME NEW w \in Workers, Execute(w) \/ Crash(w) PROVE Stays
  <2>1. CASE FinishSuccess(w)
    BY <2>1 DEF FinishSuccess, Typed, RunRow
  <2>2. CASE FinishFailure(w)
    BY ZenonT(60), <2>2 DEF FinishFailure, Typed, RunRow
  <2>3. CASE ~(FinishSuccess(w) \/ FinishFailure(w))
    BY <1>3, <2>3 DEF Execute, RefuseInvocation, CallProvider, Answer, TryAgain, EndCall,
         LateWorkerStops, Crash, MarkProviderStarted, RecordResponse, MarkAttemptUnknown, rows
  <2> QED
    BY <2>1, <2>2, <2>3
<1>4. ASSUME NEW q \in Runs, Recovery(q) PROVE Stays
  <2>1. CASE Abandon(q)
    <3>1. run' = [run EXCEPT ![q] = AbandonedRun(q)] /\ CanAbandon(q)
      BY <2>1 DEF Abandon
    <3> QED
      BY <3>1, AbandoningIsTyped DEF Typed
  <2>2. CASE ReconcileUnknownCost(q)
    BY <2>2 DEF ReconcileUnknownCost
  <2>3. ASSUME NEW s \in Runs, RerunStranded(q, s) PROVE Stays
    <3>1. t # s /\ CanAbandon(q)
      BY <2>3 DEF Replaces, RerunStranded
    <3> QED
      BY <2>3, <3>1, RerunStrandedStep, AbandoningIsTyped
  <2>4. ASSUME NEW s \in Runs, RerunKnownFailure(q, s) PROVE Stays
    BY <2>4, RerunKnownFailureStep DEF Replaces
  <2> QED
    BY <1>4, <2>1, <2>2, <2>3, <2>4 DEF Recovery
<1>5. CASE NextPeriod \/ UNCHANGED vars
  BY <1>5 DEF NextPeriod, vars, rows
<1> QED
  BY <1>1, <1>2, <1>3, <1>4, <1>5 DEF Next

\* Runs that do not exist replace none.
Origins ==
  /\ SuccessorsFollowClosedRuns
  /\ \A s \in Runs : run[s].status = "NONE" => run[s].of = None

\* What a replacement leaves: r is closed, s is its only successor, and other runs keep theirs.
LEMMA ReplacementStep ==
  ASSUME Typed, Origins, NEW r \in Runs, NEW s \in Runs, Replaces(s, r)
  PROVE  /\ s # r /\ run[s].status = "NONE" /\ run'[s].of = r /\ run'[s].status = "PENDING"
         /\ run'[r].status = "FAILED" /\ run'[r].code \in StrandedCodes \cup {"REJECTED"}
         /\ \A t \in Runs : run[t].of # r
         /\ \A t \in Runs \ {s} : run'[t].of = run[t].of /\ (run'[t].status = "NONE" => run[t].status = "NONE")
<1>1. CASE RerunStranded(r, s)
  <2>1. CanAbandon(r) /\ AbandonedRun(r) = run'[r]
    BY <1>1, RerunStrandedStep DEF RerunStranded
  <2>2. run'[r].status = "FAILED" /\ run'[r].code \in StrandedCodes /\ run'[r].of = run[r].of
    BY <2>1, AbandoningIsTyped DEF StrandedCode, StrandedCodes
  <2>3. ASSUME NEW t \in Runs PROVE run[t].of # r
    <3> DEFINE closed == [run EXCEPT ![r] = AbandonedRun(r)]
               new == Pending(RecoveryKey(r), run[r].product, r)
    <3>1. new.of = r
      BY <1>1, RerunStrandedStep
    <3>2. closed[t].of = run[t].of /\ (run[t].status # "NONE" => closed[t].status # "NONE")
      BY <2>1, <2>2 DEF Typed
    <3>3. run[t].status # "NONE" => closed[t].of # r
      BY <1>1, <3>1, <3>2, Numbers DEF RerunStranded, Unique
    <3> QED
      BY <3>2, <3>3, Numbers DEF Origins
  <2> QED
    BY <1>1, <2>2, <2>3, RerunStrandedStep
<1>2. CASE RerunKnownFailure(r, s)
  <2>1. /\ run[r].status = "FAILED" /\ run[r].code = "REJECTED"
        /\ \A t \in Runs : run[t].of # r
    BY <1>2 DEF RerunKnownFailure, KnownFailure
  <2>2. /\ s # r /\ run[s].status = "NONE" /\ run'[s].of = r /\ run'[s].status = "PENDING"
        /\ \A t \in Runs \ {s} : run'[t] = run[t]
    BY <1>2, RerunKnownFailureStep
  <2> QED
    BY <2>1, <2>2
<1> QED
  BY <1>1, <1>2 DEF Replaces

LEMMA OriginsStaySound == Typed /\ Origins /\ [Next]_vars => Origins'
<1> SUFFICES ASSUME Typed, Origins, [Next]_vars PROVE Origins'
  OBVIOUS
<1>1. \A r \in Runs : Terminal(r) => run'[r] = run[r]
  BY ClosedRests
<1>2. CASE \E s, r \in Runs : Replaces(s, r)
  <2>1. PICK s \in Runs, r \in Runs : Replaces(s, r)
    BY <1>2
  <2>2. /\ s # r /\ run[s].status = "NONE" /\ run'[s].of = r /\ run'[s].status = "PENDING"
        /\ run'[r].status = "FAILED" /\ run'[r].code \in StrandedCodes \cup {"REJECTED"}
        /\ \A t \in Runs : run[t].of # r
        /\ \A t \in Runs \ {s} : run'[t].of = run[t].of /\ (run'[t].status = "NONE" => run[t].status = "NONE")
    BY <2>1, ReplacementStep
  <2>3. \A t \in Runs : run[t].of # None => run[t].of \in Runs
    BY DEF Typed, RunRow
  <2>4. SuccessorsFollowClosedRuns'
    BY <1>1, <2>2, <2>3, Numbers DEF Origins, SuccessorsFollowClosedRuns, Terminal
  <2> QED
    BY <2>2, <2>4 DEF Origins
<1>3. CASE ~\E s, r \in Runs : Replaces(s, r)
  <2>1. \A t \in Runs : \/ run'[t] = run[t]
                        \/ run'[t].of = run[t].of /\ run'[t].status # "NONE"
                        \/ run'[t].of = None /\ run'[t].status # "NONE"
    BY <1>3, OriginsStay
  <2>2. \A t \in Runs : run[t].of # None => run[t].of \in Runs
    BY DEF Typed, RunRow
  <2>3. SuccessorsFollowClosedRuns'
    BY <1>1, <2>1, <2>2, Numbers DEF Origins, SuccessorsFollowClosedRuns, Terminal
  <2> QED
    BY <2>1, <2>3 DEF Origins
<1> QED
  BY <1>2, <1>3

\* In every reachable state a run has at most one successor, and replaces a run that is closed
\* and has no result.
THEOREM SuccessorsFollow == Spec => []SuccessorsFollowClosedRuns
<1>1. Init => Typed /\ Origins
  BY TypedInit DEF Init, Absent, Origins, SuccessorsFollowClosedRuns
<1>2. Typed /\ Origins /\ [Next]_vars => (Typed /\ Origins)'
  BY StaysTyped, OriginsStaySound
<1>3. Typed /\ Origins => SuccessorsFollowClosedRuns
  BY DEF Origins
<1> QED
  BY <1>1, <1>2, <1>3, PTL DEF Spec

-----------------------------------------------------------------------------
(* The ledger implements BudgetOnce.                                       *)

LEMMA BudgetInit == Init => Budget!Init
<1> SUFFICES ASSUME Init PROVE Budget!Init
  OBVIOUS
<1>1. absStage = [r \in Runs |-> [money |-> "none", period |-> 1]]
  <2>1. \A r \in Runs : run[r].status = "NONE" /\ run[r].period = 1
    BY DEF Init, Absent
  <2>2. ASSUME NEW r \in Runs PROVE Money(r) = "none"
    <3>1. run[r].status = "NONE" /\ ~Active(r)
      BY <2>1 DEF Active
    <3> QED
      BY <3>1 DEF Money
  <2> QED
    BY <2>1, <2>2 DEF absStage
<1>2. absAccount = [p \in Periods |-> [held |-> 0, owed |-> 0, spent |-> 0]]
  BY DEF Init, absAccount
<1> QED
  BY <1>1, <1>2, Numbers DEF Budget!Init, absStage, absAccount

\* Where the money of a run is depends on its rows.
LEMMA MoneyStays ==
  ASSUME NEW r \in Runs, run'[r].status = run[r].status, run'[r].period = run[r].period,
         attempt'[r].owed = attempt[r].owed, r \in invoiced' <=> r \in invoiced
  PROVE  absStage'[r] = absStage[r]
  BY DEF absStage, Money, Active

LEMMA ActiveIsHeld ==
  ASSUME NEW r \in Runs, run[r].status \in {"PENDING", "RUNNING"}
  PROVE  Money(r) = "held"
  BY DEF Money, Active

\* What an abstract account row is, and when two are the same.
AbsRow == [held : Int, owed : Int, spent : Int]

LEMMA SameAbsRow ==
  ASSUME NEW u \in AbsRow, NEW v \in AbsRow, u.held = v.held, u.owed = v.owed, u.spent = v.spent
  PROVE  u = v
  BY DEF AbsRow

\* What a change of two fields makes of an account.
LEMMA AccountFields ==
  ASSUME NEW a, NEW p \in Periods, NEW c \in Int, a \in [Periods -> AbsRow]
  PROVE  /\ Budget!Settle(a, p, c)
              = [a EXCEPT ![p] = [held |-> a[p].held - Reserve, owed |-> a[p].owed,
                                  spent |-> a[p].spent + c]]
         /\ Budget!Defer(a, p)
              = [a EXCEPT ![p] = [held |-> a[p].held - Reserve, owed |-> a[p].owed + Reserve,
                                  spent |-> a[p].spent]]
         /\ Budget!Clear(a, p, c)
              = [a EXCEPT ![p] = [held |-> a[p].held, owed |-> a[p].owed - Reserve,
                                  spent |-> a[p].spent + c]]
         /\ Budget!Hold(a, p)
              = [a EXCEPT ![p] = [held |-> a[p].held + Reserve, owed |-> a[p].owed,
                                  spent |-> a[p].spent]]
<1> DEFINE old == a[p]
<1>0. /\ old \in AbsRow /\ old.held \in Int /\ old.owed \in Int /\ old.spent \in Int
      /\ Reserve \in Int
  BY Numbers DEF AbsRow
<1>1. ASSUME NEW h \in Int, NEW o \in Int, NEW s \in Int
      PROVE  /\ [old EXCEPT !.held = h, !.spent = s] = [held |-> h, owed |-> old.owed, spent |-> s]
             /\ [old EXCEPT !.held = h, !.owed = o] = [held |-> h, owed |-> o, spent |-> old.spent]
             /\ [old EXCEPT !.owed = o, !.spent = s] = [held |-> old.held, owed |-> o, spent |-> s]
             /\ [old EXCEPT !.held = h] = [held |-> h, owed |-> old.owed, spent |-> old.spent]
  <2> HIDE DEF old
  <2>1. [old EXCEPT !.held = h, !.spent = s] = [held |-> h, owed |-> old.owed, spent |-> s]
    <3> DEFINE u == [old EXCEPT !.held = h, !.spent = s]
    <3>1. /\ u \in AbsRow
          /\ u.held = h /\ u.owed = old.owed /\ u.spent = s
      BY <1>0 DEF AbsRow
    <3>2. [held |-> h, owed |-> old.owed, spent |-> s] \in AbsRow
      BY <1>0 DEF AbsRow
    <3> QED
      BY <3>1, <3>2, SameAbsRow
  <2>2. [old EXCEPT !.held = h, !.owed = o] = [held |-> h, owed |-> o, spent |-> old.spent]
    <3> DEFINE u == [old EXCEPT !.held = h, !.owed = o]
    <3>1. /\ u \in AbsRow
          /\ u.held = h /\ u.owed = o /\ u.spent = old.spent
      BY <1>0 DEF AbsRow
    <3>2. [held |-> h, owed |-> o, spent |-> old.spent] \in AbsRow
      BY <1>0 DEF AbsRow
    <3> QED
      BY <3>1, <3>2, SameAbsRow
  <2>3. [old EXCEPT !.owed = o, !.spent = s] = [held |-> old.held, owed |-> o, spent |-> s]
    <3> DEFINE u == [old EXCEPT !.owed = o, !.spent = s]
    <3>1. /\ u \in AbsRow
          /\ u.held = old.held /\ u.owed = o /\ u.spent = s
      BY <1>0 DEF AbsRow
    <3>2. [held |-> old.held, owed |-> o, spent |-> s] \in AbsRow
      BY <1>0 DEF AbsRow
    <3> QED
      BY <3>1, <3>2, SameAbsRow
  <2>4. [old EXCEPT !.held = h] = [held |-> h, owed |-> old.owed, spent |-> old.spent]
    <3> DEFINE u == [old EXCEPT !.held = h]
    <3>1. /\ u \in AbsRow
          /\ u.held = h /\ u.owed = old.owed /\ u.spent = old.spent
      BY <1>0 DEF AbsRow
    <3>2. [held |-> h, owed |-> old.owed, spent |-> old.spent] \in AbsRow
      BY <1>0 DEF AbsRow
    <3> QED
      BY <3>1, <3>2, SameAbsRow
  <2> QED
    BY <2>1, <2>2, <2>3, <2>4
<1>2. /\ Budget!Settle(a, p, c)
           = [a EXCEPT ![p] = [a[p] EXCEPT !.held = a[p].held - Reserve, !.spent = a[p].spent + c]]
      /\ Budget!Defer(a, p)
           = [a EXCEPT ![p] = [a[p] EXCEPT !.held = a[p].held - Reserve, !.owed = a[p].owed + Reserve]]
      /\ Budget!Clear(a, p, c)
           = [a EXCEPT ![p] = [a[p] EXCEPT !.owed = a[p].owed - Reserve, !.spent = a[p].spent + c]]
      /\ Budget!Hold(a, p) = [a EXCEPT ![p] = [a[p] EXCEPT !.held = a[p].held + Reserve]]
  BY DEF Budget!Settle, Budget!Defer, Budget!Clear, Budget!Hold
<1>3. /\ old.held - Reserve \in Int /\ old.held + Reserve \in Int /\ old.spent + c \in Int
      /\ old.owed + Reserve \in Int /\ old.owed - Reserve \in Int
  BY <1>0
<1>4. /\ [old EXCEPT !.held = old.held - Reserve, !.spent = old.spent + c]
           = [held |-> old.held - Reserve, owed |-> old.owed, spent |-> old.spent + c]
      /\ [old EXCEPT !.held = old.held - Reserve, !.owed = old.owed + Reserve]
           = [held |-> old.held - Reserve, owed |-> old.owed + Reserve, spent |-> old.spent]
      /\ [old EXCEPT !.owed = old.owed - Reserve, !.spent = old.spent + c]
           = [held |-> old.held, owed |-> old.owed - Reserve, spent |-> old.spent + c]
      /\ [old EXCEPT !.held = old.held + Reserve]
           = [held |-> old.held + Reserve, owed |-> old.owed, spent |-> old.spent]
  BY ZenonT(60), <1>1, <1>3
<1> QED
  BY <1>2, <1>4, Zenon

\* The abstract account of a ledger.
AbsOf(l) == [p \in Periods |-> [held |-> l[p].reserved, owed |-> l[p].unknown, spent |-> l[p].actual]]

LEMMA AbsOfLedger == absAccount = AbsOf(ledger) /\ absAccount' = AbsOf(ledger')
  BY DEF absAccount, AbsOf

LEMMA AbsOfTyped ==
  ASSUME NEW l \in [Periods -> Account]
  PROVE  /\ AbsOf(l) \in [Periods -> AbsRow]
         /\ \A p \in Periods : /\ AbsOf(l)[p].held = l[p].reserved /\ AbsOf(l)[p].owed = l[p].unknown
                               /\ AbsOf(l)[p].spent = l[p].actual
<1>1. \A p \in Periods : l[p].reserved \in Int /\ l[p].unknown \in Int /\ l[p].actual \in Int
  BY DEF Account
<1> QED
  BY <1>1 DEF AbsOf, AbsRow

\* A reservation leaves the ledger, into a cost or into a doubt.
LEMMA AbsOfSettled ==
  ASSUME NEW l \in [Periods -> Account], NEW p \in Periods, NEW cost \in Nat, NEW owed \in {0, Reserve}
  PROVE  /\ owed = 0 => AbsOf(Settled(l, p, cost, owed)) = Budget!Settle(AbsOf(l), p, cost)
         /\ owed = Reserve /\ cost = 0
              => AbsOf(Settled(l, p, cost, owed)) = Budget!Defer(AbsOf(l), p)
<1> DEFINE old == l[p]
           new == Settled(l, p, cost, owed)
           a == AbsOf(l)
<1>1. /\ new[p].reserved = old.reserved - Reserve /\ new[p].actual = old.actual + cost
      /\ new[p].unknown = old.unknown + owed
      /\ \A q \in Periods \ {p} : new[q] = l[q]
  BY DEF Settled, Account
<1>2. AbsOf(new) = [a EXCEPT ![p] = [held |-> old.reserved - Reserve, owed |-> old.unknown + owed,
                                     spent |-> old.actual + cost]]
  <2> HIDE DEF new, old
  <2> QED
    BY <1>1 DEF AbsOf
<1>3. /\ a \in [Periods -> AbsRow] /\ a[p].held = old.reserved /\ a[p].owed = old.unknown
      /\ a[p].spent = old.actual /\ old.unknown \in Int /\ old.actual \in Int
  BY AbsOfTyped DEF Account
<1> HIDE DEF new, a
<1>4. /\ Budget!Settle(a, p, cost)
           = [a EXCEPT ![p] = [held |-> a[p].held - Reserve, owed |-> a[p].owed,
                               spent |-> a[p].spent + cost]]
      /\ Budget!Defer(a, p)
           = [a EXCEPT ![p] = [held |-> a[p].held - Reserve, owed |-> a[p].owed + Reserve,
                               spent |-> a[p].spent]]
  BY <1>3, AccountFields
<1>5. (owed = 0 => old.unknown + owed = old.unknown) /\ (cost = 0 => old.actual + cost = old.actual)
  BY <1>3
<1>6. /\ owed = 0 => AbsOf(new) = Budget!Settle(a, p, cost)
      /\ owed = Reserve /\ cost = 0 => AbsOf(new) = Budget!Defer(a, p)
  BY <1>2, <1>3, <1>4, <1>5, Zenon
<1> QED
  BY <1>6 DEF new, a

\* A reservation is made.
LEMMA AbsOfReserved ==
  ASSUME NEW l \in [Periods -> Account], NEW p \in Periods
  PROVE  /\ AbsOf(Reserved(l, p)) = Budget!Hold(AbsOf(l), p)
         /\ HasRoom(l, p) => Budget!HasRoom(AbsOf(l), p)
<1> DEFINE old == l[p]
           new == Reserved(l, p)
           a == AbsOf(l)
<1>1. /\ new[p].reserved = old.reserved + Reserve /\ new[p].actual = old.actual
      /\ new[p].unknown = old.unknown
      /\ \A q \in Periods \ {p} : new[q] = l[q]
  BY DEF Reserved, Account
<1>2. AbsOf(new) = [a EXCEPT ![p] = [held |-> old.reserved + Reserve, owed |-> old.unknown,
                                     spent |-> old.actual]]
  <2> HIDE DEF new, old
  <2> QED
    BY <1>1 DEF AbsOf
<1>3. /\ a \in [Periods -> AbsRow] /\ a[p].held = old.reserved /\ a[p].owed = old.unknown
      /\ a[p].spent = old.actual
  BY AbsOfTyped
<1> HIDE DEF new, a
<1>4. Budget!Hold(a, p)
        = [a EXCEPT ![p] = [held |-> a[p].held + Reserve, owed |-> a[p].owed, spent |-> a[p].spent]]
  BY <1>3, AccountFields, 0 \in Int
<1>5. HasRoom(l, p) => Budget!HasRoom(a, p)
  <2>1. /\ old.reserved \in Int /\ old.unknown \in Int /\ old.actual \in Int /\ Reserve \in Int
    BY Numbers DEF Account
  <2>2. MaxCost \in Int
    BY AgentRunAssumption
  <2> QED
    BY <1>3, <2>1, <2>2 DEF HasRoom, Budget!HasRoom
<1>6. AbsOf(new) = Budget!Hold(a, p)
  BY <1>2, <1>3, <1>4, Zenon
<1> QED
  BY <1>5, <1>6 DEF new, a

\* An invoice moves what a run may have cost to what it cost.
LEMMA AbsOfCleared ==
  ASSUME NEW l \in [Periods -> Account], NEW p \in Periods, NEW cost \in Nat
  PROVE  AbsOf([l EXCEPT ![p].unknown = @ - Reserve, ![p].actual = @ + cost])
           = Budget!Clear(AbsOf(l), p, cost)
<1> DEFINE old == l[p]
           new == [l EXCEPT ![p].unknown = @ - Reserve, ![p].actual = @ + cost]
           a == AbsOf(l)
<1>1. /\ new[p].reserved = old.reserved /\ new[p].actual = old.actual + cost
      /\ new[p].unknown = old.unknown - Reserve
      /\ \A q \in Periods \ {p} : new[q] = l[q]
  BY DEF Account
<1>2. AbsOf(new) = [a EXCEPT ![p] = [held |-> old.reserved, owed |-> old.unknown - Reserve,
                                     spent |-> old.actual + cost]]
  <2> HIDE DEF new, old
  <2> QED
    BY <1>1 DEF AbsOf
<1>3. /\ a \in [Periods -> AbsRow] /\ a[p].held = old.reserved /\ a[p].owed = old.unknown
      /\ a[p].spent = old.actual
  BY AbsOfTyped
<1> HIDE DEF new, a
<1>4. Budget!Clear(a, p, cost)
        = [a EXCEPT ![p] = [held |-> a[p].held, owed |-> a[p].owed - Reserve,
                            spent |-> a[p].spent + cost]]
  BY <1>3, AccountFields
<1>5. AbsOf(new) = Budget!Clear(a, p, cost)
  BY <1>2, <1>3, <1>4, Zenon
<1> QED
  BY <1>5 DEF new, a

\* A run whose reservation stays where it is, if it has one.
LEMMA HeldStays ==
  ASSUME NEW r \in Runs, run[r].status \in {"PENDING", "RUNNING"},
         run'[r].status \in {"PENDING", "RUNNING"}, run'[r].period = run[r].period
  PROVE  absStage'[r] = absStage[r]
  BY DEF absStage, Money, Active

LEMMA StagesOf ==
  /\ \A r \in Runs : /\ absStage[r].money = Money(r) /\ absStage[r].period = run[r].period
                     /\ absStage[r] = Budget!Stage(Money(r), run[r].period)
  /\ absStage = [r \in Runs |-> absStage[r]]
  BY DEF absStage, Budget!Stage

LEMMA StageMoves ==
  ASSUME NEW r \in Runs, NEW m, absStage' = [s \in Runs |-> absStage'[s]],
         \A s \in Runs \ {r} : absStage'[s] = absStage[s]
  PROVE  /\ absStage'[r] = Budget!Stage(m, absStage[r].period)
              => absStage' = [absStage EXCEPT ![r].money = m]
         /\ \A p : absStage'[r] = Budget!Stage(m, p)
              => absStage' = [absStage EXCEPT ![r] = Budget!Stage(m, p)]
<1>1. [absStage[r] EXCEPT !.money = m] = Budget!Stage(m, absStage[r].period)
  BY DEF absStage, Budget!Stage
<1>2. [absStage EXCEPT ![r].money = m] = [absStage EXCEPT ![r] = [absStage[r] EXCEPT !.money = m]]
  OBVIOUS
<1> QED
  BY <1>1, <1>2, StagesOf

\* The stages of the next state are the next state's.
LEMMA StagesOfNext == absStage' = [r \in Runs |-> absStage'[r]]
  BY DEF absStage

\* Where the money of a closed run is.
LEMMA ClosedStage ==
  ASSUME NEW r \in Runs, run'[r].status \in {"SUCCEEDED", "FAILED"}
  PROVE  absStage'[r] = Budget!Stage(IF attempt'[r].owed > 0 /\ r \notin invoiced' THEN "owed" ELSE "settled",
                                     run'[r].period)
  BY DEF absStage, Money, Active, Budget!Stage

\* A reservation leaves the ledger: the run's worker, or an operator, closes the run.
LEMMA LeavesRefines ==
  ASSUME Typed, Typed', Sound, NEW r \in Runs, run[r].status = "RUNNING",
         NEW cost \in Charges, NEW owed \in {0, Reserve}, owed = Reserve => cost = 0,
         ledger' = Settled(ledger, run[r].period, cost, owed),
         run'[r].status \in {"SUCCEEDED", "FAILED"}, run'[r].period = run[r].period,
         attempt'[r].owed = owed, invoiced' = invoiced,
         \A s \in Runs \ {r} : run'[s] = run[s] /\ attempt'[s] = attempt[s]
  PROVE  Budget!Next
<1>1. r \notin invoiced /\ run[r].period \in Periods
  BY DEF Sound, RunIsSound, Typed, RunRow
<1>2. \A s \in Runs \ {r} : absStage'[s] = absStage[s]
  BY MoneyStays
<1>3. absStage[r].money = "held" /\ absStage[r].period = run[r].period
  BY ActiveIsHeld, StagesOf
<1>6. ledger \in [Periods -> Account] /\ cost \in Nat
  BY Numbers DEF Typed
<1>4. CASE owed = 0
  <2>1. absStage'[r] = Budget!Stage("settled", absStage[r].period)
    BY <1>1, <1>3, <1>4, ClosedStage
  <2>2. absStage' = [absStage EXCEPT ![r].money = "settled"]
    BY <1>2, <2>1, StageMoves, StagesOfNext
  <2>3. absAccount' = Budget!Settle(absAccount, absStage[r].period, cost)
    BY <1>1, <1>3, <1>4, <1>6, AbsOfSettled, AbsOfLedger
  <2>4. Budget!Close(r)
    BY <1>3, <2>2, <2>3 DEF Budget!Close, Budget!At
  <2> QED
    BY <2>4 DEF Budget!Next
<1>5. CASE owed = Reserve
  <2>1. absStage'[r] = Budget!Stage("owed", absStage[r].period)
    BY <1>1, <1>3, <1>5, Numbers, ClosedStage
  <2>2. absStage' = [absStage EXCEPT ![r].money = "owed"]
    BY <1>2, <2>1, StageMoves, StagesOfNext
  <2>3. absAccount' = Budget!Defer(absAccount, absStage[r].period)
    BY <1>1, <1>3, <1>5, <1>6, AbsOfSettled, AbsOfLedger
  <2>4. Budget!Doubt(r)
    BY <1>3, <2>2, <2>3 DEF Budget!Doubt, Budget!At
  <2> QED
    BY <2>4 DEF Budget!Next
<1> QED
  BY <1>4, <1>5

\* A run that does not exist has no money.
LEMMA NoMoney ==
  ASSUME NEW r \in Runs, run[r].status = "NONE"
  PROVE  absStage[r].money = "none"
<1>1. ~Active(r)
  BY DEF Active
<1> QED
  BY <1>1 DEF absStage, Money

\* A run is inserted: by a caller, or by an operator after a rejection.
LEMMA InsertRefines ==
  ASSUME Typed, Typed', Sound, NEW s \in Runs, run[s].status = "NONE",
         run'[s].status = "PENDING", run'[s].period = period,
         \A t \in Runs \ {s} : run'[t] = run[t],
         attempt' = attempt, invoiced' = invoiced,
         ledger' = Reserved(ledger, period), HasRoom(ledger, period)
  PROVE  Budget!Next
<1>1. PICK p \in Periods : p = period
  BY DEF Typed
<1>2. absStage[s].money = "none" /\ \A t \in Runs \ {s} : absStage'[t] = absStage[t]
  BY NoMoney, MoneyStays
<1>3. absStage'[s] = Budget!Stage("held", p)
  BY <1>1 DEF absStage, Money, Active, Budget!Stage
<1>4. absStage' = [absStage EXCEPT ![s] = Budget!Stage("held", p)]
  BY <1>2, <1>3, StagesOf, StagesOfNext
<1>5. absAccount' = Budget!Hold(absAccount, p) /\ Budget!HasRoom(absAccount, p)
  BY <1>1, AbsOfReserved, AbsOfLedger DEF Typed
<1>6. Budget!Admit(s, p)
  BY <1>2, <1>4, <1>5 DEF Budget!Admit, Budget!At
<1> QED
  BY <1>6 DEF Budget!Next

\* An invoice clears what a run may have cost.
LEMMA ReconcileRefines ==
  ASSUME Typed, Typed', Sound, NEW r \in Runs, ReconcileUnknownCost(r)
  PROVE  Budget!Next
<1>0. PICK p \in Periods : p = run[r].period
  BY DEF Typed, RunRow
<1>1. /\ ledger \in [Periods -> Account]
      /\ run[r].status = "FAILED" /\ attempt[r].owed = Reserve /\ r \notin invoiced
      /\ billed[r] \in Charges /\ run' = run /\ attempt' = attempt /\ invoiced' = invoiced \cup {r}
  BY Numbers DEF ReconcileUnknownCost, Typed, RunRow, AttemptRow
<1>2. /\ absStage[r].money = "owed" /\ absStage[r].period = p
      /\ absStage'[r] = Budget!Stage("settled", absStage[r].period)
      /\ \A s \in Runs \ {r} : absStage'[s] = absStage[s]
  <2>1. absStage[r].money = "owed" /\ absStage[r].period = p
    BY <1>0, <1>1, Numbers DEF absStage, Money, Active
  <2>2. absStage'[r] = Budget!Stage("settled", absStage[r].period)
    BY <1>0, <1>1, <2>1, ClosedStage
  <2>3. \A s \in Runs \ {r} : absStage'[s] = absStage[s]
    BY <1>1, MoneyStays
  <2> QED
    BY <2>1, <2>2, <2>3
<1>3. absStage' = [absStage EXCEPT ![r].money = "settled"]
  BY <1>2, StageMoves, StagesOfNext
<1>4. /\ ledger' = [ledger EXCEPT ![p].unknown = @ - Reserve, ![p].actual = @ + billed[r]]
      /\ billed[r] \in Nat
  <2>1. billed[r] \in Nat
    BY <1>1, Numbers
  <2> QED
    BY <1>0, <1>1, <2>1 DEF ReconcileUnknownCost
<1>7. absAccount' = Budget!Clear(absAccount, absStage[r].period, billed[r])
  <2>1. AbsOf(ledger') = Budget!Clear(AbsOf(ledger), p, billed[r])
    BY <1>0, <1>1, <1>4, AbsOfCleared
  <2> QED
    BY <1>2, <2>1, AbsOfLedger
<1>8. Budget!Learn(r)
  BY <1>0, <1>1, <1>2, <1>3, <1>7 DEF Budget!Learn, Budget!At
<1> QED
  BY <1>8 DEF Budget!Next

\* A replacement: the reservation of r leaves the ledger, and one is made for s.
LEMMA ReplaceRefines ==
  ASSUME Typed, Typed', Sound, NEW r \in Runs, NEW s \in Runs, RerunStranded(r, s)
  PROVE  Budget!Next
<1> DEFINE old == run[r].period
           left == AbandonedLedger(r)
           cost == AbandonedCost(r)
           owed == AbandonedOwed(r)
<1>1. /\ s # r /\ run[s].status = "NONE" /\ run[r].status = "RUNNING"
      /\ run'[r] = AbandonedRun(r) /\ run'[s].status = "PENDING" /\ run'[s].period = period
      /\ \A t \in Runs \ {r, s} : run'[t] = run[t]
  BY RerunStrandedStep
<1>2. /\ CanAbandon(r) /\ AbandonAttempt(r) /\ invoiced' = invoiced
      /\ HasRoom(left, period) /\ ledger' = Reserved(left, period)
  BY DEF RerunStranded
<1>3. /\ run'[r].status = "FAILED" /\ run'[r].period = old /\ left \in [Periods -> Account]
      /\ attempt'[r].owed = owed /\ \A t \in Runs \ {r} : attempt'[t] = attempt[t]
  BY ZenonT(60), <1>1, <1>2, AbandoningIsTyped DEF AbandonAttempt, Typed, AttemptRow
<1>4. cost \in Charges /\ owed \in {0, Reserve} /\ (owed = Reserve => cost = 0)
  BY Numbers DEF AbandonedCost, AbandonedOwed, Typed, AttemptRow
<1>5. PICK p \in Periods : p = period
  BY DEF Typed
<1>6. /\ absStage[r].money = "held" /\ absStage[r].period = old /\ old \in Periods
      /\ absStage[s].money = "none" /\ r \notin invoiced
  BY <1>1, ActiveIsHeld, StagesOf, NoMoney DEF Typed, RunRow, Sound, RunIsSound
<1> DEFINE m == IF owed = 0 THEN "settled" ELSE "owed"
<1>7. absStage' = [absStage EXCEPT ![r].money = m, ![s] = Budget!Stage("held", p)]
  <2>1. absStage'[s] = Budget!Stage("held", p)
    BY <1>1, <1>5 DEF absStage, Money, Active, Budget!Stage
  <2>2. absStage'[r] = Budget!Stage(m, old)
    BY <1>2, <1>3, <1>4, <1>6, Numbers, ClosedStage
  <2>3. \A t \in Runs \ {r, s} : absStage'[t] = absStage[t]
    BY <1>1, <1>2, <1>3, MoneyStays
  <2>4. [absStage[r] EXCEPT !.money = m] = Budget!Stage(m, old)
    BY <1>6 DEF absStage, Budget!Stage
  <2>5. [absStage EXCEPT ![r].money = m, ![s] = Budget!Stage("held", p)]
          = [[absStage EXCEPT ![r] = Budget!Stage(m, old)] EXCEPT ![s] = Budget!Stage("held", p)]
    BY <2>4
  <2> HIDE DEF m
  <2> QED
    BY <1>1, <2>1, <2>2, <2>3, <2>5, StagesOf, StagesOfNext
<1> DEFINE gone == IF owed = 0 THEN Budget!Settle(absAccount, old, cost) ELSE Budget!Defer(absAccount, old)
<1>8. gone = AbsOf(left)
  <2>1. ledger \in [Periods -> Account] /\ cost \in Nat /\ left = Settled(ledger, old, cost, owed)
    BY <1>4, Numbers DEF Typed, AbandonedLedger
  <2> HIDE DEF cost, owed, left
  <2> QED
    BY <1>4, <1>6, <2>1, AbsOfSettled, AbsOfLedger
<1>9. Budget!HasRoom(gone, p) /\ absAccount' = Budget!Hold(gone, p)
  BY <1>2, <1>3, <1>5, <1>8, AbsOfReserved, AbsOfLedger
<1>10. Budget!Replace(r, s, p)
  <2>1. /\ m \in {"settled", "owed"}
        /\ gone = (IF m = "owed" THEN Budget!Defer(absAccount, absStage[r].period)
                                 ELSE Budget!Settle(absAccount, absStage[r].period, cost))
    BY <1>4, <1>6
  <2> HIDE DEF m, gone, cost, owed, left
  <2> QED
    BY <1>4, <1>6, <1>7, <1>9, <2>1 DEF Budget!Replace, Budget!At
<1> QED
  BY <1>10 DEF Budget!Next

\* What a worker writes before it closes its run leaves the money where it is.
LEMMA MoneyRests ==
  ASSUME Typed, \A r \in Runs : absStage'[r] = absStage[r], ledger' = ledger
  PROVE  UNCHANGED <<absStage, absAccount>>
<1>1. absStage' = absStage
  BY StagesOf, StagesOfNext
<1> QED
  BY <1>1 DEF absAccount

LEMMA WorkRefines ==
  ASSUME Typed, Typed', Sound, NEW w \in Workers,
         Execute(w) \/ Crash(w) \/ \E r \in Runs : Claim(w, r)
  PROVE  [Budget!Next]_<<absStage, absAccount>>
<1>1. ASSUME NEW r \in Runs, Claim(w, r) PROVE UNCHANGED <<absStage, absAccount>>
  <2>1. /\ run[r].status = "PENDING" /\ run'[r].status = "RUNNING" /\ run'[r].period = run[r].period
        /\ \A s \in Runs \ {r} : run'[s] = run[s] /\ attempt'[s] = attempt[s]
        /\ invoiced' = invoiced /\ ledger' = ledger
    <3>1. /\ run \in [Runs -> RunRow] /\ attempt \in [Runs -> AttemptRow]
          /\ run' = [run EXCEPT ![r].status = "RUNNING"]
          /\ attempt' = [attempt EXCEPT ![r].status = "CLAIMED"]
      BY <1>1 DEF Claim, Typed
    <3>2. run'[r].status = "RUNNING" /\ run'[r].period = run[r].period
      BY <3>1 DEF RunRow
    <3>3. run[r].status = "PENDING" /\ invoiced' = invoiced /\ ledger' = ledger
      BY <1>1 DEF Claim
    <3> QED
      BY <3>1, <3>2, <3>3
  <2>2. \A s \in Runs : absStage'[s] = absStage[s]
    BY <2>1, HeldStays, MoneyStays
  <2> QED
    BY <2>1, <2>2, MoneyRests
<1>2. CASE \/ RefuseInvocation(w) \/ (\E b \in Bills \cup {0} : CallProvider(w, b))
           \/ (\E a \in Answers : Answer(w, a))
           \/ TryAgain(w) \/ EndCall(w) \/ LateWorkerStops(w) \/ Crash(w)
  <2>1. run' = run /\ attempt' = attempt /\ invoiced' = invoiced /\ ledger' = ledger
    BY <1>2 DEF RefuseInvocation, CallProvider, Answer, TryAgain, EndCall, LateWorkerStops, Crash, rows
  <2>2. \A s \in Runs : absStage'[s] = absStage[s]
    BY <2>1, MoneyStays
  <2> QED
    BY <2>1, <2>2, MoneyRests
<1>3. CASE MarkProviderStarted(w) \/ RecordResponse(w) \/ MarkAttemptUnknown(w)
  <2>1. /\ run[worker[w].run].status = "RUNNING" /\ worker[w].run \in Runs
        /\ run' = run /\ invoiced' = invoiced /\ ledger' = ledger
        /\ \A s \in Runs \ {worker[w].run} : attempt'[s] = attempt[s]
    BY <1>3 DEF MarkProviderStarted, RecordResponse, MarkAttemptUnknown, Owns, Typed, Carrying
  <2>2. \A s \in Runs : absStage'[s] = absStage[s]
    BY <2>1, HeldStays, MoneyStays
  <2> QED
    BY <2>1, <2>2, MoneyRests
<1>4. CASE FinishSuccess(w)
  <2>1. PICK r \in Runs : r = worker[w].run
    BY <1>4 DEF FinishSuccess, Typed, Carrying
  <2>2. /\ run[r].status = "RUNNING" /\ attempt[r].status = "RESPONSE_RECORDED"
        /\ run'[r].status = "SUCCEEDED" /\ run'[r].period = run[r].period
        /\ attempt'[r].owed = attempt[r].owed
        /\ \A s \in Runs \ {r} : run'[s] = run[s] /\ attempt'[s] = attempt[s]
        /\ invoiced' = invoiced /\ ledger' = Settled(ledger, run[r].period, worker[w].bill, 0)
    BY <1>4, <2>1 DEF FinishSuccess, Owns, Typed, RunRow, AttemptRow
  <2>3. attempt'[r].owed = 0 /\ worker[w].bill \in Charges
    BY <2>2, Numbers DEF Sound, RunIsSound, Typed, WorkerRow
  <2> QED
    BY <2>2, <2>3, Numbers, LeavesRefines
<1>5. CASE FinishFailure(w)
  <2> DEFINE answer == worker[w].answer
             cost == IF answer \in {"completed", "cut"} THEN worker[w].bill ELSE 0
             owed == IF answer = "unmetered" THEN Reserve ELSE 0
  <2>1. PICK r \in Runs : r = worker[w].run
    BY <1>5 DEF FinishFailure, Typed, Carrying
  <2>2. /\ run[r].status = "RUNNING"
        /\ run'[r].status = "FAILED" /\ run'[r].period = run[r].period
        /\ attempt'[r].owed = owed
        /\ \A s \in Runs \ {r} : run'[s] = run[s] /\ attempt'[s] = attempt[s]
        /\ invoiced' = invoiced /\ ledger' = Settled(ledger, run[r].period, cost, owed)
    BY ZenonT(60), <1>5, <2>1 DEF FinishFailure, Owns, Typed, RunRow, AttemptRow
  <2>3. worker[w].bill \in Charges
    BY Numbers DEF Typed, WorkerRow
  <2>4. cost \in Charges /\ owed \in {0, Reserve} /\ (owed = Reserve => cost = 0)
    BY <2>3, Numbers
  <2> HIDE DEF cost, owed
  <2> QED
    BY <2>2, <2>4, LeavesRefines
<1> QED
  BY <1>1, <1>2, <1>3, <1>4, <1>5 DEF Execute

LEMMA StepRefines ==
  Typed /\ Typed' /\ Sound /\ [Next]_vars => [Budget!Next]_<<absStage, absAccount>>
<1> SUFFICES ASSUME Typed, Typed', Sound, [Next]_vars PROVE [Budget!Next]_<<absStage, absAccount>>
  OBVIOUS
<1>0. ASSUME run' = run, attempt' = attempt, invoiced' = invoiced, ledger' = ledger
      PROVE  UNCHANGED <<absStage, absAccount>>
  BY <1>0, MoneyStays, MoneyRests
<1>1. CASE Admission
  <2>1. ASSUME NEW c \in Callers, NEW s \in Runs, Admit(c, s) PROVE Budget!Next
    <3>1. caller[c] \in Keys /\ ProductOf[caller[c]] \in Products
      BY <2>1 DEF Admit, Typed, Products
    <3>2. /\ run[s].status = "NONE" /\ run'[s].status = "PENDING" /\ run'[s].period = period
          /\ \A t \in Runs \ {s} : run'[t] = run[t]
      BY <2>1, <3>1, PendingIsTyped DEF Admit, Fresh, Typed
    <3>3. /\ attempt' = attempt /\ invoiced' = invoiced
          /\ ledger' = Reserved(ledger, period) /\ HasRoom(ledger, period)
      BY <2>1 DEF Admit
    <3> QED
      BY <3>2, <3>3, InsertRefines
  <2> QED
    BY <1>0, <1>1, <2>1 DEF Admission, Request, GiveUp, rows
<1>2. ASSUME NEW w \in Workers, Execute(w) \/ Crash(w) \/ \E r \in Runs : Claim(w, r)
      PROVE  [Budget!Next]_<<absStage, absAccount>>
  BY <1>2, WorkRefines
<1>3. ASSUME NEW r \in Runs, Recovery(r) PROVE Budget!Next
  <2>1. CASE Abandon(r)
    <3>1. /\ CanAbandon(r) /\ AbandonAttempt(r) /\ run[r].status = "RUNNING"
          /\ run'[r] = AbandonedRun(r) /\ invoiced' = invoiced
          /\ \A s \in Runs \ {r} : run'[s] = run[s]
          /\ ledger' = Settled(ledger, run[r].period, AbandonedCost(r), AbandonedOwed(r))
      BY <2>1 DEF Abandon, CanAbandon, Stranded, AbandonedLedger, Typed
    <3>2. /\ run'[r].status = "FAILED" /\ run'[r].period = run[r].period
          /\ attempt'[r].owed = AbandonedOwed(r)
          /\ \A s \in Runs \ {r} : attempt'[s] = attempt[s]
      BY ZenonT(60), <3>1, AbandoningIsTyped DEF AbandonAttempt, Typed, AttemptRow
    <3>3. /\ AbandonedCost(r) \in Charges /\ AbandonedOwed(r) \in {0, Reserve}
          /\ AbandonedOwed(r) = Reserve => AbandonedCost(r) = 0
      BY Numbers DEF AbandonedCost, AbandonedOwed, Typed, AttemptRow
    <3> QED
      BY <3>1, <3>2, <3>3, LeavesRefines
  <2>2. CASE ReconcileUnknownCost(r)
    BY <2>2, ReconcileRefines
  <2>3. ASSUME NEW s \in Runs, RerunStranded(r, s) PROVE Budget!Next
    BY <2>3, ReplaceRefines
  <2>4. ASSUME NEW s \in Runs, RerunKnownFailure(r, s) PROVE Budget!Next
    <3>1. /\ run[s].status = "NONE" /\ run'[s].status = "PENDING" /\ run'[s].period = period
          /\ \A t \in Runs \ {s} : run'[t] = run[t]
      BY <2>4, RerunKnownFailureStep
    <3>2. /\ attempt' = attempt /\ invoiced' = invoiced
          /\ ledger' = Reserved(ledger, period) /\ HasRoom(ledger, period)
      BY <2>4 DEF RerunKnownFailure
    <3> QED
      BY <3>1, <3>2, InsertRefines
  <2> QED
    BY <1>3, <2>1, <2>2, <2>3, <2>4 DEF Recovery
<1>4. CASE NextPeriod \/ UNCHANGED vars
  BY <1>0, <1>4 DEF NextPeriod, vars, rows
<1> QED
  BY <1>1, <1>2, <1>3, <1>4 DEF Next

\* The ledger implements BudgetOnce: every reservation is made in a period that has room for
\* it, and leaves the ledger once.
THEOREM LedgerImplementsBudgetOnce == Spec => ImplementsBudgetOnce
<1>1. Init => Typed /\ Sound
  BY TypedInit, SoundInit
<1>2. Typed /\ Sound /\ [Next]_vars => (Typed /\ Sound)'
  BY StaysTyped, StaysSound
<1>3. Typed /\ Typed' /\ Sound /\ [Next]_vars => [Budget!Next]_<<absStage, absAccount>>
  BY StepRefines
<1>4. Spec => Budget!Init /\ [][Budget!Next]_<<absStage, absAccount>>
  BY BudgetInit, <1>1, <1>2, <1>3, PTL DEF Spec
<1> QED
  BY <1>4, PTL DEF ImplementsBudgetOnce, Budget!Spec

-----------------------------------------------------------------------------
(* The ledger is what its runs say.                                        *)

\* The runs whose money is at a stage, and an account that is the sum of them.
Placed(stages, s) == {r \in Runs : stages[r] = s}
Tallies(stages, account) ==
  \A p \in Periods :
    /\ account[p].held = Reserve * Cardinality(Placed(stages, Budget!Stage("held", p)))
    /\ account[p].owed = Reserve * Cardinality(Placed(stages, Budget!Stage("owed", p)))

LEMMA RunsAreFinite ==
  IsFiniteSet(Runs) /\ \A S \in SUBSET Runs : IsFiniteSet(S) /\ Cardinality(S) \in Nat
<1>1. IsFiniteSet(Runs)
  BY AgentRunAssumption, FS_Interval DEF Runs
<1> QED
  BY <1>1, FS_Subset, FS_CardinalityType

\* When one run moves, one comes to a stage or one leaves it.
Elsewhere(f, g, r) == \A t \in Runs \ {r} : g[t] = f[t]
Change(old, new, s) == (IF new = s THEN 1 ELSE 0) - (IF old = s THEN 1 ELSE 0)

LEMMA PlacedMoves ==
  ASSUME NEW f, NEW g, NEW r \in Runs, Elsewhere(f, g, r), NEW s
  PROVE  /\ Cardinality(Placed(f, s)) \in Nat
         /\ Cardinality(Placed(g, s)) = Cardinality(Placed(f, s)) + Change(f[r], g[r], s)
<1> DEFINE A == Placed(f, s) \ {r}
<1>1. A \in SUBSET Runs /\ IsFiniteSet(A) /\ Cardinality(A) \in Nat
  BY RunsAreFinite DEF Placed
<1>2. Placed(f, s) = (IF f[r] = s THEN A \cup {r} ELSE A)
  BY DEF Placed
<1>3. Placed(g, s) = (IF g[r] = s THEN A \cup {r} ELSE A)
  BY DEF Placed, Elsewhere
<1>4. Cardinality(A \cup {r}) = Cardinality(A) + 1
  BY <1>1, FS_AddElement
<1> HIDE DEF A
<1>5. Cardinality(Placed(f, s)) = Cardinality(A) + (IF f[r] = s THEN 1 ELSE 0)
  BY <1>1, <1>2, <1>4
<1>6. Cardinality(Placed(g, s)) = Cardinality(A) + (IF g[r] = s THEN 1 ELSE 0)
  BY <1>1, <1>3, <1>4
<1> QED
  BY <1>1, <1>5, <1>6 DEF Change

\* An account that changes by what the move of one run says stays the sum.
Follows(a, b, old, new) ==
  \A p \in Periods :
    /\ b[p].held = a[p].held + Reserve * Change(old, new, Budget!Stage("held", p))
    /\ b[p].owed = a[p].owed + Reserve * Change(old, new, Budget!Stage("owed", p))

LEMMA TalliesMove ==
  ASSUME NEW f, NEW g, NEW r \in Runs, Elsewhere(f, g, r),
         NEW a, NEW b, Tallies(f, a), Follows(a, b, f[r], g[r])
  PROVE  Tallies(g, b)
<1>1. \A n \in Int, d \in Int : Reserve * (n + d) = Reserve * n + Reserve * d
  BY Numbers
<1>2. ASSUME NEW s
      PROVE  Reserve * Cardinality(Placed(f, s)) + Reserve * Change(f[r], g[r], s)
               = Reserve * Cardinality(Placed(g, s))
  <2>1. /\ Cardinality(Placed(f, s)) \in Nat
        /\ Cardinality(Placed(g, s)) = Cardinality(Placed(f, s)) + Change(f[r], g[r], s)
    BY PlacedMoves
  <2>2. Change(f[r], g[r], s) \in Int
    BY DEF Change
  <2> QED
    BY <1>1, <2>1, <2>2
<1> QED
  BY <1>2 DEF Tallies, Follows

LEMMA StagesDiffer ==
  \A m, n, p, q : Budget!Stage(m, p) = Budget!Stage(n, q) <=> m = n /\ p = q
  BY DEF Budget!Stage

Entered(a, q, held, owed, c) ==
  [a EXCEPT ![q] = [held |-> a[q].held + Reserve * held, owed |-> a[q].owed + Reserve * owed,
                    spent |-> a[q].spent + c]]

\* One run moves within a period, or into it, and the period's account with it.
LEMMA AccountMoves ==
  ASSUME NEW f, NEW g, NEW r \in Runs, Elsewhere(f, g, r), NEW a \in [Periods -> AbsRow],
         NEW q \in Periods, NEW m, NEW n, NEW o, f[r] = Budget!Stage(m, o), m = "none" \/ o = q,
         g[r] = Budget!Stage(n, q), NEW c \in Int,
         NEW b,
         b = Entered(a, q, Change(m, n, "held"), Change(m, n, "owed"), c),
         Tallies(f, a)
  PROVE  Tallies(g, b)
<1> DEFINE held == Change(m, n, "held")
           owed == Change(m, n, "owed")
<1>1. \A p \in Periods : /\ Change(f[r], g[r], Budget!Stage("held", p)) = IF p = q THEN held ELSE 0
                         /\ Change(f[r], g[r], Budget!Stage("owed", p)) = IF p = q THEN owed ELSE 0
  BY StagesDiffer DEF Change
<1>2. /\ \A p \in Periods : a[p].held \in Int /\ a[p].owed \in Int
      /\ Reserve * 0 = 0 /\ \A x \in Int : x + 0 = x
  BY Numbers DEF AbsRow
<1> HIDE DEF held, owed
<1>3. b = [a EXCEPT ![q] = [held |-> a[q].held + Reserve * held, owed |-> a[q].owed + Reserve * owed,
                            spent |-> a[q].spent + c]]
  BY DEF held, owed, Entered
<1>4. /\ b[q].held = a[q].held + Reserve * held /\ b[q].owed = a[q].owed + Reserve * owed
      /\ \A p \in Periods \ {q} : b[p] = a[p]
  BY <1>3
<1>5. Follows(a, b, f[r], g[r])
  BY <1>1, <1>2, <1>4 DEF Follows
<1> QED
  BY <1>5, TalliesMove

\* The four ways an account changes are entries.
LEMMA Entries ==
  ASSUME NEW a \in [Periods -> AbsRow], NEW p \in Periods, NEW c \in Int
  PROVE  /\ Budget!Settle(a, p, c) = Entered(a, p, -1, 0, c)
         /\ Budget!Defer(a, p) = Entered(a, p, -1, 1, 0)
         /\ Budget!Clear(a, p, c) = Entered(a, p, 0, -1, c)
         /\ Budget!Hold(a, p) = Entered(a, p, 1, 0, 0)
<1>1. /\ a[p].held + Reserve * (-1) = a[p].held - Reserve
      /\ a[p].held + Reserve * 1 = a[p].held + Reserve /\ a[p].held + Reserve * 0 = a[p].held
      /\ a[p].owed + Reserve * (-1) = a[p].owed - Reserve
      /\ a[p].owed + Reserve * 1 = a[p].owed + Reserve /\ a[p].owed + Reserve * 0 = a[p].owed
      /\ a[p].spent + 0 = a[p].spent
  BY Numbers DEF AbsRow
<1>2. /\ Budget!Settle(a, p, c)
            = [a EXCEPT ![p] = [held |-> a[p].held - Reserve, owed |-> a[p].owed,
                                spent |-> a[p].spent + c]]
      /\ Budget!Defer(a, p)
           = [a EXCEPT ![p] = [held |-> a[p].held - Reserve, owed |-> a[p].owed + Reserve,
                               spent |-> a[p].spent]]
      /\ Budget!Clear(a, p, c)
           = [a EXCEPT ![p] = [held |-> a[p].held, owed |-> a[p].owed - Reserve,
                               spent |-> a[p].spent + c]]
      /\ Budget!Hold(a, p)
           = [a EXCEPT ![p] = [held |-> a[p].held + Reserve, owed |-> a[p].owed,
                               spent |-> a[p].spent]]
  BY AccountFields
<1> QED
  BY <1>1, <1>2, Zenon DEF Entered

LEMMA Changes ==
  /\ Change("held", "settled", "held") = -1 /\ Change("held", "settled", "owed") = 0
  /\ Change("held", "owed", "held") = -1 /\ Change("held", "owed", "owed") = 1
  /\ Change("owed", "settled", "held") = 0 /\ Change("owed", "settled", "owed") = -1
  /\ Change("none", "held", "held") = 1 /\ Change("none", "held", "owed") = 0
  BY DEF Change

LEMMA MovesWithin ==
  ASSUME Typed, Tallies(absStage, absAccount), NEW r \in Runs, NEW n, NEW c \in Int
  PROVE  LET m == absStage[r].money
         IN  Tallies([absStage EXCEPT ![r].money = n],
                     Entered(absAccount, absStage[r].period, Change(m, n, "held"),
                             Change(m, n, "owed"), c))
<1> DEFINE m == absStage[r].money
           p == absStage[r].period
           g == [absStage EXCEPT ![r].money = n]
           b == Entered(absAccount, p, Change(m, n, "held"), Change(m, n, "owed"), c)
<1>1. absAccount \in [Periods -> AbsRow]
  BY AbsOfLedger, AbsOfTyped DEF Typed
<1>2. p \in Periods /\ absStage[r] = Budget!Stage(m, p)
  BY DEF absStage, Budget!Stage, Typed, RunRow
<1>3. g[r] = Budget!Stage(n, p) /\ Elsewhere(absStage, g, r)
  BY DEF absStage, Budget!Stage, Elsewhere
<1> HIDE DEF m, p, g
<1>4. Tallies(g, b)
  BY <1>1, <1>2, <1>3, AccountMoves
<1> QED
  BY <1>4 DEF m, p, g

LEMMA MovesInto ==
  ASSUME NEW f, f = [t \in Runs |-> f[t]], NEW a \in [Periods -> AbsRow], Tallies(f, a),
         NEW s \in Runs, NEW o, f[s] = Budget!Stage("none", o), NEW p \in Periods
  PROVE  Tallies([f EXCEPT ![s] = Budget!Stage("held", p)], Budget!Hold(a, p))
<1> DEFINE g == [f EXCEPT ![s] = Budget!Stage("held", p)]
<1>1. g[s] = Budget!Stage("held", p) /\ Elsewhere(f, g, s)
  BY DEF Elsewhere
<1>2. Budget!Hold(a, p) = Entered(a, p, Change("none", "held", "held"), Change("none", "held", "owed"), 0)
  BY Entries, Changes, 0 \in Int
<1> HIDE DEF g
<1>3. Tallies(g, Budget!Hold(a, p))
  BY <1>1, <1>2, AccountMoves, 0 \in Int
<1> QED
  BY <1>3 DEF g

\* Every step of the abstract budget keeps its accounts the sums of its stages.
LEMMA TalliesStay ==
  ASSUME Typed, Tallies(absStage, absAccount), Budget!Next
  PROVE  Tallies(absStage', absAccount')
<1>1. absAccount \in [Periods -> AbsRow] /\ \A c \in Charges : c \in Int
  BY AbsOfLedger, AbsOfTyped, Numbers DEF Typed
<1>2. \A r \in Runs : /\ absStage[r].period \in Periods
                       /\ absStage[r] = Budget!Stage(absStage[r].money, absStage[r].period)
  BY DEF absStage, Budget!Stage, Typed, RunRow
<1>3. absStage = [t \in Runs |-> absStage[t]]
  BY StagesOf
<1>4. \A r \in Runs, p \in Periods :
        ~Budget!At(r, "none") \/ Tallies([absStage EXCEPT ![r] = Budget!Stage("held", p)],
                                         Budget!Hold(absAccount, p))
  BY <1>1, <1>2, <1>3, MovesInto DEF Budget!At
<1>5. ASSUME NEW r \in Runs, Budget!Close(r) PROVE Tallies(absStage', absAccount')
  <2>1. PICK c \in Charges : absAccount' = Budget!Settle(absAccount, absStage[r].period, c)
    BY <1>5 DEF Budget!Close
  <2>2. absAccount' = Entered(absAccount, absStage[r].period, Change("held", "settled", "held"),
                              Change("held", "settled", "owed"), c)
    BY <1>1, <1>2, <2>1, Entries, Changes
  <2>3. absStage[r].money = "held" /\ absStage' = [absStage EXCEPT ![r].money = "settled"]
    BY <1>5 DEF Budget!Close, Budget!At
  <2> QED
    BY <1>1, <2>2, <2>3, MovesWithin
<1>6. ASSUME NEW r \in Runs, Budget!Doubt(r) PROVE Tallies(absStage', absAccount')
  <2>1. absAccount' = Entered(absAccount, absStage[r].period, Change("held", "owed", "held"),
                              Change("held", "owed", "owed"), 0)
    BY <1>1, <1>2, <1>6, Entries, Changes, 0 \in Int DEF Budget!Doubt
  <2>2. absStage[r].money = "held" /\ absStage' = [absStage EXCEPT ![r].money = "owed"]
    BY <1>6 DEF Budget!Doubt, Budget!At
  <2> QED
    BY <2>1, <2>2, MovesWithin, 0 \in Int
<1>7. ASSUME NEW r \in Runs, Budget!Learn(r) PROVE Tallies(absStage', absAccount')
  <2>1. PICK c \in Charges : absAccount' = Budget!Clear(absAccount, absStage[r].period, c)
    BY <1>7 DEF Budget!Learn
  <2>2. absAccount' = Entered(absAccount, absStage[r].period, Change("owed", "settled", "held"),
                              Change("owed", "settled", "owed"), c)
    BY <1>1, <1>2, <2>1, Entries, Changes
  <2>3. absStage[r].money = "owed" /\ absStage' = [absStage EXCEPT ![r].money = "settled"]
    BY <1>7 DEF Budget!Learn, Budget!At
  <2> QED
    BY <1>1, <2>2, <2>3, MovesWithin
<1>8. ASSUME NEW r \in Runs, NEW p \in Periods, Budget!Admit(r, p)
      PROVE  Tallies(absStage', absAccount')
  BY <1>4, <1>8 DEF Budget!Admit
<1>9. ASSUME NEW r \in Runs, NEW s \in Runs, NEW p \in Periods, Budget!Replace(r, s, p)
      PROVE  Tallies(absStage', absAccount')
  <2>1. PICK m \in {"settled", "owed"}, c \in Charges :
          /\ absStage' = [absStage EXCEPT ![r].money = m, ![s] = Budget!Stage("held", p)]
          /\ absAccount' = Budget!Hold(IF m = "owed" THEN Budget!Defer(absAccount, absStage[r].period)
                                       ELSE Budget!Settle(absAccount, absStage[r].period, c), p)
    BY <1>9 DEF Budget!Replace
  <2> DEFINE f == [absStage EXCEPT ![r].money = m]
             d == IF m = "owed" THEN 0 ELSE c
             a == Entered(absAccount, absStage[r].period, Change("held", m, "held"),
                          Change("held", m, "owed"), d)
  <2>2. absStage[r].money = "held" /\ absStage[s].money = "none" /\ r # s
    BY <1>9 DEF Budget!Replace, Budget!At
  <2>3. f = [t \in Runs |-> f[t]] /\ f[s] = Budget!Stage("none", absStage[s].period)
    BY <1>2, <2>2, StagesOf
  <2>4. d \in Int /\ absStage[r].period \in Periods
    BY <1>1, <1>2
  <2>5. Tallies(f, a)
    BY <2>2, <2>4, MovesWithin
  <2>6. a = IF m = "owed" THEN Budget!Defer(absAccount, absStage[r].period)
            ELSE Budget!Settle(absAccount, absStage[r].period, c)
    BY <1>1, <2>4, Changes, Entries
  <2>7. a \in [Periods -> AbsRow]
    <3>1. Change("held", m, "held") \in Int /\ Change("held", m, "owed") \in Int
      BY DEF Change
    <3> HIDE DEF d
    <3>2. ASSUME NEW h \in Int, NEW o \in Int, NEW q \in Periods
          PROVE  Entered(absAccount, q, h, o, d) \in [Periods -> AbsRow]
      BY <1>1, <2>4, Numbers DEF Entered, AbsRow
    <3> QED
      BY <2>4, <3>1, <3>2
  <2>8. absStage' = [f EXCEPT ![s] = Budget!Stage("held", p)] /\ absAccount' = Budget!Hold(a, p)
    BY <2>1, <2>6
  <2> HIDE DEF a, f
  <2> QED
    BY <2>3, <2>5, <2>7, <2>8, MovesInto
<1> QED
  BY <1>5, <1>6, <1>7, <1>8, <1>9 DEF Budget!Next

\* How many runs a period admitted.
AdmittedIsCounted == \A p \in Periods : ledger[p].admitted = Cardinality(In(p))

\* What a step leaves of the runs in their periods.
StaysIn(r) == /\ run'[r].status = "NONE" <=> run[r].status = "NONE"
              /\ run'[r].period = run[r].period

LEMMA NoneIsAdmitted ==
  ASSUME AdmittedIsCounted, \A r \in Runs : StaysIn(r),
         \A p \in Periods : ledger'[p].admitted = ledger[p].admitted
  PROVE  AdmittedIsCounted'
<1>1. \A p \in Periods : In(p)' = In(p)
  BY DEF In, StaysIn
<1> QED
  BY <1>1 DEF AdmittedIsCounted

LEMMA OneIsAdmitted ==
  ASSUME Typed, AdmittedIsCounted, NEW l \in [Periods -> Account],
         \A p \in Periods : l[p].admitted = ledger[p].admitted,
         ledger' = Reserved(l, period),
         NEW s \in Runs, run[s].status = "NONE", run'[s].status = "PENDING", run'[s].period = period,
         \A t \in Runs \ {s} : StaysIn(t)
  PROVE  AdmittedIsCounted'
<1>1. \A p \in Periods : In(p)' = IF p = period THEN In(p) \cup {s} ELSE In(p)
  BY DEF In, StaysIn
<1>2. \A p \in Periods : IsFiniteSet(In(p)) /\ s \notin In(p)
  BY RunsAreFinite DEF In
<1>3. \A p \in Periods : ledger'[p].admitted = IF p = period THEN l[p].admitted + 1 ELSE l[p].admitted
  BY DEF Reserved, Account
<1>4. \A p \in Periods : Cardinality(In(p) \cup {s}) = Cardinality(In(p)) + 1
  BY <1>2, FS_AddElement
<1> QED
  BY <1>1, <1>3, <1>4 DEF AdmittedIsCounted

LEMMA SettledAdmitsNone ==
  ASSUME NEW l \in [Periods -> Account], NEW q \in Periods, NEW cost, NEW owed
  PROVE  \A p \in Periods : Settled(l, q, cost, owed)[p].admitted = l[p].admitted
  BY DEF Settled, Account

LEMMA AdmittedStays ==
  ASSUME Typed, Typed', AdmittedIsCounted, [Next]_vars
  PROVE  AdmittedIsCounted'
<1>0. ledger \in [Periods -> Account] /\ run \in [Runs -> RunRow] /\ \A r \in Runs : run[r].period \in Periods
  BY DEF Typed, RunRow
<1>1. CASE Admission
  <2>1. ASSUME NEW c \in Callers, NEW s \in Runs, Admit(c, s) PROVE AdmittedIsCounted'
    <3>1. caller[c] \in Keys /\ ProductOf[caller[c]] \in Products
      BY <2>1 DEF Admit, Typed, Products
    <3>2. /\ run[s].status = "NONE" /\ run'[s].status = "PENDING" /\ run'[s].period = period
          /\ \A t \in Runs \ {s} : run'[t] = run[t]
      BY <2>1, <3>1, PendingIsTyped DEF Admit, Fresh, Typed
    <3>3. \A t \in Runs \ {s} : StaysIn(t)
      BY <3>2 DEF StaysIn
    <3> QED
      BY <1>0, <2>1, <3>2, <3>3, OneIsAdmitted DEF Admit
  <2>2. ASSUME run' = run, ledger' = ledger PROVE AdmittedIsCounted'
    BY <2>2, NoneIsAdmitted DEF StaysIn
  <2> QED
    BY <1>1, <2>1, <2>2 DEF Admission, Request, GiveUp, rows
<1>2. ASSUME NEW w \in Workers, NEW r \in Runs, Claim(w, r) PROVE AdmittedIsCounted'
  <2>1. \A t \in Runs : StaysIn(t)
    BY <1>0, <1>2 DEF Claim, StaysIn, RunRow
  <2> QED
    BY <1>2, <2>1, NoneIsAdmitted DEF Claim
<1>3. ASSUME NEW w \in Workers, Execute(w) \/ Crash(w) PROVE AdmittedIsCounted'
  <2>1. CASE run' = run /\ ledger' = ledger
    BY <2>1, NoneIsAdmitted DEF StaysIn
  <2>2. ASSUME NEW r \in Runs, NEW cost, NEW owed, ledger' = Settled(ledger, run[r].period, cost, owed),
               run[r].status = "RUNNING", NEW end \in {"SUCCEEDED", "FAILED"}, NEW code,
               run' = [run EXCEPT ![r].status = end, ![r].cost = cost]
               \/ run' = [run EXCEPT ![r].status = end, ![r].code = code, ![r].cost = cost]
        PROVE  AdmittedIsCounted'
    <3>1. \A t \in Runs : StaysIn(t)
      BY <1>0, <2>2 DEF StaysIn, RunRow
    <3>2. \A p \in Periods : ledger'[p].admitted = ledger[p].admitted
      BY <1>0, <2>2, SettledAdmitsNone
    <3> QED
      BY <3>1, <3>2, NoneIsAdmitted
  <2>3. CASE FinishSuccess(w)
    <3>1. worker[w].run \in Runs /\ run[worker[w].run].status = "RUNNING"
      BY <2>3 DEF FinishSuccess, Owns, Typed, Carrying
    <3> QED
      BY <2>2, <2>3, <3>1 DEF FinishSuccess
  <2>4. CASE FinishFailure(w)
    <3>1. worker[w].run \in Runs /\ run[worker[w].run].status = "RUNNING"
      BY <2>4 DEF FinishFailure, Owns, Typed, Carrying
    <3> QED
      BY <2>2, <2>4, <3>1 DEF FinishFailure
  <2> QED
    BY <1>3, <2>1, <2>3, <2>4
    DEF Execute, RefuseInvocation, MarkProviderStarted, CallProvider, Answer, TryAgain, EndCall,
        RecordResponse, MarkAttemptUnknown, LateWorkerStops, Crash, rows
<1>4. ASSUME NEW r \in Runs, Recovery(r) PROVE AdmittedIsCounted'
  <2>1. ASSUME run'[r] = AbandonedRun(r), run[r].status = "RUNNING" PROVE StaysIn(r)
    BY <1>0, <2>1 DEF AbandonedRun, StaysIn, RunRow
  <2>2. CASE Abandon(r)
    <3>1. \A t \in Runs : StaysIn(t)
      BY <1>0, <2>1, <2>2 DEF Abandon, CanAbandon, Stranded, StaysIn
    <3>2. \A p \in Periods : ledger'[p].admitted = ledger[p].admitted
      BY <1>0, <2>2, SettledAdmitsNone DEF Abandon, AbandonedLedger
    <3> QED
      BY <3>1, <3>2, NoneIsAdmitted
  <2>3. CASE ReconcileUnknownCost(r)
    <3>1. \A t \in Runs : StaysIn(t)
      BY <2>3 DEF ReconcileUnknownCost, StaysIn
    <3>2. \A p \in Periods : ledger'[p].admitted = ledger[p].admitted
      BY <1>0, <2>3 DEF ReconcileUnknownCost, Account
    <3> QED
      BY <3>1, <3>2, NoneIsAdmitted
  <2>4. ASSUME NEW s \in Runs, RerunStranded(r, s) PROVE AdmittedIsCounted'
    <3>1. /\ s # r /\ run[s].status = "NONE" /\ run[r].status = "RUNNING"
          /\ run'[r] = AbandonedRun(r) /\ run'[s].status = "PENDING" /\ run'[s].period = period
          /\ \A t \in Runs \ {r, s} : run'[t] = run[t]
      BY <2>4, RerunStrandedStep
    <3>2. \A t \in Runs \ {s} : StaysIn(t)
      BY <2>1, <3>1 DEF StaysIn
    <3>3. /\ AbandonedLedger(r) \in [Periods -> Account]
          /\ \A p \in Periods : AbandonedLedger(r)[p].admitted = ledger[p].admitted
      BY <1>0, <2>4, AbandoningIsTyped, SettledAdmitsNone DEF RerunStranded, AbandonedLedger
    <3>4. ledger' = Reserved(AbandonedLedger(r), period)
      BY <2>4 DEF RerunStranded
    <3> QED
      BY <3>1, <3>2, <3>3, <3>4, OneIsAdmitted
  <2>5. ASSUME NEW s \in Runs, RerunKnownFailure(r, s) PROVE AdmittedIsCounted'
    <3>1. /\ run[s].status = "NONE" /\ run'[s].status = "PENDING" /\ run'[s].period = period
          /\ \A t \in Runs \ {s} : run'[t] = run[t]
      BY <2>5, RerunKnownFailureStep
    <3>2. \A t \in Runs \ {s} : StaysIn(t)
      BY <3>1 DEF StaysIn
    <3> QED
      BY <1>0, <2>5, <3>1, <3>2, OneIsAdmitted DEF RerunKnownFailure
  <2> QED
    BY <1>4, <2>2, <2>3, <2>4, <2>5 DEF Recovery
<1>5. CASE NextPeriod \/ UNCHANGED vars
  BY <1>5, NoneIsAdmitted DEF NextPeriod, vars, rows, StaysIn
<1> QED
  BY <1>1, <1>2, <1>3, <1>4, <1>5 DEF Next

LEMMA LedgerBalancesAtFirst ==
  ASSUME Init
  PROVE  AdmittedIsCounted /\ Tallies(absStage, absAccount)
<1>1. \A p \in Periods : In(p) = {}
  BY DEF Init, In, Absent
<1>2. \A p \in Periods : \A m \in {"held", "owed"} : Placed(absStage, Budget!Stage(m, p)) = {}
  BY NoMoney DEF Init, Absent, Placed, Budget!Stage
<1>3. Cardinality({}) = 0 /\ Reserve * 0 = 0
  BY FS_EmptySet, Numbers
<1>4. \A p \in Periods : /\ ledger[p].admitted = 0 /\ absAccount[p].held = 0 /\ absAccount[p].owed = 0
  BY DEF Init, absAccount
<1> QED
  BY <1>1, <1>2, <1>3, <1>4 DEF AdmittedIsCounted, Tallies

LEMMA BalancedLedgerMatches ==
  ASSUME Typed, AdmittedIsCounted, Tallies(absStage, absAccount)
  PROVE  LedgerMatchesRuns
<1> SUFFICES ASSUME NEW p \in Periods
             PROVE  /\ ledger[p].admitted = Cardinality(In(p))
                    /\ ledger[p].reserved = Reserve * Cardinality({r \in In(p) : Active(r)})
                    /\ ledger[p].unknown = Reserve * Cardinality({r \in In(p) : InDoubt(r)})
  BY DEF LedgerMatchesRuns
<1>1. \A r \in Runs : run[r].status \in RunStatuses
  BY DEF Typed, RunRow
<1>2. ASSUME NEW r \in Runs
      PROVE  /\ absStage[r] = Budget!Stage("held", p) <=> r \in In(p) /\ Active(r)
             /\ absStage[r] = Budget!Stage("owed", p) <=> r \in In(p) /\ InDoubt(r)
  <2>1. absStage[r] = Budget!Stage(Money(r), run[r].period)
    BY StagesOf
  <2>2. Money(r) = "held" <=> Active(r)
    BY DEF Money, Active
  <2>3. Money(r) = "owed" <=> InDoubt(r)
    BY <1>1 DEF Money, Active, InDoubt, Terminal, RunStatuses
  <2>4. Active(r) \/ InDoubt(r) => run[r].status # "NONE"
    BY DEF Active, InDoubt, Terminal
  <2> QED
    BY <2>1, <2>2, <2>3, <2>4, StagesDiffer DEF In
<1>3. /\ Placed(absStage, Budget!Stage("held", p)) = {r \in In(p) : Active(r)}
      /\ Placed(absStage, Budget!Stage("owed", p)) = {r \in In(p) : InDoubt(r)}
  BY <1>2 DEF Placed, In
<1>4. absAccount[p].held = ledger[p].reserved /\ absAccount[p].owed = ledger[p].unknown
  BY DEF absAccount
<1> QED
  BY <1>3, <1>4 DEF AdmittedIsCounted, Tallies

\* In every reachable state the counters of a period are what its runs and attempts say: as
\* many runs as it admitted, a reservation for each that is not closed, and one for each that
\* was closed in doubt and has no invoice.  The last two follow from the refinement: every
\* step of BudgetOnce keeps its accounts the sums of its stages.
THEOREM LedgerStaysTrue == Spec => []LedgerMatchesRuns
<1> DEFINE Inv == Typed /\ Sound /\ AdmittedIsCounted /\ Tallies(absStage, absAccount)
<1>1. Init => Inv
  BY TypedInit, SoundInit, LedgerBalancesAtFirst
<1>2. Inv /\ [Next]_vars => Inv'
  <2> SUFFICES ASSUME Inv, [Next]_vars PROVE Inv'
    OBVIOUS
  <2>1. Typed' /\ Sound'
    BY StaysTyped, StaysSound
  <2>2. AdmittedIsCounted'
    BY <2>1, AdmittedStays
  <2>3. Tallies(absStage, absAccount)'
    BY <2>1, StepRefines, TalliesStay DEF Tallies
  <2> QED
    BY <2>1, <2>2, <2>3
<1>3. Inv => LedgerMatchesRuns
  BY BalancedLedgerMatches
<1> QED
  BY <1>1, <1>2, <1>3, PTL DEF Spec

=============================================================================
