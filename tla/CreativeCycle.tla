---------------------------- MODULE CreativeCycle ----------------------------
(***************************************************************************)
(* The creative cycles of one product (orchestration/application.py) and   *)
(* the workflow that reconciles each (CreativeCycleWorkflow).  A           *)
(* reconciliation reads the cycle and what the product has in one          *)
(* transaction, decides, and acts in another on the row it finds then: a   *)
(* cancellation, or an attempt that outlived its time-out, may have come   *)
(* between.  Wake-ups only make the workflow's ten-second timer run out    *)
(* sooner, so a reconciliation may begin at any time.                      *)
(***************************************************************************)
EXTENDS Pipeline

CONSTANTS Attempts,   \* activity slots
          MaxFaults,  \* bound on crashes, time-outs and failed calls
          MaxSetbacks \* bound on what goes wrong or is turned down in the pipeline

ASSUME CycleAssumption == {MaxFaults, MaxSetbacks} \subseteq Nat

Cycles == Requesters

VARIABLES cycle,     \* orchestration.creative_cycles
          steps,     \* orchestration.cycle_steps: the keys each cycle has
          flow,      \* each cycle's workflow, its failed tries and its live attempt
          attempt,   \* an activity attempt: its cycle, what it decided and saw
          launched,  \* drafts whose publication workflow was started
          faults,    \* bound
          setbacks   \* bound

vars == <<runs, revalidated, cycle, steps, flow, attempt, launched, faults, setbacks>>
product == <<runs, revalidated>>

-----------------------------------------------------------------------------
(* Stages.                                                                 *)

NextStages ==
  [CREATED |-> {"CHECKING_READINESS"},
   CHECKING_READINESS |-> {"RESEARCHING"},
   RESEARCHING |-> {"CREATIVE_STRATEGY", "FAILED"},
   CREATIVE_STRATEGY |-> {"AWAITING_CONCEPT_APPROVAL", "FAILED"},
   AWAITING_CONCEPT_APPROVAL |-> {"PRODUCTION_PLANNING", "CREATIVE_STRATEGY"},
   PRODUCTION_PLANNING |-> {"AWAITING_PRODUCTION_APPROVAL", "FAILED"},
   AWAITING_PRODUCTION_APPROVAL |-> {"GENERATING_MEDIA"},
   GENERATING_MEDIA |-> {"ASSEMBLING_FINAL_CREATIVE", "FAILED"},
   ASSEMBLING_FINAL_CREATIVE |-> {"AWAITING_FINAL_CREATIVE_APPROVAL", "FAILED"},
   AWAITING_FINAL_CREATIVE_APPROVAL |-> {"AWAITING_PUBLICATION_INPUT"},
   AWAITING_PUBLICATION_INPUT |-> {"AWAITING_PUBLICATION_APPROVAL"},
   AWAITING_PUBLICATION_APPROVAL |-> {"PUBLISHING"},
   PUBLISHING |-> {"MEASURING", "FAILED"},
   MEASURING |-> {"INTELLIGENCE", "FAILED"},
   INTELLIGENCE |-> {"AWAITING_EXPERIMENT_DECISION", "COMPLETED", "FAILED"},
   AWAITING_EXPERIMENT_DECISION |-> {"COMPLETED"},
   COMPLETED |-> {}, FAILED |-> {}, CANCELLED |-> {}]

Stages == DOMAIN NextStages
Ends == {"COMPLETED", "FAILED", "CANCELLED"}
Legal(from, to) == to \in NextStages[from] \/ (to = "CANCELLED" /\ from \notin Ends)
Statuses == {"ACTIVE", "BLOCKED", "NEEDS_RECOVERY"} \cup Ends
StatusOf(stage) == IF stage \in Ends THEN stage ELSE "ACTIVE"

Unbound == [research |-> None, creative |-> None, concepts |-> None, producer |-> None,
            draft |-> None, proposal |-> None]
Binding == [research : Runs \cup {None}, creative : Runs \cup {None}, concepts : Runs \cup {None},
            producer : Runs \cup {None}, draft : Runs \cup {None}, proposal : Runs \cup {None}]
NoCycle == [status |-> "NONE", stage |-> "CREATED", bound |-> Unbound, source |-> None]
NoFlow == [state |-> "none", tries |-> 0, by |-> None]
Idle == [at |-> "idle", cycle |-> None, goal |-> "none", seen |-> Unbound]

\* The partial unique index of creative_cycles.
Active(c) == cycle[c].status \in {"ACTIVE", "BLOCKED", "NEEDS_RECOVERY"}
MayBeActive(c) == \A d \in Cycles \ {c} : ~Active(d)

-----------------------------------------------------------------------------
(* What a reconciliation reads (canonical_state).                          *)

\* The concept set bound, or the one of the creative run bound; its concept if ever approved.
Concepts(b) ==
  IF b.concepts # None THEN b.concepts
  ELSE IF State(b.creative) \in ConceptStates THEN b.creative ELSE None

Concept(b) == IF State(Concepts(b)) \in {"approved", "withdrawn"} THEN Concepts(b) ELSE None

Pipe(b) == Observe(b.research, b.creative, Concept(b), b.producer)

\* Mutant: the draft is read from the plan, bound or not.
DraftOfPlan(b) == IF State(b.producer) \in PublicationStates THEN b.producer ELSE None

Draft(b) ==
  IF b.draft # None THEN b.draft
  ELSE IF State(b.producer) \in PublicationStates THEN b.producer ELSE None

\* The intelligence run whose key is the cycle's.
Insight(c) == IF \E i \in Runs : runs[i].by = c THEN CHOOSE i \in Runs : runs[i].by = c ELSE None

Proposal(c, b) ==
  IF b.proposal # None THEN b.proposal
  ELSE IF State(Insight(c)) \in ProposalStates THEN Insight(c) ELSE None

Governed == {"RESEARCHING", "CREATIVE_STRATEGY", "AWAITING_CONCEPT_APPROVAL",
             "PRODUCTION_PLANNING", "AWAITING_PRODUCTION_APPROVAL", "GENERATING_MEDIA",
             "ASSEMBLING_FINAL_CREATIVE", "AWAITING_FINAL_CREATIVE_APPROVAL"}

Strategy == {"CREATIVE", "CREATIVE_RECOVERY", "CREATIVE_AUTHORITY_REFRESH",
             "CREATIVE_REVALIDATION", "CREATIVE_RESTRATEGY"}
Reviewed == {"FINAL_CREATIVE_REVIEW", "FINAL_CREATIVE_READY"}
Assembled == {"ASSEMBLY", "ASSEMBLY_RECOVERY"} \cup Reviewed
Generated == {"READY_FOR_GENERATION", "MEDIA_GENERATION", "MEDIA_RECOVERY"} \cup Assembled
Planned == {"PRODUCER", "PRODUCER_RECOVERY", "PRODUCTION_PLAN_REVIEW"} \cup Generated

\* The stage a governed cycle moves to when the pipeline is at o, or "none".
Follow(stage, o) ==
  CASE stage = "RESEARCHING" /\ o.stage \notin {"RESEARCH", "RESEARCH_RECOVERY"}
         -> "CREATIVE_STRATEGY"
    [] stage = "CREATIVE_STRATEGY" /\ o.stage \notin Strategy -> "AWAITING_CONCEPT_APPROVAL"
    [] stage = "AWAITING_CONCEPT_APPROVAL" /\ o.stage \in Strategy -> "CREATIVE_STRATEGY"
    [] stage = "AWAITING_CONCEPT_APPROVAL" /\ o.stage \in Planned -> "PRODUCTION_PLANNING"
    [] stage = "PRODUCTION_PLANNING" /\ o.stage \notin {"PRODUCER", "PRODUCER_RECOVERY"}
         -> "AWAITING_PRODUCTION_APPROVAL"
    [] stage = "AWAITING_PRODUCTION_APPROVAL" /\ o.stage \in Generated -> "GENERATING_MEDIA"
    [] stage = "GENERATING_MEDIA" /\ o.stage \in Assembled -> "ASSEMBLING_FINAL_CREATIVE"
    [] stage = "ASSEMBLING_FINAL_CREATIVE" /\ o.stage \in Reviewed
         -> "AWAITING_FINAL_CREATIVE_APPROVAL"
    [] stage = "AWAITING_FINAL_CREATIVE_APPROVAL" /\ o.action = "FINAL_CREATIVE_READY"
         -> "AWAITING_PUBLICATION_INPUT"
    [] OTHER -> "none"

\* Mutant: whatever an operator is needed for is waited for.
GovernedGoalFrozen(stage, o) ==
  IF ~o.found THEN "needs_recovery"
  ELSE IF o.action \notin Passive THEN "operator"
  ELSE Follow(stage, o)

GovernedGoal(stage, o) ==
  IF ~o.found THEN "needs_recovery"
  ELSE IF Follow(stage, o) # "none" THEN Follow(stage, o)
  ELSE IF o.action \in Passive THEN "none" ELSE "operator"

\* _next: a stage to go to, an action to start, or nothing.
Goal(c) ==
  LET b == cycle[c].bound
      stage == cycle[c].stage
      publication == State(Draft(b))
      insight == State(Insight(c))
  IN
  CASE stage = "CREATED" -> "CHECKING_READINESS"
    [] stage = "CHECKING_READINESS" -> "RESEARCHING"
    [] stage \in Governed -> GovernedGoal(stage, Pipe(b))
    [] stage = "AWAITING_PUBLICATION_INPUT" /\ publication # "none"
         -> "AWAITING_PUBLICATION_APPROVAL"
    [] stage = "AWAITING_PUBLICATION_APPROVAL" /\ publication \notin {"none", "drafted"}
         -> "PUBLISHING"
    [] stage = "PUBLISHING" ->
         CASE publication = "unknown" -> "needs_recovery"
           [] publication = "refused" -> "FAILED"
           [] publication \in {"published", "measured"} -> "MEASURING"
           [] publication = "authorized" -> "publishing"
           [] OTHER -> "none"
    [] stage = "MEASURING" /\ publication = "measured" -> "INTELLIGENCE"
    [] stage = "MEASURING" /\ publication = "published" -> "measurement"
    [] stage = "INTELLIGENCE" ->
         CASE insight = "none" -> "intelligence"
           [] insight \in ProposalStates -> "AWAITING_EXPERIMENT_DECISION"
           [] insight = "reported" -> "COMPLETED"
           [] insight = "failed" -> "FAILED"
           [] OTHER -> "none"
    [] stage = "AWAITING_EXPERIMENT_DECISION"
         /\ State(Proposal(c, b)) \in {"accepted", "declined"} -> "COMPLETED"
    [] OTHER -> "none"

\* The bindings a transition writes, from what the reconciliation read.
Rebound(c) ==
  LET b == cycle[c].bound
      o == Pipe(b)
      line == IF o.found THEN o ELSE b
  IN  [research |-> line.research, creative |-> line.creative, producer |-> line.producer,
       concepts |-> Concepts(b), draft |-> Draft(b), proposal |-> Proposal(c, b)]

-----------------------------------------------------------------------------
(* The workflow's activity attempts.                                       *)

Live(a) == flow[attempt[a].cycle].by = a

\* An attempt that Temporal still waits for ends well, or badly; two that fail end the
\* workflow (maximum_attempts).
Ended(a, over) ==
  /\ attempt' = [attempt EXCEPT ![a] = Idle]
  /\ flow' = IF ~Live(a) THEN flow
             ELSE [flow EXCEPT ![attempt[a].cycle] =
                    [state |-> IF over THEN "completed" ELSE "running", tries |-> 0, by |-> None]]

\* Mutant: the tries of an activity are not limited.
OneTryLessForEver(c) ==
  flow' = [flow EXCEPT ![c] = [state |-> "running", tries |-> flow[c].tries + 1, by |-> None]]

OneTryLess(c) ==
  flow' = [flow EXCEPT ![c] =
    IF flow[c].tries = 1 THEN [state |-> "failed", tries |-> 0, by |-> None]
    ELSE [state |-> "running", tries |-> 1, by |-> None]]

Raises(a) ==
  /\ attempt' = [attempt EXCEPT ![a] = Idle]
  /\ IF Live(a) THEN OneTryLess(attempt[a].cycle) ELSE UNCHANGED flow
  /\ UNCHANGED <<product, cycle, steps, launched, faults, setbacks>>

\* The first transaction.  A cycle that has ended ends its workflow; one with nothing to do
\* is left alone.
Reconcile(a, c) ==
  LET goal == Goal(c) IN
  /\ attempt[a].at = "idle" /\ flow[c].state = "running" /\ flow[c].by = None
  /\ IF cycle[c].status \in Ends
     THEN /\ flow' = [flow EXCEPT ![c].state = "completed"]
          /\ UNCHANGED attempt
     ELSE /\ goal # "none"
          /\ attempt' = [attempt EXCEPT ![a] =
               [at |-> "decided", cycle |-> c, goal |-> goal,
                seen |-> IF goal \in Stages THEN Rebound(c) ELSE cycle[c].bound]]
          /\ flow' = [flow EXCEPT ![c].by = a]
  /\ UNCHANGED <<product, cycle, steps, launched, faults, setbacks>>

\* Mutant: the target is checked against the stage that was read, which it follows.
CanMoveAsRead(c, goal) == TRUE

CanMove(c, goal) == Legal(cycle[c].stage, goal)

\* _transition, on the row as it is now.
Transition(a) ==
  LET c == attempt[a].cycle
      goal == attempt[a].goal
  IN
  /\ attempt[a].at = "decided" /\ goal \in Stages
  /\ IF CanMove(c, goal) /\ (StatusOf(goal) = "ACTIVE" => MayBeActive(c))
     THEN /\ cycle' = [cycle EXCEPT ![c] =
               [@ EXCEPT !.stage = goal, !.status = StatusOf(goal), !.bound = attempt[a].seen]]
          /\ Ended(a, goal \in Ends)
          /\ UNCHANGED <<product, steps, launched, faults, setbacks>>
     ELSE Raises(a)

\* The status is written over whatever the row says now; only the index may refuse it.
Halt(a) ==
  LET c == attempt[a].cycle IN
  /\ attempt[a].at = "decided" /\ attempt[a].goal \in {"needs_recovery", "operator"}
  /\ IF MayBeActive(c)
     THEN /\ cycle' = [cycle EXCEPT ![c].status =
               IF attempt[a].goal = "operator" THEN "BLOCKED" ELSE "NEEDS_RECOVERY"]
          /\ Ended(a, FALSE)
          /\ UNCHANGED <<product, steps, launched, faults, setbacks>>
     ELSE Raises(a)

\* A step that was taken is not taken again.
SkipStep(a) ==
  /\ attempt[a].at = "decided"
  /\ attempt[a].goal \in steps[attempt[a].cycle]
  /\ Ended(a, FALSE)
  /\ UNCHANGED <<product, cycle, steps, launched, faults, setbacks>>

\* Mutant: the step is recorded before its workflow is started.
RecordBeforeStart(a) ==
  LET c == attempt[a].cycle IN
  /\ attempt[a].at = "decided" /\ attempt[a].goal \in {"publishing", "measurement"}
  /\ attempt[a].goal \notin steps[c]
  /\ attempt' = [attempt EXCEPT ![a].at = "started"]
  /\ steps' = [steps EXCEPT ![c] = @ \cup {attempt[a].goal}]
  /\ UNCHANGED <<product, cycle, flow, launched, faults, setbacks>>

\* start_publication and start_measurement, which Temporal answers as success when the
\* workflow is running or has run.
StartStep(a) ==
  /\ attempt[a].at = "decided" /\ attempt[a].goal \in {"publishing", "measurement"}
  /\ attempt[a].goal \notin steps[attempt[a].cycle]
  /\ attempt' = [attempt EXCEPT ![a].at = "started"]
  /\ launched' = IF attempt[a].goal = "publishing" THEN launched \cup {Draft(attempt[a].seen)}
                 ELSE launched
  /\ UNCHANGED <<product, cycle, steps, flow, faults, setbacks>>

\* A step that another attempt has recorded meanwhile is left as it is; intelligence, which
\* writes the bindings it read along with its step, is refused by the table's unique key.
RecordStep(a) ==
  LET c == attempt[a].cycle
      step == attempt[a].goal
  IN
  /\ attempt[a].at = "started"
  /\ IF step = "intelligence" /\ step \in steps[c] THEN Raises(a)
     ELSE /\ steps' = [steps EXCEPT ![c] = @ \cup {step}]
          /\ cycle' = IF step = "intelligence" THEN [cycle EXCEPT ![c].bound = attempt[a].seen]
                      ELSE cycle
          /\ Ended(a, FALSE)
          /\ UNCHANGED <<product, launched, faults, setbacks>>

\* request_intelligence: the run of the cycle's key, another's that is still active, which
\* the cycle must not claim, or a new one.
RequestIntelligence(a) ==
  LET c == attempt[a].cycle
      others == {i \in Of("intelligence") : State(i) = "pending" /\ runs[i].by # c}
  IN
  /\ attempt[a].at = "decided" /\ attempt[a].goal = "intelligence"
  /\ "intelligence" \notin steps[c]
  /\ IF Insight(c) = None /\ others # {}
     THEN /\ attempt' = [attempt EXCEPT ![a].goal = "needs_recovery"]
          /\ UNCHANGED runs
     ELSE /\ attempt' = [attempt EXCEPT ![a].at = "started"]
          /\ IF Insight(c) # None THEN UNCHANGED runs
             ELSE \E i \in Runs : Fresh(i) /\ Requested(i, "intelligence", None, None, c)
  /\ UNCHANGED <<revalidated, cycle, steps, flow, launched, faults, setbacks>>

\* The activity is not over in time, or its worker dies, or a call it makes fails.
TimesOut(a) ==
  /\ attempt[a].at # "idle" /\ Live(a) /\ faults < MaxFaults
  /\ faults' = faults + 1
  /\ OneTryLess(attempt[a].cycle)
  /\ UNCHANGED <<product, cycle, steps, attempt, launched, setbacks>>

Dies(a) ==
  /\ attempt[a].at # "idle" /\ faults < MaxFaults
  /\ faults' = faults + 1
  /\ attempt' = [attempt EXCEPT ![a] = Idle]
  /\ IF Live(a) THEN OneTryLess(attempt[a].cycle) ELSE UNCHANGED flow
  /\ UNCHANGED <<product, cycle, steps, launched, setbacks>>

-----------------------------------------------------------------------------
(* What people do with cycles.                                             *)

\* A cycle of its own, or the child of the experiment a completed cycle is bound to.
Start(c, parent) ==
  /\ cycle[c].status = "NONE" /\ \A d \in Cycles : d < c => cycle[d].status # "NONE"
  /\ MayBeActive(c)
  /\ parent # None =>
       /\ cycle[parent].status = "COMPLETED" /\ cycle[parent].stage = "COMPLETED"
       /\ State(cycle[parent].bound.proposal) = "accepted"
       /\ \A d \in Cycles : cycle[d].source # cycle[parent].bound.proposal
  /\ cycle' = [cycle EXCEPT ![c] =
       [NoCycle EXCEPT !.status = "ACTIVE",
                       !.source = IF parent = None THEN None ELSE cycle[parent].bound.proposal]]
  /\ flow' = [flow EXCEPT ![c].state = "committed"]
  /\ UNCHANGED <<product, steps, attempt, launched, faults, setbacks>>

\* The workflow is started after the commit, unless the process dies in between.
StartWorkflow(c) ==
  /\ flow[c].state = "committed"
  /\ flow' = [flow EXCEPT ![c].state = "running"]
  /\ UNCHANGED <<product, cycle, steps, attempt, launched, faults, setbacks>>

LoseWorkflow(c) ==
  /\ flow[c].state = "committed" /\ faults < MaxFaults
  /\ faults' = faults + 1
  /\ flow' = [flow EXCEPT ![c].state = "none"]
  /\ UNCHANGED <<product, cycle, steps, attempt, launched, setbacks>>

Cancel(c) ==
  /\ cycle[c].status \notin {"NONE", "CANCELLED"} /\ Legal(cycle[c].stage, "CANCELLED")
  /\ cycle' = [cycle EXCEPT ![c].stage = "CANCELLED", ![c].status = "CANCELLED"]
  /\ UNCHANGED <<product, steps, flow, attempt, launched, faults, setbacks>>

Init ==
  /\ PipelineInit
  /\ cycle = [c \in Cycles |-> NoCycle]
  /\ steps = [c \in Cycles |-> {}]
  /\ flow = [c \in Cycles |-> NoFlow]
  /\ attempt = [a \in Attempts |-> Idle]
  /\ launched = {} /\ faults = 0 /\ setbacks = 0

Act(a) ==
  \/ Transition(a) \/ Halt(a) \/ SkipStep(a) \/ StartStep(a) \/ RecordStep(a)
  \/ RequestIntelligence(a)

World ==
  /\ \/ Order
     \/ \E i \in Runs : AskIntelligence(i) \/ Progress(i)
     \/ \E p \in launched : Publish(p)
  /\ UNCHANGED <<cycle, steps, flow, attempt, launched, faults, setbacks>>

Mishap ==
  /\ setbacks < MaxSetbacks /\ setbacks' = setbacks + 1
  /\ \E i \in Runs : SetBack(i)
  /\ UNCHANGED <<cycle, steps, flow, attempt, launched, faults>>

Next ==
  \/ World \/ Mishap
  \/ \E c \in Cycles :
       \/ \E parent \in Cycles \cup {None} : Start(c, parent)
       \/ StartWorkflow(c) \/ LoseWorkflow(c) \/ Cancel(c)
       \/ \E a \in Attempts : Reconcile(a, c)
  \/ \E a \in Attempts : Act(a) \/ TimesOut(a) \/ Dies(a)

Spec == Init /\ [][Next]_vars

\* A worker polls and goes on with what it has taken, and its time-outs are durable.
FairSpec ==
  /\ Spec
  /\ \A c \in Cycles : WF_vars(StartWorkflow(c)) /\ WF_vars(\E a \in Attempts : Reconcile(a, c))
  /\ \A a \in Attempts : WF_vars(Act(a))

-----------------------------------------------------------------------------
(* Properties.                                                             *)

TypeOK ==
  /\ PipelineTypeOK
  /\ cycle \in [Cycles -> [status : Statuses \cup {"NONE"}, stage : Stages,
                          bound : Binding,
                          source : Runs \cup {None}]]
  /\ steps \in [Cycles -> SUBSET {"publishing", "measurement", "intelligence"}]
  /\ \A c \in Cycles :
       /\ flow[c].state \in {"none", "committed", "running", "completed", "failed"}
       /\ flow[c].tries \in 0..1 /\ flow[c].by \in Attempts \cup {None}
  /\ \A a \in Attempts :
       /\ attempt[a].at \in {"idle", "decided", "started"}
       /\ attempt[a].cycle \in Cycles \cup {None}
       /\ attempt[a].seen \in Binding
  /\ launched \subseteq Runs /\ faults \in 0..MaxFaults /\ setbacks \in 0..MaxSetbacks

\* A cycle never leaves the stage it ended in, whatever an attempt that read it before decides
\* to do (CreativeCycle.transition on the row locked by _transition).
EndsAreFinal ==
  [][\A c \in Cycles : cycle[c].stage \in Ends => cycle'[c].stage = cycle[c].stage]_vars

\* A cycle at or past publishing is bound to a draft that its reviewers have authorized, and
\* one past measuring to a draft that was measured, although the pipeline that led there is
\* observed anew at every step and bindings are rewritten from it (_next, _transition).
StagesAreEarned ==
  \A c \in Cycles :
    LET draft == State(cycle[c].bound.draft) IN
    /\ cycle[c].stage \in {"PUBLISHING", "MEASURING"} =>
         draft \in PublicationStates \ {"drafted"}
    /\ cycle[c].stage = "MEASURING" => draft \in {"published", "measured"}
    /\ cycle[c].stage \in {"INTELLIGENCE", "AWAITING_EXPERIMENT_DECISION", "COMPLETED"} =>
         draft = "measured"

\* A recorded step was taken: the publication workflow of the draft bound was started, the
\* analysis is the cycle's own and its only one (_start_action records after it starts).
StepsWereTaken ==
  \A c \in Cycles :
    /\ "publishing" \in steps[c] => cycle[c].bound.draft \in launched
    /\ "intelligence" \in steps[c] => Insight(c) # None
    /\ Cardinality({i \in Runs : runs[i].by = c}) <= 1

\* A reconciler that runs does not leave a cycle behind the pipeline for ever, even where the
\* pipeline waits for an operator (reconcile, _governed_next).
CyclesFollow ==
  \A c \in Cycles :
    []<>~(/\ flow[c].state = "running" /\ cycle[c].stage \in Governed
          /\ Pipe(cycle[c].bound).found
          /\ Follow(cycle[c].stage, Pipe(cycle[c].bound)) # "none")

\* docs/28: cancellation stops future coordination.
CancellationIsFinal ==
  [][\A c \in Cycles : cycle[c].status = "CANCELLED" => cycle'[c].status = "CANCELLED"]_vars

=============================================================================
