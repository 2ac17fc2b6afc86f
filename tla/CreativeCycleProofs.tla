------------------------- MODULE CreativeCycleProofs -------------------------
(***************************************************************************)
(* Theorems about CreativeCycle, for any number of cycles, runs, activity  *)
(* attempts, faults and setbacks, and whatever a product has when its      *)
(* first cycle is started.                                                 *)
(***************************************************************************)
EXTENDS CreativeCycle, FiniteSetTheorems, WellFoundedInduction, TLAPS

-----------------------------------------------------------------------------
(* The pipeline: what an observation names, and what an action acts on.    *)

Ids == Runs \cup {None}
Less == OpToRel(<, Nat)

\* Some run of a kind is the latest one.
LEMMA LatestExists ==
  ASSUME NEW S \in SUBSET Runs, S # {}
  PROVE  Max(S) \in S
<1> DEFINE Bounds == {n \in Nat : \A y \in S : n >= y}
<1>1. MaxRuns \in Bounds
  BY PipelineAssumption DEF Runs
<1>2. IsWellFoundedOn(Less, Nat)
  BY NatLessThanWellFounded DEF Less
<1>3. PICK n \in Bounds : \A m \in Bounds : ~ (<<m, n>> \in Less)
  <2>1. Bounds \subseteq Nat /\ Bounds # {}
    BY <1>1
  <2> HIDE DEF Bounds
  <2> QED
    BY <1>2, <2>1, WFMin
<1>4. \A m \in Bounds : ~ (m < n)
  BY <1>3 DEF Less, OpToRel
<1>5. n \in S
  <2> SUFFICES ASSUME n \notin S PROVE FALSE
    OBVIOUS
  <2>1. PICK y \in S : TRUE
    OBVIOUS
  <2>2. n # 0
    BY <2>1, <1>3 DEF Runs
  <2>3. n - 1 \in Bounds
    BY <1>3, <2>2 DEF Runs
  <2> QED
    BY <1>4, <2>3
<1> QED
  BY <1>3, <1>5 DEF Max

PipelineTyped ==
  /\ runs \in [Runs -> RunRow]
  /\ revalidated \subseteq Runs \X Runs \X {"kept", "differs"}

LEMMA LatestIs ==
  ASSUME NEW kind
  PROVE  /\ Latest(kind) \in Of(kind) \cup {None}
         /\ Latest(kind) # None => Latest(kind) \in Runs /\ runs[Latest(kind)].kind = kind
<1>1. Of(kind) \in SUBSET Runs
  BY DEF Of
<1>2. Of(kind) # {} => Latest(kind) \in Of(kind)
  BY <1>1, LatestExists DEF Latest
<1> QED
  BY <1>2 DEF Latest, Of

LEMMA RowIs ==
  ASSUME PipelineTyped, NEW i \in Runs
  PROVE  /\ runs[i].kind \in {"none", "research", "creative", "producer", "intelligence"}
         /\ runs[i].kind = "none" => runs[i].state = "none" /\ runs[i].by = None
         /\ runs[i].kind = "research" => runs[i].state \in ResearchStates
         /\ runs[i].kind = "creative" => runs[i].state \in CreativeStates /\ runs[i].research \in Runs
         /\ runs[i].kind = "producer" =>
              runs[i].state \in ProducerStates /\ runs[i].research \in Runs /\ runs[i].creative \in Runs
         /\ runs[i].kind = "intelligence" => runs[i].state \in IntelligenceStates
         /\ runs[i].by \in Requesters \cup {None}
BY SMT DEF PipelineTyped, RunRow

LEMMA ObserveNames ==
  ASSUME NEW research \in Ids, NEW creative \in Ids, NEW concept, NEW producer \in Ids
  PROVE  LET o == Observe(research, creative, concept, producer)
         IN  o.found => o.research \in Ids /\ o.creative \in Ids /\ o.producer \in Ids
<1> DEFINE r == IF research # None THEN research ELSE Latest("research")
           c == IF creative # None THEN creative ELSE Latest("creative")
           p == IF producer # None THEN producer ELSE Latest("producer")
           o == Observe(research, creative, concept, producer)
<1>1. r \in Ids /\ c \in Ids /\ p \in Ids /\ None \in Ids
  BY LatestIs DEF Ids
<1>2. \/ o = Unfound
      \/ \E rule : \E x \in {None, c}, y \in {None, p} : o = Seen(r, x, y, rule)
  <2> DEFINE another == p # None /\ runs[p].creative # c
             plan == IF another THEN None ELSE p
  <2>1. plan \in {None, p}
    OBVIOUS
  <2>2. o = IF State(r) # "current" THEN Seen(r, None, None, ResearchRule[State(r)])
            ELSE IF c = None \/ State(c) \in {"pending", "failed"}
              THEN Seen(r, c, None, CreativeRule[State(c)])
            ELSE IF concept \notin {None, c} THEN Unfound
            ELSE IF ConceptUnder(c, r) # "approved"
              THEN Seen(r, c, None, CreativeRule[ConceptUnder(c, r)])
            ELSE IF another /\ producer # None THEN Unfound
            ELSE Seen(r, c, plan, ProducerRule[PlanUnder(plan, r)])
    BY DEF Observe
  <2> HIDE DEF r, c, p, o, plan, another
  <2> QED
    BY <2>1, <2>2
<1>3. Unfound.found = FALSE
  BY DEF Unfound
<1>4. \A x, y, z, rule : /\ Seen(x, y, z, rule).research = x
                         /\ Seen(x, y, z, rule).creative = y /\ Seen(x, y, z, rule).producer = z
  BY DEF Seen
<1> HIDE DEF r, c, p, o
<1>5. o.found => o.research \in Ids /\ o.creative \in Ids /\ o.producer \in Ids
  BY <1>1, <1>2, <1>3, <1>4
<1> QED
  BY <1>5 DEF o

\* The rows an order is about: those of the one line of work the product is in.
Ordered(o) ==
  /\ o.action \in {"RUN_CREATIVE", "RERUN_CREATIVE", "RESTRATEGIZE_CREATIVE"} => o.research \in Runs
  /\ o.action \in {"RUN_PRODUCER", "RERUN_PRODUCER", "REVALIDATE_CREATIVE"} =>
       o.research \in Runs /\ o.creative \in Runs
  /\ o.action \in {"RETRY_MEDIA", "CREATE_ASSEMBLY_PLAN", "RERENDER_FINAL_CREATIVE"} =>
       /\ o.producer \in Runs /\ runs[o.producer].kind = "producer"
       /\ runs[o.producer].state \in {"stopped", "made", "final_rejected"}

LEMMA ProductIsOrdered ==
  ASSUME PipelineTyped
  PROVE  Product.found => Ordered(Product)
<1> DEFINE r == Latest("research")
           c == Latest("creative")
           p == Latest("producer")
           another == p # None /\ runs[p].creative # c
           plan == IF another THEN None ELSE p
<1>0. Product = IF State(r) # "current" THEN Seen(r, None, None, ResearchRule[State(r)])
            ELSE IF c = None \/ State(c) \in {"pending", "failed"}
              THEN Seen(r, c, None, CreativeRule[State(c)])
            ELSE IF ConceptUnder(c, r) # "approved"
              THEN Seen(r, c, None, CreativeRule[ConceptUnder(c, r)])
            ELSE Seen(r, c, plan, ProducerRule[PlanUnder(plan, r)])
  BY DEF Product, Observe, None
<1>r. /\ r = None => State(r) = "none"
      /\ r # None => r \in Runs /\ State(r) \in ResearchStates
  BY LatestIs, RowIs DEF State
<1>c. /\ c = None => State(c) = "none"
      /\ c # None => c \in Runs /\ State(c) \in CreativeStates
  BY LatestIs, RowIs DEF State
<1>p. /\ plan = None => State(plan) = "none"
      /\ plan # None => /\ plan \in Runs /\ runs[plan].kind = "producer" /\ State(plan) = runs[plan].state
                        /\ State(plan) \in ProducerStates
  BY LatestIs, RowIs DEF State
<1> HIDE DEF r, c, p, another, plan
<1>s. \A x, y, z, rule : /\ Seen(x, y, z, rule).research = x /\ Seen(x, y, z, rule).creative = y
                         /\ Seen(x, y, z, rule).producer = z /\ Seen(x, y, z, rule).action = rule[2]
  BY DEF Seen
<1>1. CASE State(r) # "current"
  <2>1. ResearchRule[State(r)][2] \in {"RUN_RESEARCH", "WAIT", "RERUN_RESEARCH", "REFRESH_RESEARCH"}
    BY <1>1, <1>r DEF ResearchStates, ResearchRule
  <2> QED
    BY <1>0, <1>1, <1>s, <2>1 DEF Ordered
<1>2. CASE State(r) = "current" /\ (c = None \/ State(c) \in {"pending", "failed"})
  <2>1. CreativeRule[State(c)][2] \in {"RUN_CREATIVE", "WAIT", "RERUN_CREATIVE"}
    BY <1>2, <1>c DEF CreativeRule
  <2> QED
    BY <1>0, <1>2, <1>r, <1>s, <2>1 DEF Ordered
<1>3. CASE State(r) = "current" /\ c # None /\ State(c) \notin {"pending", "failed"} /\ ConceptUnder(c, r) # "approved"
  <2>1. ConceptUnder(c, r) \in {"offered", "withdrawn", "stale", "differs"}
    BY <1>3, <1>c DEF ConceptUnder, State, CreativeStates, ConceptStates
  <2>2. CreativeRule[ConceptUnder(c, r)][2] \in {"APPROVE_CREATIVE", "RESTRATEGIZE_CREATIVE", "REVALIDATE_CREATIVE"}
    BY <2>1 DEF CreativeRule
  <2> QED
    BY <1>0, <1>3, <1>r, <1>c, <1>s, <2>2 DEF Ordered
<1>4. CASE State(r) = "current" /\ c # None /\ State(c) \notin {"pending", "failed"} /\ ConceptUnder(c, r) = "approved"
  <2>1. r \in Runs /\ c \in Runs
    BY <1>4, <1>r, <1>c
  <2> DEFINE seen == PlanUnder(plan, r)
  <2>2. \/ seen = State(plan) /\ seen \in {"none", "pending", "failed", "review", "rejected", "generating", "stopped",
                                           "made", "assembling", "broken", "final_review", "final_rejected"}
        \/ seen \in {"outdated", "final"}
    BY <1>p DEF PlanUnder, ProducerStates, FinalStates, State
  <2>3. /\ ProducerRule[seen][2] \in {"RUN_PRODUCER", "WAIT", "RERUN_PRODUCER", "REVIEW", "RETRY_MEDIA",
             "CREATE_ASSEMBLY_PLAN", "RECOVER_ASSEMBLY_FAILURE", "RERENDER_FINAL_CREATIVE", "FINAL_CREATIVE_READY"}
        /\ ProducerRule[seen][2] \in {"RETRY_MEDIA", "CREATE_ASSEMBLY_PLAN", "RERENDER_FINAL_CREATIVE"} =>
             seen \in {"stopped", "made", "final_rejected"}
    <3> HIDE DEF seen
    <3> QED
      BY <2>2 DEF ProducerRule
  <2> HIDE DEF seen
  <2>4. seen \in {"stopped", "made", "final_rejected"} =>
          /\ plan \in Runs /\ runs[plan].kind = "producer"
          /\ runs[plan].state \in {"stopped", "made", "final_rejected"}
    BY <2>2, <1>p
  <2>5. Product = Seen(r, c, plan, ProducerRule[seen])
    BY <1>0, <1>4 DEF seen
  <2> QED
    BY <1>s, <2>1, <2>3, <2>4, <2>5 DEF Ordered
<1> QED
  BY <1>1, <1>2, <1>3, <1>4

-----------------------------------------------------------------------------
(* How the runs move.                                                      *)

\* How far a publication can have come.
Milestones ==
  {PublicationStates, PublicationStates \ {"drafted"}, {"published", "measured"}, {"measured"}}
USE DEF Milestones

\* A publication never falls back: what authorizes, publishes or measures it stays so.
Onward(i) ==
  /\ runs'[i].by = runs[i].by
  /\ \A ahead \in Milestones :
       runs[i].state \in ahead => runs'[i].state \in ahead

StatesOf(kind) ==
  CASE kind = "research" -> ResearchStates
    [] kind = "creative" -> CreativeStates
    [] kind = "producer" -> ProducerStates
    [] kind = "intelligence" -> IntelligenceStates
    [] OTHER -> {}

LEMMA RowBecomes ==
  ASSUME NEW row \in RunRow, NEW state \in StatesOf(row.kind)
  PROVE  LET new == [row EXCEPT !.state = state]
         IN  new \in RunRow /\ new.by = row.by /\ new.state = state
<1> DEFINE new == [row EXCEPT !.state = state]
<1>1. CASE row.kind = "research"
  BY <1>1, SMT DEF RunRow, StatesOf
<1>2. CASE row.kind = "creative"
  BY <1>2, SMT DEF RunRow, StatesOf
<1>3. CASE row.kind = "producer"
  BY <1>3, SMT DEF RunRow, StatesOf
<1>4. CASE row.kind = "intelligence"
  BY <1>4, SMT DEF RunRow, StatesOf
<1>5. CASE row.kind \notin {"research", "creative", "producer", "intelligence"}
  BY <1>5 DEF StatesOf
<1> QED
  BY <1>1, <1>2, <1>3, <1>4, <1>5

\* One run gets another state.
LEMMA StateMoves ==
  ASSUME PipelineTyped, NEW i \in Runs, NEW state \in StatesOf(runs[i].kind), Become(i, state), UNCHANGED revalidated,
         \A ahead \in Milestones :
           runs[i].state \in ahead => state \in ahead
  PROVE  PipelineTyped' /\ \A j \in Runs : Onward(j)
<1> DEFINE new == [runs[i] EXCEPT !.state = state]
<1>1. runs' = [runs EXCEPT ![i] = new]
  BY DEF Become
<1>2. new \in RunRow /\ new.by = runs[i].by /\ new.state = state
  BY RowBecomes DEF PipelineTyped
<1> HIDE DEF new
<1>3. PipelineTyped'
  BY <1>1, <1>2 DEF PipelineTyped
<1>4. ASSUME NEW j \in Runs PROVE Onward(j)
  <2>1. CASE j = i
    BY <2>1, <1>1, <1>2 DEF PipelineTyped, Onward
  <2>2. CASE j # i
    BY <2>2, <1>1 DEF PipelineTyped, Onward
  <2> QED
    BY <2>1, <2>2
<1> QED
  BY <1>3, <1>4

\* A run is added.
LEMMA RunIsAdded ==
  ASSUME PipelineTyped, NEW i \in Runs, Fresh(i),
         NEW kind, NEW research, NEW creative, NEW by, Requested(i, kind, research, creative, by),
         \/ kind = "research" /\ research = None /\ creative = None /\ by = None
         \/ kind = "creative" /\ research \in Runs /\ creative = None /\ by = None
         \/ kind = "producer" /\ research \in Runs /\ creative \in Runs /\ by = None
         \/ kind = "intelligence" /\ research = None /\ creative = None /\ by \in Requesters \cup {None},
         UNCHANGED revalidated
  PROVE  /\ PipelineTyped'
         /\ \A j \in Runs : j # i => Onward(j)
         /\ by = None => Onward(i)
         /\ runs'[i].by = by
         /\ runs[i].state = "none"
<1> DEFINE new == [kind |-> kind, state |-> "pending", research |-> research, creative |-> creative, by |-> by]
<1>1. runs' = [runs EXCEPT ![i] = new] /\ new.by = by
  BY DEF Requested
<1>2. new \in RunRow
  BY DEF RunRow, ResearchStates, CreativeStates, ProducerStates, IntelligenceStates
<1>3. runs[i].state = "none" /\ runs[i].by = None
  BY RowIs DEF Fresh
<1>4. "none" \notin PublicationStates
  BY DEF PublicationStates
<1> HIDE DEF new
<1> QED
  BY <1>1, <1>2, <1>3, <1>4 DEF PipelineTyped, Onward

RunsGoOn == PipelineTyped' /\ \A i \in Runs : Onward(i)

LEMMA MovedGoesOn ==
  ASSUME PipelineTyped, NEW i \in Runs, Progress(i) \/ SetBack(i)
  PROVE  RunsGoOn
<1>0. i # None
  BY DEF Runs, None
<1>1. PICK move \in Moves[runs[i].kind] \cup Setbacks[runs[i].kind] :
        runs[i].state = move[1] /\ Become(i, move[2])
  BY <1>0 DEF Progress, SetBack, Moved, State
<1>2. UNCHANGED revalidated
  BY DEF Progress, SetBack, Moved
<1>3. runs[i].kind \in {"none", "research", "creative", "producer", "intelligence"}
  BY RowIs
<1>4. /\ move[2] \in StatesOf(runs[i].kind)
      /\ runs[i].state \in PublicationStates =>
           \/ runs[i].state = "drafted" /\ move[2] = "authorized"
           \/ runs[i].state = "published" /\ move[2] = "measured"
  <2>1. CASE runs[i].kind = "none"
    BY <1>1, <2>1 DEF Moves, Setbacks
  <2>2. CASE runs[i].kind = "research"
    BY <1>1, <2>2 DEF Moves, Setbacks, StatesOf, ResearchStates, PublicationStates
  <2>3. CASE runs[i].kind = "creative"
    BY <1>1, <2>3 DEF Moves, Setbacks, StatesOf, CreativeStates, ConceptStates, PublicationStates
  <2>4. CASE runs[i].kind = "producer"
    BY <1>1, <2>4 DEF Moves, Setbacks, StatesOf, ProducerStates, FinalStates, PublicationStates
  <2>5. CASE runs[i].kind = "intelligence"
    BY <1>1, <2>5 DEF Moves, Setbacks, StatesOf, IntelligenceStates, ProposalStates, PublicationStates
  <2> QED
    BY <1>3, <2>1, <2>2, <2>3, <2>4, <2>5
<1>5. \A ahead \in Milestones :
        runs[i].state \in ahead => move[2] \in ahead
  BY <1>4 DEF PublicationStates
<1> QED
  BY <1>1, <1>2, <1>4, <1>5, StateMoves DEF RunsGoOn

LEMMA OrderGoesOn ==
  ASSUME PipelineTyped, Order
  PROVE  RunsGoOn
<1> DEFINE now == Product
<1>1. Ordered(now)
  BY ProductIsOrdered DEF Order
<1> HIDE DEF now
<1>a. ASSUME NEW i \in Runs, NEW kind, NEW research, NEW creative,
             Fresh(i), Requested(i, kind, research, creative, None), UNCHANGED revalidated,
             \/ kind = "research" /\ research = None /\ creative = None
             \/ kind = "creative" /\ research \in Runs /\ creative = None
             \/ kind = "producer" /\ research \in Runs /\ creative \in Runs
      PROVE  RunsGoOn
  BY <1>a, RunIsAdded DEF RunsGoOn
<1>b. ASSUME now.producer \in Runs, runs[now.producer].kind = "producer",
             runs[now.producer].state \in {"stopped", "made", "final_rejected"},
             NEW state \in {"generating", "assembling"}, Become(now.producer, state), UNCHANGED revalidated
      PROVE  RunsGoOn
  <2>1. state \in StatesOf(runs[now.producer].kind)
    BY <1>b DEF StatesOf, ProducerStates
  <2>2. runs[now.producer].state \notin PublicationStates
    BY <1>b DEF PublicationStates
  <2>3. \A ahead \in Milestones :
          ahead \subseteq PublicationStates
    BY DEF PublicationStates
  <2> QED
    BY <1>b, <2>1, <2>2, <2>3, StateMoves DEF RunsGoOn
<1>c. CASE now.action = "REVALIDATE_CREATIVE" /\ runs' = runs
            /\ \E result \in {"kept", "differs"} : revalidated' = revalidated \cup {<<now.creative, now.research, result>>}
  <2>1. now.creative \in Runs /\ now.research \in Runs
    BY <1>1, <1>c DEF Ordered
  <2> QED
    BY <1>c, <2>1 DEF RunsGoOn, PipelineTyped, Onward
<1>2. CASE now.action \in {"RUN_RESEARCH", "RERUN_RESEARCH", "REFRESH_RESEARCH"} /\ UNCHANGED revalidated
            /\ \E i \in Runs : Fresh(i) /\ Requested(i, "research", None, None, None)
  BY <1>2, <1>a
<1>3. CASE now.action \in {"RUN_CREATIVE", "RERUN_CREATIVE", "RESTRATEGIZE_CREATIVE"} /\ UNCHANGED revalidated
            /\ \E i \in Runs : Fresh(i) /\ Requested(i, "creative", now.research, None, None)
  <2>1. now.research \in Runs
    BY <1>1, <1>3 DEF Ordered
  <2> QED
    BY <1>3, <2>1, <1>a
<1>4. CASE now.action \in {"RUN_PRODUCER", "RERUN_PRODUCER"} /\ UNCHANGED revalidated
            /\ \E i \in Runs : Fresh(i) /\ Requested(i, "producer", now.research, now.creative, None)
  <2>1. now.research \in Runs /\ now.creative \in Runs
    BY <1>1, <1>4 DEF Ordered
  <2> QED
    BY <1>4, <2>1, <1>a
<1>5. CASE now.action \in {"RETRY_MEDIA", "CREATE_ASSEMBLY_PLAN", "RERENDER_FINAL_CREATIVE"} /\ UNCHANGED revalidated
            /\ (Become(now.producer, "generating") \/ Become(now.producer, "assembling"))
  BY <1>1, <1>5, <1>b DEF Ordered
<1> QED
  BY <1>c, <1>2, <1>3, <1>4, <1>5 DEF Order, now

LEMMA PublishGoesOn ==
  ASSUME PipelineTyped, NEW p \in Ids, Publish(p)
  PROVE  RunsGoOn
<1>1. p # None /\ p \in Runs
  BY DEF Publish, State, Ids
<1>2. PICK state : /\ Become(p, state)
                   /\ \/ runs[p].state = "authorized" /\ state \in {"published", "refused", "unknown"}
                      \/ runs[p].state = "unknown" /\ state \in {"published", "refused"}
  BY <1>1 DEF Publish, State
<1>3. runs[p].kind = "producer"
  BY <1>1, <1>2, RowIs DEF ResearchStates, CreativeStates, ConceptStates, IntelligenceStates, ProposalStates
<1>4. state \in StatesOf(runs[p].kind)
  BY <1>2, <1>3 DEF StatesOf, ProducerStates, FinalStates, PublicationStates
<1>5. \A ahead \in Milestones :
        runs[p].state \in ahead => state \in ahead
  BY <1>2 DEF PublicationStates
<1> QED
  BY <1>1, <1>2, <1>4, <1>5, StateMoves DEF RunsGoOn, Publish

LEMMA WorldGoesOn ==
  ASSUME PipelineTyped, launched \subseteq Ids, World \/ Mishap
  PROVE  RunsGoOn
<1>1. ASSUME NEW i \in Runs, AskIntelligence(i) PROVE RunsGoOn
  BY <1>1, RunIsAdded DEF AskIntelligence, RunsGoOn
<1>2. ASSUME NEW p \in launched, Publish(p) PROVE RunsGoOn
  BY <1>2, PublishGoesOn
<1> QED
  BY <1>1, <1>2, OrderGoesOn, MovedGoesOn DEF World, Mishap

-----------------------------------------------------------------------------
(* Stages.  From the approval of a publication on a cycle does not turn    *)
(* back, and is about one draft.                                           *)

Late == {"AWAITING_PUBLICATION_APPROVAL", "PUBLISHING", "MEASURING", "INTELLIGENCE", "AWAITING_EXPERIMENT_DECISION"}
EarlyGoals == {"CHECKING_READINESS", "RESEARCHING", "CREATIVE_STRATEGY", "AWAITING_CONCEPT_APPROVAL",
               "PRODUCTION_PLANNING", "AWAITING_PRODUCTION_APPROVAL", "GENERATING_MEDIA",
               "ASSEMBLING_FINAL_CREATIVE", "AWAITING_FINAL_CREATIVE_APPROVAL", "AWAITING_PUBLICATION_INPUT",
               "AWAITING_PUBLICATION_APPROVAL"}
Steps == {"publishing", "measurement", "intelligence"}
LateGoals == {"PUBLISHING", "MEASURING", "INTELLIGENCE", "AWAITING_EXPERIMENT_DECISION", "COMPLETED", "FAILED"} \cup Steps
Halts == {"needs_recovery", "operator"}
Goals == EarlyGoals \cup LateGoals \cup Halts

\* What the draft of a cycle has come to at a stage.
Needed(stage) ==
  CASE stage = "AWAITING_PUBLICATION_APPROVAL" -> PublicationStates
    [] stage = "PUBLISHING" -> PublicationStates \ {"drafted"}
    [] stage = "MEASURING" -> {"published", "measured"}
    [] OTHER -> {"measured"}
Earned == Late \cup {"COMPLETED"}

LEMMA StagesAre ==
  /\ Stages = EarlyGoals \cup {"CREATED", "PUBLISHING", "MEASURING", "INTELLIGENCE",
                               "AWAITING_EXPERIMENT_DECISION", "COMPLETED", "FAILED", "CANCELLED"}
  /\ Ends \cap Late = {} /\ "CREATED" \notin Late \cup Ends
  /\ \A goal \in Goals \cap Stages : goal \in EarlyGoals \cup (LateGoals \ Steps) /\ goal # "CANCELLED"
BY DEF Stages, NextStages, EarlyGoals, Ends, Late, Goals, LateGoals, Steps, Halts

LEMMA NextStagesAre ==
  ASSUME NEW from \in Stages, NEW to \in NextStages[from]
  PROVE  /\ from \notin Ends
         /\ to \in EarlyGoals => from \notin Late \cup Ends
<1>1. CASE from = "CREATED"
  BY <1>1 DEF NextStages, Ends, Late
<1>2. CASE from = "CHECKING_READINESS"
  BY <1>2 DEF NextStages, Ends, Late
<1>3. CASE from = "RESEARCHING"
  BY <1>3 DEF NextStages, Ends, Late
<1>4. CASE from = "CREATIVE_STRATEGY"
  BY <1>4 DEF NextStages, Ends, Late
<1>5. CASE from = "AWAITING_CONCEPT_APPROVAL"
  BY <1>5 DEF NextStages, Ends, Late
<1>6. CASE from = "PRODUCTION_PLANNING"
  BY <1>6 DEF NextStages, Ends, Late
<1>7. CASE from = "AWAITING_PRODUCTION_APPROVAL"
  BY <1>7 DEF NextStages, Ends, Late
<1>8. CASE from = "GENERATING_MEDIA"
  BY <1>8 DEF NextStages, Ends, Late
<1>9. CASE from = "ASSEMBLING_FINAL_CREATIVE"
  BY <1>9 DEF NextStages, Ends, Late
<1>10. CASE from \in {"AWAITING_FINAL_CREATIVE_APPROVAL", "AWAITING_PUBLICATION_INPUT"}
  BY <1>10 DEF NextStages, Ends, Late
<1>11. CASE from \in Late
  <2>1. NextStages[from] \cap EarlyGoals = {}
    BY <1>11 DEF NextStages, Late, EarlyGoals
  <2> QED
    BY <1>11, <2>1, StagesAre
<1>12. CASE from \in Ends
  <2>1. NextStages[from] = {}
    BY <1>12 DEF NextStages, Ends
  <2> QED
    BY <2>1
<1> QED
  BY <1>1, <1>2, <1>3, <1>4, <1>5, <1>6, <1>7, <1>8, <1>9, <1>10, <1>11, <1>12, StagesAre
     DEF EarlyGoals, Late, Ends

LEMMA LegalIs ==
  ASSUME NEW from \in Stages, NEW to, Legal(from, to)
  PROVE  /\ from \notin Ends
         /\ to \in EarlyGoals => from \notin Late
<1>1. "CANCELLED" \notin EarlyGoals
  BY DEF EarlyGoals
<1> QED
  BY <1>1, NextStagesAre DEF Legal

LEMMA NeededAre ==
  ASSUME NEW stage
  PROVE  Needed(stage) \in Milestones
BY DEF Needed

-----------------------------------------------------------------------------
(* Types.                                                                  *)

CycleRow == [status : Statuses \cup {"NONE"}, stage : Stages, bound : Binding, source : Ids]
FlowRow == [state : {"none", "committed", "running", "completed", "failed"}, tries : 0..1,
            by : Attempts \cup {None}]
AttemptRow == [at : {"idle", "decided", "started"}, cycle : Cycles \cup {None},
               goal : Goals \cup {"none"}, seen : Binding]

\* An attempt that is under way is about a cycle that was started.
AttemptsTyped ==
  /\ attempt \in [Attempts -> AttemptRow]
  /\ \A a \in Attempts : attempt[a].at # "idle" =>
       /\ attempt[a].cycle \in Cycles /\ cycle[attempt[a].cycle].status # "NONE"
       /\ attempt[a].goal # "none"
       /\ attempt[a].at = "started" => attempt[a].goal \in Steps

CyclesTyped ==
  /\ cycle \in [Cycles -> CycleRow]
  /\ steps \in [Cycles -> SUBSET Steps]
  /\ \A c \in Cycles : cycle[c].status = "NONE" => cycle[c].stage = "CREATED" /\ steps[c] = {}

\* Only a cycle that was started has a workflow.
FlowTyped ==
  /\ flow \in [Cycles -> FlowRow]
  /\ \A c \in Cycles : flow[c].state # "none" => cycle[c].status # "NONE"

BoundsTyped == faults \in 0..MaxFaults /\ setbacks \in 0..MaxSetbacks

Typed == PipelineTyped /\ CyclesTyped /\ AttemptsTyped /\ FlowTyped /\ launched \subseteq Runs /\ BoundsTyped

-----------------------------------------------------------------------------
(* What a cycle and an attempt know of the draft and the steps.            *)

\* What is bound as a draft is one.
DraftIsReal(b) == b.draft # None => State(b.draft) \in PublicationStates

\* Exactly the run a cycle asked for is its own.
Asked(c) == \E i \in Runs : runs[i].by = c
AskedOnce(c) == \A i, j \in Runs : runs[i].by = c /\ runs[j].by = c => i = j

CycleIsEarned(c) ==
  /\ DraftIsReal(cycle[c].bound)
  /\ cycle[c].stage \in Earned => State(cycle[c].bound.draft) \in Needed(cycle[c].stage)
  /\ "publishing" \in steps[c] => cycle[c].stage \in Late \cup Ends /\ cycle[c].bound.draft \in launched
  /\ "intelligence" \in steps[c] => Asked(c)
  /\ AskedOnce(c)

\* A late attempt works on the draft the cycle is still bound to; what it decided to move to
\* was earned when it decided.
AttemptIsEarned(a) ==
  LET c == attempt[a].cycle
      goal == attempt[a].goal
      seen == attempt[a].seen
  IN  attempt[a].at # "idle" =>
      /\ DraftIsReal(seen)
      /\ goal \in Earned => State(seen.draft) \in Needed(goal)
      /\ goal \in LateGoals =>
           cycle[c].stage \in Late \cup Ends /\ seen.draft = cycle[c].bound.draft /\ seen.draft # None
      /\ attempt[a].at = "started" /\ goal = "publishing" => seen.draft \in launched
      /\ attempt[a].at = "started" /\ goal = "intelligence" => Asked(c)

AllEarned ==
  /\ \A c \in Cycles : CycleIsEarned(c)
  /\ \A a \in Attempts : AttemptIsEarned(a)

Inv == Typed /\ AllEarned

-----------------------------------------------------------------------------
(* What a reconciliation decides.                                          *)

LEMMA NoneIs == None \in Ids /\ None \notin Runs /\ None \notin Cycles /\ State(None) = "none"
BY PipelineAssumption DEF None, Runs, Ids, Cycles, State

LEMMA NoneNeeded == \A stage : "none" \notin Needed(stage)
BY DEF Needed, PublicationStates

LEMMA FollowIs ==
  ASSUME NEW stage, NEW o
  PROVE  Follow(stage, o) \in (EarlyGoals \ {"AWAITING_PUBLICATION_APPROVAL"}) \cup {"none"}
BY DEF Follow, EarlyGoals

LEMMA GoalIs ==
  ASSUME NEW c \in Cycles, DraftIsReal(cycle[c].bound),
         cycle[c].stage \in Late => cycle[c].bound.draft # None,
         cycle[c].stage \in Earned => State(cycle[c].bound.draft) \in Needed(cycle[c].stage)
  PROVE  /\ Goal(c) \in Goals \cup {"none"}
         /\ Goal(c) \in LateGoals => cycle[c].stage \in Late
         /\ Goal(c) \in Earned => State(Draft(cycle[c].bound)) \in Needed(Goal(c))
<1> DEFINE stage == cycle[c].stage
           b == cycle[c].bound
           publication == State(Draft(b))
           insight == State(Insight(c))
           proposal == State(Proposal(c, b))
           goal == Goal(c)
           governed == GovernedGoal(stage, Pipe(b))
<1>g. goal =
  CASE stage = "CREATED" -> "CHECKING_READINESS"
    [] stage = "CHECKING_READINESS" -> "RESEARCHING"
    [] stage \in Governed -> governed
    [] stage = "AWAITING_PUBLICATION_INPUT" /\ publication # "none"
         -> "AWAITING_PUBLICATION_APPROVAL"
    [] stage = "AWAITING_PUBLICATION_APPROVAL" /\ publication \notin {"none", "drafted"}
         -> "PUBLISHING"
    [] stage = "PUBLISHING" ->
         CASE publication = "unknown" -> "needs_recovery"
           [] publication = "refused" -> "FAILED"
           [] publication \in {"published", "measured"} -> "MEASURING"
           [] publication = "authorized" -> "publishing"
           [] OTHER -> "none"
    [] stage = "MEASURING" /\ publication = "measured" -> "INTELLIGENCE"
    [] stage = "MEASURING" /\ publication = "published" -> "measurement"
    [] stage = "INTELLIGENCE" ->
         CASE insight = "none" -> "intelligence"
           [] insight \in ProposalStates -> "AWAITING_EXPERIMENT_DECISION"
           [] insight = "reported" -> "COMPLETED"
           [] insight = "failed" -> "FAILED"
           [] OTHER -> "none"
    [] stage = "AWAITING_EXPERIMENT_DECISION"
         /\ proposal \in {"accepted", "declined"} -> "COMPLETED"
    [] OTHER -> "none"
  BY DEF Goal
<1>1. publication \in PublicationStates \cup {"none"}
  BY NoneIs DEF Draft, DraftIsReal
<1>2. stage \in Late => publication \in Needed(stage)
  BY DEF Draft, Earned
<1>3. governed \in (EarlyGoals \ {"AWAITING_PUBLICATION_APPROVAL"}) \cup Halts \cup {"none"}
  BY FollowIs DEF GovernedGoal, Halts
<1> HIDE DEF stage, publication, insight, proposal, governed
<1>4. CASE stage \in Governed
  <2>1. goal = governed
    BY <1>g, <1>4 DEF Governed
  <2>2. governed \in Goals \cup {"none"} /\ governed \notin LateGoals /\ governed \notin Earned
    BY <1>3 DEF Goals, EarlyGoals, LateGoals, Steps, Halts, Earned, Late
  <2> QED
    BY <2>1, <2>2
<1>5. CASE stage \in Late
  <2>1. \/ goal = "none"
        \/ stage = "AWAITING_PUBLICATION_APPROVAL" /\ goal = "PUBLISHING" /\ publication # "drafted"
        \/ stage = "PUBLISHING" /\ goal \in {"needs_recovery", "FAILED", "publishing"}
        \/ stage = "PUBLISHING" /\ goal = "MEASURING" /\ publication \in {"published", "measured"}
        \/ stage = "MEASURING" /\ goal = "INTELLIGENCE" /\ publication = "measured"
        \/ stage = "MEASURING" /\ goal = "measurement"
        \/ stage = "INTELLIGENCE" /\ goal \in {"intelligence", "AWAITING_EXPERIMENT_DECISION", "COMPLETED", "FAILED"}
        \/ stage = "AWAITING_EXPERIMENT_DECISION" /\ goal = "COMPLETED"
    <3> HIDE DEF goal
    <3> QED
      BY <1>g, <1>5 DEF Late, Governed
  <2>2. goal \in Earned => publication \in Needed(goal)
    <3> HIDE DEF goal
    <3> QED
      BY <2>1, <1>2, <1>5 DEF Earned, Late, Needed
  <2>3. goal \in Goals \cup {"none"}
    <3> HIDE DEF goal
    <3> QED
      BY <2>1 DEF Goals, EarlyGoals, LateGoals, Steps, Halts
  <2> QED
    BY <1>5, <2>2, <2>3 DEF stage, publication
<1>6. CASE stage \notin Governed \cup Late
  <2>1. \/ goal \in {"CHECKING_READINESS", "RESEARCHING", "none"}
        \/ goal = "AWAITING_PUBLICATION_APPROVAL" /\ publication # "none"
    <3> HIDE DEF goal
    <3> QED
      BY <1>g, <1>6 DEF Late
  <2>2. goal \in Goals \cup {"none"} /\ goal \notin LateGoals /\ (goal \in Earned => publication \in Needed(goal))
    <3> HIDE DEF goal
    <3> QED
      BY <2>1, <1>1 DEF Goals, EarlyGoals, LateGoals, Steps, Halts, Earned, Late, Needed
  <2> QED
    BY <2>2 DEF publication
<1> QED
  BY <1>4, <1>5, <1>6

LEMMA ReboundIs ==
  ASSUME Typed, NEW c \in Cycles
  PROVE  Rebound(c) \in Binding /\ Rebound(c).draft = Draft(cycle[c].bound)
<1> DEFINE b == cycle[c].bound
           o == Pipe(b)
           line == IF o.found THEN o ELSE b
<1>1. b \in Binding
  BY DEF Typed, CyclesTyped, CycleRow
<1>2. /\ b.research \in Ids /\ b.creative \in Ids /\ b.producer \in Ids
      /\ b.concepts \in Ids /\ b.draft \in Ids /\ b.proposal \in Ids
  BY <1>1 DEF Binding, Ids
<1>3. o.found => o.research \in Ids /\ o.creative \in Ids /\ o.producer \in Ids
  BY <1>2, ObserveNames DEF Pipe
<1>4. line.research \in Ids /\ line.creative \in Ids /\ line.producer \in Ids
  <2> HIDE DEF o, b
  <2> QED
    BY <1>2, <1>3
<1>5. Concepts(b) \in Ids /\ Draft(b) \in Ids
  BY <1>2, NoneIs DEF Concepts, Draft
<1>6. Proposal(c, b) \in Ids
  <2>1. Insight(c) \in Ids
    BY DEF Insight, Ids
  <2> QED
    BY <1>2, <2>1, NoneIs DEF Proposal
<1>7. Rebound(c) = [research |-> line.research, creative |-> line.creative, producer |-> line.producer,
                    concepts |-> Concepts(b), draft |-> Draft(b), proposal |-> Proposal(c, b)]
  BY DEF Rebound
<1> HIDE DEF line, o, b
<1>8. Rebound(c) \in Binding /\ Rebound(c).draft = Draft(b)
  BY <1>4, <1>5, <1>6, <1>7 DEF Binding, Ids
<1> QED
  BY <1>8 DEF b

-----------------------------------------------------------------------------
(* What lasts from one state to the next.                                  *)

StatesGoOn ==
  \A i \in Runs :
    \A ahead \in Milestones :
      runs[i].state \in ahead => runs'[i].state \in ahead

AskedGoOn == \A c \in Cycles : (Asked(c) => Asked(c)') /\ AskedOnce(c)'

LEMMA GoingOn ==
  ASSUME Inv, RunsGoOn \/ UNCHANGED product
  PROVE  PipelineTyped' /\ StatesGoOn /\ AskedGoOn
<1>1. CASE RunsGoOn
  BY <1>1 DEF RunsGoOn, Onward, StatesGoOn, AskedGoOn, Asked, AskedOnce, Inv, AllEarned, CycleIsEarned
<1>2. CASE UNCHANGED product
  BY <1>2 DEF product, PipelineTyped, StatesGoOn, AskedGoOn, Asked, AskedOnce, Inv, Typed, AllEarned, CycleIsEarned
<1> QED
  BY <1>1, <1>2

LEMMA DraftGoesOn ==
  ASSUME StatesGoOn, NEW x \in Ids
  PROVE  /\ \A stage : State(x) \in Needed(stage) => State(x)' \in Needed(stage)
         /\ State(x) \in PublicationStates => State(x)' \in PublicationStates
BY NeededAre, NoneIs, NoneNeeded DEF StatesGoOn, State, Ids, PublicationStates

\* A cycle whose stage, draft and steps stay.
LEMMA CycleStays ==
  ASSUME Inv, StatesGoOn, AskedGoOn, NEW c \in Cycles,
         cycle'[c].bound.draft = cycle[c].bound.draft,
         cycle'[c].stage = cycle[c].stage, steps'[c] = steps[c], launched \subseteq launched'
  PROVE  CycleIsEarned(c)'
<1>1. cycle[c].bound.draft \in Ids
  BY DEF Inv, Typed, CyclesTyped, CycleRow, Binding, Ids
<1> QED
  BY <1>1, DraftGoesOn DEF Inv, AllEarned, CycleIsEarned, DraftIsReal, AskedGoOn

\* An attempt that stays where it is, about a cycle that does not turn back.
LEMMA AttemptStays ==
  ASSUME Inv, StatesGoOn, AskedGoOn, NEW a \in Attempts, attempt'[a] = attempt[a], launched \subseteq launched',
         attempt[a].at # "idle" /\ cycle[attempt[a].cycle].stage \in Late \cup Ends =>
           /\ cycle'[attempt[a].cycle].stage \in Late \cup Ends
           /\ cycle'[attempt[a].cycle].bound.draft = cycle[attempt[a].cycle].bound.draft
  PROVE  AttemptIsEarned(a)'
<1>1. attempt[a].at # "idle" => attempt[a].cycle \in Cycles
  BY DEF Inv, Typed, AttemptsTyped
<1>2. attempt[a].seen.draft \in Ids
  BY DEF Inv, Typed, AttemptsTyped, AttemptRow, Binding, Ids
<1> QED
  BY <1>1, <1>2, DraftGoesOn DEF Inv, AllEarned, AttemptIsEarned, DraftIsReal, AskedGoOn

LEMMA AttemptOver ==
  ASSUME AttemptsTyped, NEW a \in Attempts, attempt' = [attempt EXCEPT ![a] = Idle],
         \A c \in Cycles : cycle[c].status # "NONE" => cycle'[c].status # "NONE"
  PROVE  AttemptsTyped' /\ attempt'[a].at = "idle" /\ \A b \in Attempts : b # a => attempt'[b] = attempt[b]
<1>1. Idle \in AttemptRow /\ Idle.at = "idle"
  BY DEF Idle, AttemptRow, Binding, Unbound
<1> QED
  BY <1>1 DEF AttemptsTyped

\* Cycles that were started stay so.
StartedStay == \A c \in Cycles : cycle[c].status # "NONE" => cycle'[c].status # "NONE"

LEMMA FlowStays ==
  ASSUME FlowTyped, flow' = flow, StartedStay
  PROVE  FlowTyped'
BY DEF FlowTyped, StartedStay

\* A workflow that a started cycle has changes its state.
LEMMA FlowChanges ==
  ASSUME FlowTyped, StartedStay, NEW c \in Cycles, NEW row \in FlowRow, flow' = [flow EXCEPT ![c] = row],
         row.state # "none" => cycle[c].status # "NONE"
  PROVE  FlowTyped'
BY DEF FlowTyped, StartedStay

\* Whatever becomes of an activity, its workflow has a state.
LEMMA FlowGoesOn ==
  ASSUME FlowTyped, StartedStay, NEW a \in Attempts, attempt[a].cycle \in Cycles,
         cycle[attempt[a].cycle].status # "NONE",
         \/ flow' = flow \/ OneTryLess(attempt[a].cycle) \/ Ended(a, TRUE) \/ Ended(a, FALSE)
  PROVE  FlowTyped'
<1> DEFINE c == attempt[a].cycle
<1>1. \/ flow' = flow
      \/ \E row \in FlowRow : flow' = [flow EXCEPT ![c] = row]
  BY DEF OneTryLess, Ended, FlowRow
<1> QED
  BY <1>1, FlowStays, FlowChanges

\* Nothing but the workflows, the attempts and what happened to the product moves.
LEMMA Uneventful ==
  ASSUME Inv, RunsGoOn \/ UNCHANGED product, UNCHANGED <<cycle, steps, launched>>,
         \A b \in Attempts : attempt'[b] = attempt[b] \/ attempt'[b].at = "idle"
  PROVE  AllEarned' /\ PipelineTyped' /\ CyclesTyped' /\ launched' \subseteq Runs
<1>1. PipelineTyped' /\ StatesGoOn /\ AskedGoOn
  BY GoingOn
<1>2. \A c \in Cycles : CycleIsEarned(c)'
  BY <1>1, CycleStays
<1>3. \A b \in Attempts : AttemptIsEarned(b)'
  <2> SUFFICES ASSUME NEW b \in Attempts PROVE AttemptIsEarned(b)'
    OBVIOUS
  <2>1. CASE attempt'[b] = attempt[b]
    BY <1>1, <2>1, AttemptStays
  <2>2. CASE attempt'[b].at = "idle"
    BY <2>2 DEF AttemptIsEarned
  <2> QED
    BY <2>1, <2>2
<1> QED
  BY <1>1, <1>2, <1>3 DEF AllEarned, Inv, Typed, CyclesTyped

LEMMA UneventfulKeeps ==
  ASSUME Inv,
         \/ World \/ Mishap \/ UNCHANGED vars
         \/ \E c \in Cycles : StartWorkflow(c) \/ LoseWorkflow(c)
         \/ \E a \in Attempts : TimesOut(a) \/ Dies(a) \/ SkipStep(a)
  PROVE  Inv'
<1> USE CycleAssumption DEF Inv, Typed
<1>0. launched \subseteq Ids
  BY DEF Ids
<1>1. CASE World \/ Mishap
  <2>1. RunsGoOn /\ UNCHANGED <<cycle, steps, flow, attempt, launched>> /\ BoundsTyped'
    BY <1>0, <1>1, WorldGoesOn DEF World, Mishap, BoundsTyped
  <2> QED
    BY <2>1, Uneventful DEF AttemptsTyped, FlowTyped
<1>2. CASE UNCHANGED vars
  BY <1>2, Uneventful DEF vars, product, AttemptsTyped, FlowTyped, BoundsTyped
<1>3. ASSUME NEW c \in Cycles, StartWorkflow(c) \/ LoseWorkflow(c) PROVE Inv'
  <2>1. UNCHANGED <<product, cycle, steps, attempt, launched>> /\ BoundsTyped' /\ FlowTyped'
    BY <1>3 DEF StartWorkflow, LoseWorkflow, BoundsTyped, FlowTyped, FlowRow, product
  <2> QED
    BY <2>1, Uneventful DEF AttemptsTyped
<1>4. ASSUME NEW a \in Attempts, TimesOut(a) \/ Dies(a) \/ SkipStep(a) PROVE Inv'
  <2>1. attempt[a].at # "idle" /\ attempt[a].cycle \in Cycles /\ cycle[attempt[a].cycle].status # "NONE"
    BY <1>4 DEF TimesOut, Dies, SkipStep, AttemptsTyped
  <2>a. UNCHANGED <<product, cycle, steps, launched>>
    BY <1>4 DEF TimesOut, Dies, SkipStep, product
  <2>b. BoundsTyped'
    <3>1. UNCHANGED setbacks /\ (faults' = faults \/ (faults < MaxFaults /\ faults' = faults + 1))
      BY <1>4 DEF TimesOut, Dies, SkipStep
    <3> QED
      BY <3>1 DEF BoundsTyped
  <2>2. UNCHANGED <<product, cycle, steps, launched>> /\ BoundsTyped'
    BY <2>a, <2>b
  <2>3. FlowTyped'
    <3>1. \/ flow' = flow \/ OneTryLess(attempt[a].cycle) \/ Ended(a, FALSE)
      BY <1>4 DEF TimesOut, Dies, SkipStep
    <3> QED
      BY <2>1, <2>2, <3>1, FlowGoesOn DEF StartedStay
  <2>4. UNCHANGED attempt \/ attempt' = [attempt EXCEPT ![a] = Idle]
    BY <1>4 DEF TimesOut, Dies, SkipStep, Ended
  <2>5. AttemptsTyped' /\ \A b \in Attempts : attempt'[b] = attempt[b] \/ attempt'[b].at = "idle"
    BY <2>2, <2>4, AttemptOver DEF AttemptsTyped
  <2> QED
    BY <2>2, <2>3, <2>5, Uneventful
<1> QED
  BY <1>1, <1>2, <1>3, <1>4

-----------------------------------------------------------------------------
(* The first transaction, and what is started between the two.             *)

LEMMA ReconcileKeeps ==
  ASSUME Inv, NEW a \in Attempts, NEW c \in Cycles, Reconcile(a, c)
  PROVE  Inv'
<1> USE DEF Inv, Typed
<1>1. UNCHANGED <<product, cycle, steps, launched, faults, setbacks>>
  BY DEF Reconcile
<1>2. CASE cycle[c].status \in Ends
  <2>1. UNCHANGED attempt /\ FlowTyped'
    BY <1>1, <1>2 DEF Reconcile, FlowTyped, FlowRow
  <2> QED
    BY <1>1, <2>1, Uneventful DEF AttemptsTyped, BoundsTyped
<1>3. CASE cycle[c].status \notin Ends
  <2> DEFINE goal == Goal(c)
             seen == IF goal \in Stages THEN Rebound(c) ELSE cycle[c].bound
             new == [at |-> "decided", cycle |-> c, goal |-> goal, seen |-> seen]
  <2>1. goal # "none" /\ attempt' = [attempt EXCEPT ![a] = new] /\ flow' = [flow EXCEPT ![c].by = a]
    BY <1>3 DEF Reconcile
  <2>2. CycleIsEarned(c)
    BY DEF AllEarned
  <2>3. cycle[c].stage \in Late => cycle[c].bound.draft # None
    BY <2>2, NoneIs, NoneNeeded DEF CycleIsEarned, Earned
  <2>4. /\ goal \in Goals
        /\ goal \in LateGoals => cycle[c].stage \in Late
        /\ goal \in Earned => State(Draft(cycle[c].bound)) \in Needed(goal)
    BY <2>1, <2>2, <2>3, GoalIs DEF CycleIsEarned
  <2>5. seen \in Binding /\ (goal \in Stages => seen.draft = Draft(cycle[c].bound))
        /\ (goal \notin Stages => seen.draft = cycle[c].bound.draft)
    BY ReboundIs DEF CyclesTyped, CycleRow
  <2>6. DraftIsReal(seen)
    <3>1. DraftIsReal(cycle[c].bound)
      BY <2>2 DEF CycleIsEarned
    <3> HIDE DEF seen, goal
    <3> QED
      BY <2>5, <3>1, NoneIs DEF DraftIsReal, Draft
  <2>7. goal \in Earned => goal \in Stages
    BY StagesAre DEF Earned, Late, EarlyGoals
  <2>8. goal \in LateGoals => seen.draft = cycle[c].bound.draft /\ seen.draft # None
    <3> HIDE DEF seen, goal
    <3> QED
      BY <2>3, <2>4, <2>5 DEF Draft
  <2>9. cycle[c].status # "NONE"
    BY <2>1 DEF Reconcile, FlowTyped
  <2> HIDE DEF goal, seen
  <2>10. new \in AttemptRow /\ goal # "none"
    BY <2>1, <2>4, <2>5 DEF AttemptRow
  <2> DEFINE was == attempt[a]
  <2>11. attempt'[a] = new /\ \A b \in Attempts \ {a} : attempt'[b] = attempt[b]
    BY <2>1 DEF AttemptsTyped
  <2>12. AttemptsTyped'
    BY <1>1, <2>1, <2>9, <2>10 DEF AttemptsTyped
  <2>13. FlowTyped'
    BY <1>1, <2>1, <2>9 DEF FlowTyped, FlowRow
  <2>14. PipelineTyped' /\ StatesGoOn /\ AskedGoOn
    BY <1>1, GoingOn
  <2>15. \A d \in Cycles : CycleIsEarned(d)'
    BY <1>1, <2>14, CycleStays
  <2>16. \A b \in Attempts \ {a} : AttemptIsEarned(b)'
    BY <1>1, <2>11, <2>14, AttemptStays
  <2>17. AttemptIsEarned(a)'
    <3>1. runs' = runs /\ cycle' = cycle
      BY <1>1 DEF product
    <3>2. goal \in Earned => State(seen.draft) \in Needed(goal)
      BY <2>4, <2>5, <2>7
    <3> QED
      BY <2>4, <2>6, <2>8, <2>11, <3>1, <3>2 DEF AttemptIsEarned, DraftIsReal, State
  <2> QED
    BY <1>1, <2>12, <2>13, <2>14, <2>15, <2>16, <2>17 DEF AllEarned, CyclesTyped, BoundsTyped
<1> QED
  BY <1>2, <1>3

\* A publication or a measurement is started: what the attempt saw bound is a draft.
LEMMA StartStepKeeps ==
  ASSUME Inv, NEW a \in Attempts, StartStep(a)
  PROVE  Inv'
<1> USE DEF Inv, Typed
<1>0. PICK c \in Cycles, seen \in Binding : c = attempt[a].cycle /\ seen = attempt[a].seen
  BY DEF StartStep, AttemptsTyped, AttemptRow
<1> DEFINE new == [attempt[a] EXCEPT !.at = "started"]
<1>1. /\ UNCHANGED <<product, cycle, steps, flow, faults, setbacks>>
      /\ attempt[a].at = "decided" /\ attempt[a].goal \in {"publishing", "measurement"}
      /\ attempt' = [attempt EXCEPT ![a] = new]
      /\ launched' = IF attempt[a].goal = "publishing" THEN launched \cup {Draft(seen)} ELSE launched
  BY <1>0 DEF StartStep
<1>2. attempt[a].goal \in LateGoals \cap Steps
  BY <1>1 DEF LateGoals, Steps
<1>3. cycle[c].status # "NONE" /\ attempt[a] \in AttemptRow
  BY <1>0, <1>1 DEF AttemptsTyped
<1>4. AttemptIsEarned(a)
  BY DEF AllEarned
<1>5. seen.draft # None /\ seen.draft \in Runs /\ Draft(seen) = seen.draft
  BY <1>0, <1>1, <1>2, <1>4 DEF AttemptIsEarned, Binding, Draft
<1>6. launched \subseteq launched' /\ launched' \subseteq Runs
  BY <1>1, <1>5
<1>7. /\ new \in AttemptRow /\ new.at = "started" /\ new.cycle = c
      /\ new.goal = attempt[a].goal /\ new.seen = seen
  BY <1>0, <1>3 DEF AttemptRow
<1> HIDE DEF new
<1>8. attempt'[a] = new /\ \A b \in Attempts \ {a} : attempt'[b] = attempt[b]
  BY <1>1 DEF AttemptsTyped
<1>9. AttemptsTyped'
  BY <1>1, <1>2, <1>3, <1>7 DEF AttemptsTyped
<1>10. PipelineTyped' /\ StatesGoOn /\ AskedGoOn
  BY <1>1, GoingOn
<1>11. \A d \in Cycles : CycleIsEarned(d)'
  BY <1>1, <1>6, <1>10, CycleStays
<1>12. \A b \in Attempts \ {a} : AttemptIsEarned(b)'
  BY <1>1, <1>6, <1>8, <1>10, AttemptStays
<1>13. AttemptIsEarned(a)'
  <2>1. runs' = runs /\ cycle' = cycle
    BY <1>1 DEF product
  <2>2. attempt[a].goal = "publishing" => seen.draft \in launched'
    BY <1>1, <1>5
  <2>3. attempt[a].goal # "intelligence" /\ attempt[a].goal \notin Earned
    BY <1>1 DEF Earned, Late
  <2> QED
    BY <1>0, <1>1, <1>2, <1>4, <1>7, <1>8, <2>1, <2>2, <2>3 DEF AttemptIsEarned, DraftIsReal, State
<1>14. FlowTyped' /\ CyclesTyped' /\ BoundsTyped'
  BY <1>1 DEF FlowTyped, CyclesTyped, BoundsTyped
<1> QED
  BY <1>6, <1>9, <1>10, <1>11, <1>12, <1>13, <1>14 DEF AllEarned

\* The analysis of a cycle is asked for, once, or another's that is under way is in its way.
LEMMA RequestIntelligenceKeeps ==
  ASSUME Inv, NEW a \in Attempts, RequestIntelligence(a)
  PROVE  Inv'
<1> USE DEF Inv, Typed
<1>0. PICK c \in Cycles, seen \in Binding : c = attempt[a].cycle /\ seen = attempt[a].seen
  BY DEF RequestIntelligence, AttemptsTyped, AttemptRow
<1> DEFINE halted == [attempt[a] EXCEPT !.goal = "needs_recovery"]
           started == [attempt[a] EXCEPT !.at = "started"]
<1>1. /\ UNCHANGED <<revalidated, cycle, steps, flow, launched, faults, setbacks>>
      /\ attempt[a].at = "decided" /\ attempt[a].goal = "intelligence"
      /\ \/ runs' = runs /\ attempt' = [attempt EXCEPT ![a] = halted]
         \/ /\ attempt' = [attempt EXCEPT ![a] = started]
            /\ \/ Insight(c) # None /\ runs' = runs
               \/ /\ Insight(c) = None
                  /\ \E i \in Runs : Fresh(i) /\ Requested(i, "intelligence", None, None, c)
  BY <1>0 DEF RequestIntelligence
<1>2. c # None /\ cycle[c].status # "NONE" /\ attempt[a] \in AttemptRow
  BY <1>0, <1>1, NoneIs DEF AttemptsTyped
<1>3. AttemptIsEarned(a) /\ \A d \in Cycles : AskedOnce(d)
  BY DEF AllEarned, CycleIsEarned
<1>4. (Insight(c) = None) <=> ~Asked(c)
  BY NoneIs DEF Insight, Asked
<1>5. PipelineTyped' /\ StatesGoOn /\ AskedGoOn /\ (attempt'[a].at = "started" => Asked(c)')
  <2>1. CASE runs' = runs /\ attempt' = [attempt EXCEPT ![a] = halted]
    <3>1. halted.at = "decided" /\ attempt'[a] = halted
      BY <2>1, <1>1, <1>2 DEF AttemptsTyped, AttemptRow
    <3> QED
      BY <2>1, <3>1, <1>1, GoingOn DEF product
  <2>2. CASE Insight(c) # None /\ runs' = runs
    BY <2>2, <1>1, <1>4, GoingOn DEF product, Asked
  <2>3. CASE Insight(c) = None /\ \E i \in Runs : Fresh(i) /\ Requested(i, "intelligence", None, None, c)
    <3>1. PICK i \in Runs : Fresh(i) /\ Requested(i, "intelligence", None, None, c)
      BY <2>3
    <3>2. c \in Requesters /\ UNCHANGED revalidated
      BY <1>1, <1>2 DEF Cycles
    <3>3. PipelineTyped' /\ (\A j \in Runs : j # i => Onward(j)) /\ runs'[i].by = c /\ runs[i].state = "none"
      BY <3>1, <3>2, RunIsAdded
    <3>4. runs[i].by = None
      BY <3>1, RowIs DEF Fresh
    <3>5. StatesGoOn
      <4>1. "none" \notin PublicationStates
        BY DEF PublicationStates
      <4>2. \A j \in Runs, ahead \in Milestones :
              runs[j].state \in ahead => j # i
        BY <3>3, <4>1
      <4> QED
        BY <3>3, <4>2 DEF StatesGoOn, Onward
    <3>6. \A j \in Runs : j # i => runs'[j].by = runs[j].by
      BY <3>3 DEF Onward
    <3>7. \A j \in Runs : runs[j].by # c
      BY <2>3, <1>4 DEF Asked
    <3>8. AskedGoOn
      <4> SUFFICES ASSUME NEW d \in Cycles PROVE (Asked(d) => Asked(d)') /\ AskedOnce(d)'
        BY DEF AskedGoOn
      <4>1. d # None
        BY NoneIs
      <4>2. CASE d = c
        BY <3>1, <3>3, <3>6, <3>7, <4>2 DEF Asked, AskedOnce
      <4>3. CASE d # c
        BY <3>3, <3>4, <3>6, <4>1, <4>3, <1>3 DEF Asked, AskedOnce
      <4> QED
        BY <4>2, <4>3
    <3>9. Asked(c)'
      BY <3>1, <3>3 DEF Asked
    <3> QED
      BY <3>3, <3>5, <3>8, <3>9
  <2> QED
    BY <1>1, <2>1, <2>2, <2>3
<1>6. \E new \in {halted, started} : attempt' = [attempt EXCEPT ![a] = new]
  BY <1>1
<1>7. /\ halted \in AttemptRow /\ halted.at = "decided" /\ halted.cycle = c
      /\ halted.goal = "needs_recovery" /\ halted.seen = seen
  BY <1>0, <1>1, <1>2 DEF AttemptRow, Goals, Halts
<1>8. /\ started \in AttemptRow /\ started.at = "started" /\ started.cycle = c
      /\ started.goal = "intelligence" /\ started.seen = seen
  BY <1>0, <1>1, <1>2 DEF AttemptRow
<1> HIDE DEF halted, started
<1>9. attempt'[a] \in {halted, started} /\ \A b \in Attempts \ {a} : attempt'[b] = attempt[b]
  BY <1>6 DEF AttemptsTyped
<1>10. AttemptsTyped'
  BY <1>1, <1>2, <1>6, <1>7, <1>8 DEF AttemptsTyped, Steps
<1>11. \A d \in Cycles : CycleIsEarned(d)'
  BY <1>1, <1>5, CycleStays
<1>12. \A b \in Attempts \ {a} : AttemptIsEarned(b)'
  BY <1>1, <1>5, <1>9, AttemptStays
<1>13. AttemptIsEarned(a)'
  <2>1. attempt'[a].seen = seen /\ attempt'[a].cycle = c /\ attempt'[a].goal \in {"needs_recovery", "intelligence"}
    BY <1>7, <1>8, <1>9
  <2>2. seen.draft # None => seen.draft \in Ids /\ State(seen.draft) \in PublicationStates
    BY <1>0, <1>1, <1>3 DEF AttemptIsEarned, DraftIsReal, Binding, Ids
  <2>3. seen.draft # None => State(seen.draft)' \in PublicationStates
    BY <2>2, <1>5, DraftGoesOn
  <2>4. cycle[c].stage \in Late \cup Ends /\ seen.draft = cycle[c].bound.draft /\ seen.draft # None
    BY <1>0, <1>1, <1>3 DEF AttemptIsEarned, LateGoals, Steps
  <2>5. attempt'[a].goal \notin Earned /\ attempt'[a].goal # "publishing"
    BY <2>1 DEF Earned, Late
  <2> QED
    BY <1>1, <1>5, <2>1, <2>3, <2>4, <2>5 DEF AttemptIsEarned, DraftIsReal
<1>14. FlowTyped' /\ CyclesTyped' /\ BoundsTyped'
  BY <1>1 DEF FlowTyped, CyclesTyped, BoundsTyped
<1> QED
  BY <1>1, <1>5, <1>10, <1>11, <1>12, <1>13, <1>14 DEF AllEarned

-----------------------------------------------------------------------------
(* The second transaction: an attempt is over.                             *)

\* Whatever the attempt did to a cycle, no cycle turned back or changed its draft late.
LateStays ==
  \A c \in Cycles : cycle[c].stage \in Late \cup Ends =>
    cycle'[c].stage \in Late \cup Ends /\ cycle'[c].bound.draft = cycle[c].bound.draft

LEMMA AttemptEnds ==
  ASSUME Inv, NEW a \in Attempts, attempt[a].at # "idle", Ended(a, TRUE) \/ Ended(a, FALSE),
         UNCHANGED <<product, launched, faults, setbacks>>,
         CyclesTyped', StartedStay, LateStays, \A c \in Cycles : CycleIsEarned(c)'
  PROVE  Inv'
<1> USE DEF Inv, Typed
<1>1. attempt[a].cycle \in Cycles /\ cycle[attempt[a].cycle].status # "NONE"
  BY DEF AttemptsTyped
<1>2. FlowTyped'
  BY <1>1, FlowGoesOn
<1>3. AttemptsTyped' /\ attempt'[a].at = "idle" /\ \A b \in Attempts : b # a => attempt'[b] = attempt[b]
  BY AttemptOver DEF Ended, StartedStay
<1>4. PipelineTyped' /\ StatesGoOn /\ AskedGoOn
  BY GoingOn
<1>5. ASSUME NEW b \in Attempts PROVE AttemptIsEarned(b)'
  <2>1. CASE b = a
    BY <2>1, <1>3 DEF AttemptIsEarned
  <2>2. CASE b # a
    <3>1. attempt[b].at # "idle" => attempt[b].cycle \in Cycles
      BY DEF AttemptsTyped
    <3> QED
      BY <2>2, <3>1, <1>3, <1>4, AttemptStays DEF LateStays
  <2> QED
    BY <2>1, <2>2
<1> QED
  BY <1>2, <1>3, <1>4, <1>5 DEF AllEarned, BoundsTyped

LEMMA RaisesKeeps ==
  ASSUME Inv, NEW a \in Attempts, attempt[a].at # "idle", Raises(a)
  PROVE  Inv'
<1> USE DEF Inv, Typed
<1>1. /\ attempt' = [attempt EXCEPT ![a] = Idle] /\ UNCHANGED <<product, cycle, steps, launched, faults, setbacks>>
      /\ flow' = flow \/ OneTryLess(attempt[a].cycle)
  BY DEF Raises
<1>2. attempt[a].cycle \in Cycles /\ cycle[attempt[a].cycle].status # "NONE"
  BY DEF AttemptsTyped
<1>3. FlowTyped'
  BY <1>1, <1>2, FlowGoesOn DEF StartedStay
<1>4. AttemptsTyped' /\ \A b \in Attempts : attempt'[b] = attempt[b] \/ attempt'[b].at = "idle"
  BY <1>1, AttemptOver
<1> QED
  BY <1>1, <1>3, <1>4, Uneventful DEF BoundsTyped

\* One row of the cycles changes.
LEMMA RowChanges ==
  ASSUME CyclesTyped, NEW c \in Cycles, NEW row \in CycleRow, cycle' = [cycle EXCEPT ![c] = row],
         steps' \in [Cycles -> SUBSET Steps], \A d \in Cycles \ {c} : steps'[d] = steps[d],
         row.status # "NONE"
  PROVE  CyclesTyped' /\ StartedStay /\ cycle'[c] = row /\ \A d \in Cycles \ {c} : cycle'[d] = cycle[d]
BY DEF CyclesTyped, StartedStay

LEMMA TransitionKeeps ==
  ASSUME Inv, NEW a \in Attempts, Transition(a)
  PROVE  Inv'
<1> USE DEF Inv, Typed
<1>0. PICK c \in Cycles, seen \in Binding, goal \in Goals :
        c = attempt[a].cycle /\ seen = attempt[a].seen /\ goal = attempt[a].goal
  BY DEF Transition, AttemptsTyped, AttemptRow
<1>1. attempt[a].at = "decided" /\ goal \in Stages
  BY <1>0 DEF Transition
<1>2. CASE Raises(a)
  BY <1>1, <1>2, RaisesKeeps
<1>3. CASE ~ Raises(a)
  <2> DEFINE row == [[[cycle[c] EXCEPT !.stage = goal] EXCEPT !.status = StatusOf(goal)] EXCEPT !.bound = seen]
  <2>1. /\ Legal(cycle[c].stage, goal) /\ cycle' = [cycle EXCEPT ![c] = row]
        /\ Ended(a, goal \in Ends) /\ UNCHANGED <<product, steps, launched, faults, setbacks>>
    BY <1>0, <1>3 DEF Transition, CanMove, CyclesTyped, CycleRow
  <2>2. cycle[c] \in CycleRow /\ steps \in [Cycles -> SUBSET Steps]
    BY DEF CyclesTyped
  <2>3. row \in CycleRow /\ row.stage = goal /\ row.status # "NONE" /\ row.bound = seen
    BY <2>2, <1>1 DEF CycleRow, StatusOf, Statuses, Ends
  <2> HIDE DEF row
  <2>4. CyclesTyped' /\ StartedStay /\ cycle'[c] = row /\ \A d \in Cycles \ {c} : cycle'[d] = cycle[d]
    BY <2>1, <2>2, <2>3, RowChanges
  <2>5. CycleIsEarned(c) /\ AttemptIsEarned(a)
    BY DEF AllEarned
  <2>6. cycle[c].stage \in Late \cup Ends => goal \in Late \cup Ends /\ seen.draft = cycle[c].bound.draft
    <3>1. cycle[c].stage \notin Ends /\ (goal \in EarlyGoals => cycle[c].stage \notin Late)
      BY <2>1, <2>2, LegalIs DEF CycleRow
    <3>2. goal \in EarlyGoals \/ goal \in LateGoals \ Steps
      BY <1>1, StagesAre
    <3>3. goal \in LateGoals \ Steps => goal \in Late \cup Ends
      BY DEF LateGoals, Steps, Late, Ends
    <3>4. goal \in LateGoals => seen.draft = cycle[c].bound.draft
      BY <1>0, <1>1, <2>5 DEF AttemptIsEarned
    <3> QED
      BY <3>1, <3>2, <3>3, <3>4
  <2>7. LateStays
    BY <2>3, <2>4, <2>6 DEF LateStays
  <2>8. PipelineTyped' /\ StatesGoOn /\ AskedGoOn
    BY <2>1, GoingOn
  <2>9. CycleIsEarned(c)'
    <3>1. DraftIsReal(seen) /\ (goal \in Earned => State(seen.draft) \in Needed(goal))
      BY <1>0, <1>1, <2>5 DEF AttemptIsEarned
    <3>2. runs' = runs /\ steps' = steps /\ launched' = launched
      BY <2>1 DEF product
    <3> QED
      BY <3>1, <3>2, <2>3, <2>4, <2>5, <2>6, <2>8 DEF CycleIsEarned, DraftIsReal, State, AskedGoOn
  <2>10. \A d \in Cycles : CycleIsEarned(d)'
    BY <2>1, <2>4, <2>8, <2>9, CycleStays
  <2>11. Ended(a, TRUE) \/ Ended(a, FALSE)
    <3>1. (goal \in Ends) = TRUE \/ (goal \in Ends) = FALSE
      OBVIOUS
    <3> QED
      BY <2>1, <3>1
  <2> QED
    BY <1>1, <2>1, <2>4, <2>7, <2>10, <2>11, AttemptEnds
<1> QED
  BY <1>2, <1>3

LEMMA HaltKeeps ==
  ASSUME Inv, NEW a \in Attempts, Halt(a)
  PROVE  Inv'
<1> USE DEF Inv, Typed
<1>0. PICK c \in Cycles : c = attempt[a].cycle
  BY DEF Halt, AttemptsTyped
<1>1. attempt[a].at = "decided"
  BY DEF Halt
<1>2. CASE Raises(a)
  BY <1>1, <1>2, RaisesKeeps
<1>3. CASE ~ Raises(a)
  <2> DEFINE row(status) == [cycle[c] EXCEPT !.status = status]
  <2>1. PICK status \in {"BLOCKED", "NEEDS_RECOVERY"} : cycle' = [cycle EXCEPT ![c] = row(status)]
    BY <1>0, <1>3 DEF Halt
  <2>2. Ended(a, FALSE) /\ UNCHANGED <<product, steps, launched, faults, setbacks>>
    BY <1>3 DEF Halt
  <2>3. cycle[c] \in CycleRow /\ steps \in [Cycles -> SUBSET Steps]
    BY DEF CyclesTyped
  <2>4. /\ row(status) \in CycleRow /\ row(status).stage = cycle[c].stage
        /\ row(status).status # "NONE" /\ row(status).bound = cycle[c].bound
    BY <2>3 DEF CycleRow, Statuses
  <2> HIDE DEF row
  <2>5. CyclesTyped' /\ StartedStay /\ cycle'[c] = row(status) /\ \A d \in Cycles \ {c} : cycle'[d] = cycle[d]
    BY <2>1, <2>2, <2>3, <2>4, RowChanges
  <2>6. LateStays
    BY <2>4, <2>5 DEF LateStays
  <2>7. PipelineTyped' /\ StatesGoOn /\ AskedGoOn
    BY <2>2, GoingOn
  <2>8. \A d \in Cycles : CycleIsEarned(d)'
    BY <2>2, <2>4, <2>5, <2>7, CycleStays
  <2> QED
    BY <1>1, <2>2, <2>5, <2>6, <2>8, AttemptEnds
<1> QED
  BY <1>2, <1>3

\* What is recorded was done: its draft is the cycle's, or its run the cycle's own.
LEMMA RecordStepKeeps ==
  ASSUME Inv, NEW a \in Attempts, RecordStep(a)
  PROVE  Inv'
<1> USE DEF Inv, Typed
<1>0. PICK c \in Cycles, seen \in Binding, goal \in Steps :
        c = attempt[a].cycle /\ seen = attempt[a].seen /\ goal = attempt[a].goal
  BY DEF RecordStep, AttemptsTyped, AttemptRow
<1>1. attempt[a].at = "started"
  BY DEF RecordStep
<1>2. CASE Raises(a)
  BY <1>1, <1>2, RaisesKeeps
<1>3. CASE ~ Raises(a)
  <2>1. /\ steps' = [steps EXCEPT ![c] = @ \cup {goal}]
        /\ cycle' = IF goal = "intelligence" THEN [cycle EXCEPT ![c].bound = seen] ELSE cycle
        /\ Ended(a, FALSE) /\ UNCHANGED <<product, launched, faults, setbacks>>
    BY <1>0, <1>3 DEF RecordStep
  <2> DEFINE row == IF goal = "intelligence" THEN [cycle[c] EXCEPT !.bound = seen] ELSE cycle[c]
  <2>2. cycle' = [cycle EXCEPT ![c] = row]
    BY <2>1 DEF CyclesTyped
  <2>3. cycle[c] \in CycleRow /\ cycle[c].status # "NONE" /\ steps \in [Cycles -> SUBSET Steps]
    BY <1>0, <1>1 DEF CyclesTyped, AttemptsTyped
  <2>4. CycleIsEarned(c) /\ AttemptIsEarned(a)
    BY DEF AllEarned
  <2>5. /\ cycle[c].stage \in Late \cup Ends /\ seen.draft = cycle[c].bound.draft
        /\ goal = "publishing" => seen.draft \in launched
        /\ goal = "intelligence" => Asked(c)
    BY <1>0, <1>1, <2>4 DEF AttemptIsEarned, LateGoals
  <2>6. /\ row \in CycleRow /\ row.stage = cycle[c].stage /\ row.status # "NONE"
        /\ row.bound.draft = cycle[c].bound.draft
    BY <2>3, <2>5 DEF CycleRow
  <2> HIDE DEF row
  <2>7. steps' \in [Cycles -> SUBSET Steps] /\ steps'[c] = steps[c] \cup {goal}
        /\ \A d \in Cycles \ {c} : steps'[d] = steps[d]
    BY <2>1, <2>3
  <2>8. CyclesTyped' /\ StartedStay /\ cycle'[c] = row /\ \A d \in Cycles \ {c} : cycle'[d] = cycle[d]
    BY <2>2, <2>6, <2>7, RowChanges
  <2>9. LateStays
    BY <2>6, <2>8 DEF LateStays
  <2>10. PipelineTyped' /\ StatesGoOn /\ AskedGoOn
    BY <2>1, GoingOn
  <2>11. CycleIsEarned(c)'
    <3>1. runs' = runs /\ launched' = launched
      BY <2>1 DEF product
    <3> QED
      BY <3>1, <2>4, <2>5, <2>6, <2>7, <2>8, <2>10 DEF CycleIsEarned, DraftIsReal, State, AskedGoOn, Asked
  <2>12. \A d \in Cycles : CycleIsEarned(d)'
    BY <2>1, <2>7, <2>8, <2>10, <2>11, CycleStays
  <2> QED
    BY <1>1, <2>1, <2>8, <2>9, <2>12, AttemptEnds
<1> QED
  BY <1>2, <1>3

-----------------------------------------------------------------------------
(* What people do.                                                         *)

\* No attempt is about a cycle that was not started.
LEMMA StartKeeps ==
  ASSUME Inv, NEW c \in Cycles, NEW parent \in Cycles \cup {None}, Start(c, parent)
  PROVE  Inv'
<1> USE DEF Inv, Typed
<1> DEFINE source == IF parent = None THEN None ELSE cycle[parent].bound.proposal
           row == [[NoCycle EXCEPT !.status = "ACTIVE"] EXCEPT !.source = source]
<1>1. /\ cycle[c].status = "NONE" /\ cycle' = [cycle EXCEPT ![c] = row]
      /\ flow' = [flow EXCEPT ![c].state = "committed"]
      /\ UNCHANGED <<product, steps, attempt, launched, faults, setbacks>>
  BY DEF Start, NoCycle
<1>2. /\ \A d \in Cycles : cycle[d] \in CycleRow
      /\ steps \in [Cycles -> SUBSET Steps] /\ steps[c] = {} /\ cycle[c].stage = "CREATED"
  BY <1>1 DEF CyclesTyped
<1>3. source \in Ids
  BY <1>2, NoneIs DEF CycleRow, Binding, Ids
<1>4. /\ row \in CycleRow /\ row.stage = "CREATED" /\ row.status = "ACTIVE"
      /\ row.bound.draft = None
  <2> HIDE DEF source
  <2> QED
    BY <1>3, StagesAre DEF CycleRow, NoCycle, Statuses, Unbound, Binding
<1> HIDE DEF row
<1>5. CyclesTyped' /\ StartedStay /\ cycle'[c] = row /\ \A d \in Cycles \ {c} : cycle'[d] = cycle[d]
  BY <1>1, <1>2, <1>4, RowChanges
<1>6. \A a \in Attempts : attempt[a].at # "idle" => attempt[a].cycle \in Cycles \ {c}
  BY <1>1 DEF AttemptsTyped
<1>7. AttemptsTyped'
  BY <1>1, <1>5 DEF AttemptsTyped, StartedStay
<1>8. FlowTyped'
  BY <1>1, <1>4, <1>5 DEF FlowTyped, FlowRow, StartedStay
<1>9. PipelineTyped' /\ StatesGoOn /\ AskedGoOn
  BY <1>1, GoingOn
<1>10. \A a \in Attempts : AttemptIsEarned(a)'
  BY <1>1, <1>5, <1>6, <1>9, AttemptStays
<1>11. CycleIsEarned(c)'
  <2>1. "CREATED" \notin Earned
    BY DEF Earned, Late
  <2> QED
    BY <1>1, <1>2, <1>4, <1>5, <1>9, <2>1 DEF CycleIsEarned, DraftIsReal, AskedGoOn
<1>12. \A d \in Cycles : CycleIsEarned(d)'
  BY <1>1, <1>5, <1>9, <1>11, CycleStays
<1> QED
  BY <1>1, <1>5, <1>7, <1>8, <1>9, <1>10, <1>12 DEF AllEarned, BoundsTyped

\* A cycle that is cancelled keeps its draft and its steps.
LEMMA CancelKeeps ==
  ASSUME Inv, NEW c \in Cycles, Cancel(c)
  PROVE  Inv'
<1> USE DEF Inv, Typed
<1> DEFINE row == [[cycle[c] EXCEPT !.stage = "CANCELLED"] EXCEPT !.status = "CANCELLED"]
<1>1. /\ cycle' = [cycle EXCEPT ![c] = row] /\ UNCHANGED <<product, steps, flow, attempt, launched, faults, setbacks>>
  BY DEF Cancel, CyclesTyped, CycleRow
<1>2. cycle[c] \in CycleRow /\ steps \in [Cycles -> SUBSET Steps]
  BY DEF CyclesTyped
<1>3. /\ row \in CycleRow /\ row.stage = "CANCELLED" /\ row.status = "CANCELLED"
      /\ row.bound = cycle[c].bound
  BY <1>2, StagesAre DEF CycleRow, Statuses, Ends
<1> HIDE DEF row
<1>4. CyclesTyped' /\ StartedStay /\ cycle'[c] = row /\ \A d \in Cycles \ {c} : cycle'[d] = cycle[d]
  BY <1>1, <1>2, <1>3, RowChanges
<1>5. AttemptsTyped' /\ FlowTyped'
  BY <1>1, <1>4, FlowStays DEF AttemptsTyped, StartedStay
<1>6. PipelineTyped' /\ StatesGoOn /\ AskedGoOn
  BY <1>1, GoingOn
<1>7. \A d \in Cycles : cycle'[d].bound = cycle[d].bound /\ (cycle[d].stage \in Late \cup Ends => cycle'[d].stage \in Late \cup Ends)
  BY <1>3, <1>4 DEF Ends
<1>8. \A a \in Attempts : AttemptIsEarned(a)'
  <2>1. \A a \in Attempts : attempt[a].at # "idle" => attempt[a].cycle \in Cycles
    BY DEF AttemptsTyped
  <2> QED
    BY <1>1, <1>6, <1>7, <2>1, AttemptStays
<1>9. CycleIsEarned(c)'
  <2>1. "CANCELLED" \notin Earned /\ "CANCELLED" \in Ends /\ CycleIsEarned(c)
    BY DEF Earned, Late, Ends, AllEarned
  <2>2. runs' = runs /\ steps' = steps /\ launched' = launched
    BY <1>1 DEF product
  <2> QED
    BY <1>3, <1>4, <1>6, <2>1, <2>2 DEF CycleIsEarned, DraftIsReal, State, AskedGoOn
<1>10. \A d \in Cycles : CycleIsEarned(d)'
  BY <1>1, <1>4, <1>6, <1>9, CycleStays
<1> QED
  BY <1>1, <1>4, <1>5, <1>6, <1>8, <1>10 DEF AllEarned, BoundsTyped

-----------------------------------------------------------------------------
(* The theorems.                                                           *)

LEMMA InitInv ==
  ASSUME Init
  PROVE  Inv
<1> USE CycleAssumption DEF Init
<1>1. PipelineTyped /\ \A i \in Runs : runs[i].by = None
  <2>1. NoRun \in RunRow /\ NoRun.by = None
    BY DEF NoRun, RunRow
  <2>2. \A i \in Runs : runs[i] \in RunRow /\ runs[i].by = None
    BY <2>1, HistoryAssumption DEF PipelineInit
  <2>3. runs = [i \in Runs |-> runs[i]]
    BY DEF PipelineInit
  <2> QED
    BY <2>2, <2>3 DEF PipelineTyped, PipelineInit
<1>2. NoCycle \in CycleRow /\ NoCycle.status = "NONE" /\ NoCycle.stage = "CREATED" /\ NoCycle.bound.draft = None
  BY NoneIs, StagesAre DEF NoCycle, CycleRow, Unbound, Binding, Statuses
<1>3. NoFlow \in FlowRow /\ NoFlow.state = "none"
  BY DEF NoFlow, FlowRow
<1>4. Idle \in AttemptRow /\ Idle.at = "idle"
  BY DEF Idle, AttemptRow, Unbound, Binding
<1>5. Typed
  BY <1>1, <1>2, <1>3, <1>4 DEF Typed, CyclesTyped, FlowTyped, AttemptsTyped, BoundsTyped
<1>6. \A c \in Cycles : CycleIsEarned(c)
  <2>1. "CREATED" \notin Earned
    BY DEF Earned, Late
  <2> QED
    BY <1>1, <1>2, <2>1, NoneIs DEF CycleIsEarned, DraftIsReal, AskedOnce
<1>7. \A a \in Attempts : AttemptIsEarned(a)
  BY <1>4 DEF AttemptIsEarned
<1> QED
  BY <1>5, <1>6, <1>7 DEF Inv, AllEarned

LEMMA NextInv ==
  ASSUME Inv, [Next]_vars
  PROVE  Inv'
<1>1. ASSUME NEW a \in Attempts, Act(a) PROVE Inv'
  BY <1>1, TransitionKeeps, HaltKeeps, UneventfulKeeps, StartStepKeeps, RecordStepKeeps, RequestIntelligenceKeeps DEF Act
<1>2. ASSUME NEW a \in Attempts, TimesOut(a) \/ Dies(a) PROVE Inv'
  BY <1>2, UneventfulKeeps
<1>3. ASSUME NEW c \in Cycles, StartWorkflow(c) \/ LoseWorkflow(c) PROVE Inv'
  BY <1>3, UneventfulKeeps
<1>4. CASE World \/ Mishap \/ UNCHANGED vars
  BY <1>4, UneventfulKeeps
<1>5. ASSUME NEW c \in Cycles,
             \/ \E parent \in Cycles \cup {None} : Start(c, parent)
             \/ Cancel(c) \/ \E a \in Attempts : Reconcile(a, c)
      PROVE  Inv'
  BY <1>5, StartKeeps, CancelKeeps, ReconcileKeeps
<1> QED
  BY <1>1, <1>2, <1>3, <1>4, <1>5 DEF Next

LEMMA AlwaysInv == Spec => []Inv
BY InitInv, NextInv, PTL DEF Spec

\* Every row, workflow and attempt is one of those there can be.
THEOREM CyclesStayTyped == Spec => []TypeOK
<1>1. Inv => TypeOK
  <2> SUFFICES ASSUME Inv PROVE TypeOK
    OBVIOUS
  <2> USE DEF Inv, Typed
  <2>1. PipelineTypeOK
    BY DEF PipelineTyped, PipelineTypeOK
  <2>2. /\ cycle \in [Cycles -> [status : Statuses \cup {"NONE"}, stage : Stages,
                                bound : Binding, source : Runs \cup {None}]]
        /\ steps \in [Cycles -> SUBSET {"publishing", "measurement", "intelligence"}]
    BY DEF CyclesTyped, CycleRow, Ids, Steps
  <2>3. \A c \in Cycles :
          /\ flow[c].state \in {"none", "committed", "running", "completed", "failed"}
          /\ flow[c].tries \in 0..1 /\ flow[c].by \in Attempts \cup {None}
    BY DEF FlowTyped, FlowRow
  <2>4. \A a \in Attempts :
          /\ attempt[a].at \in {"idle", "decided", "started"}
          /\ attempt[a].cycle \in Cycles \cup {None}
          /\ attempt[a].seen \in Binding
    BY DEF AttemptsTyped, AttemptRow
  <2> QED
    BY <2>1, <2>2, <2>3, <2>4 DEF TypeOK, BoundsTyped
<1> QED
  BY <1>1, AlwaysInv, PTL

\* From the approval of its publication on, whatever was observed and rebound on the way, a
\* cycle is bound to a draft that has come as far as its stage says.
THEOREM StagesStayEarned == Spec => []StagesAreEarned
<1>1. Inv => StagesAreEarned
  <2> SUFFICES ASSUME Inv PROVE StagesAreEarned
    OBVIOUS
  <2>1. \A c \in Cycles : cycle[c].stage \in Earned => State(cycle[c].bound.draft) \in Needed(cycle[c].stage)
    BY DEF Inv, AllEarned, CycleIsEarned
  <2>2. /\ {"PUBLISHING", "MEASURING", "INTELLIGENCE", "AWAITING_EXPERIMENT_DECISION", "COMPLETED"} \subseteq Earned
        /\ Needed("PUBLISHING") = PublicationStates \ {"drafted"}
        /\ Needed("MEASURING") = {"published", "measured"}
        /\ \A stage \in {"INTELLIGENCE", "AWAITING_EXPERIMENT_DECISION", "COMPLETED"} : Needed(stage) = {"measured"}
    BY DEF Earned, Late, Needed
  <2>3. {"published", "measured"} \subseteq PublicationStates \ {"drafted"}
    BY DEF PublicationStates
  <2> QED
    BY <2>1, <2>2, <2>3 DEF StagesAreEarned
<1> QED
  BY <1>1, AlwaysInv, PTL

\* What a cycle records as done was done for it: the publication of its draft was started,
\* and one analysis, no more, is its own.
THEOREM RecordedStepsWereTaken == Spec => []StepsWereTaken
<1>1. Inv => StepsWereTaken
  <2> SUFFICES ASSUME Inv, NEW c \in Cycles
               PROVE  /\ "publishing" \in steps[c] => cycle[c].bound.draft \in launched
                      /\ "intelligence" \in steps[c] => Insight(c) # None
                      /\ Cardinality({i \in Runs : runs[i].by = c}) <= 1
    BY DEF StepsWereTaken
  <2>1. CycleIsEarned(c)
    BY DEF Inv, AllEarned
  <2>2. Asked(c) => Insight(c) # None
    BY NoneIs DEF Asked, Insight
  <2>3. Cardinality({i \in Runs : runs[i].by = c}) <= 1
    <3> DEFINE Own == {i \in Runs : runs[i].by = c}
    <3>1. CASE Own = {}
      BY <3>1, FS_EmptySet
    <3>2. CASE Own # {}
      <4>1. PICK i \in Own : TRUE
        BY <3>2
      <4>2. Own = {i}
        BY <4>1, <2>1 DEF CycleIsEarned, AskedOnce
      <4>3. Cardinality({i}) = 1
        BY FS_Singleton
      <4> HIDE DEF Own
      <4>4. Cardinality(Own) <= 1
        BY <4>2, <4>3
      <4> QED
        BY <4>4 DEF Own
    <3> QED
      BY <3>1, <3>2
  <2> QED
    BY <2>1, <2>2, <2>3 DEF CycleIsEarned
<1> QED
  BY <1>1, AlwaysInv, PTL

\* No step takes a cycle from the stage it ended in, whatever the attempt that moves it read.
THEOREM EndsStayFinal == Spec => EndsAreFinal
<1>1. Inv /\ [Next]_vars => [\A c \in Cycles : cycle[c].stage \in Ends => cycle'[c].stage = cycle[c].stage]_vars
  <2> SUFFICES ASSUME Inv, Next, NEW c \in Cycles, cycle[c].stage \in Ends
               PROVE  cycle'[c].stage = cycle[c].stage
    OBVIOUS
  <2> USE DEF Inv, Typed
  <2>0. cycle \in [Cycles -> CycleRow] /\ cycle[c].stage \in Stages
    BY DEF CyclesTyped, CycleRow
  <2>1. CASE cycle' = cycle
    BY <2>1
  <2>2. ASSUME NEW a \in Attempts, Transition(a) \/ Halt(a) \/ RecordStep(a)
        PROVE  cycle'[c].stage = cycle[c].stage
    <3>1. CASE Raises(a)
      BY <3>1 DEF Raises
    <3>2. CASE Transition(a) /\ ~ Raises(a)
      <4>1. PICK d \in Cycles : d = attempt[a].cycle
        BY <3>2 DEF Transition, AttemptsTyped
      <4>2. Legal(cycle[d].stage, attempt[a].goal) /\ \E row : cycle' = [cycle EXCEPT ![d] = row]
        BY <3>2, <4>1 DEF Transition, CanMove
      <4>3. cycle[d].stage \notin Ends
        BY <2>0, <4>2, LegalIs DEF CycleRow
      <4> QED
        BY <2>0, <4>2, <4>3
    <3>3. CASE Halt(a) /\ ~ Raises(a)
      <4>1. PICK d \in Cycles : d = attempt[a].cycle
        BY <3>3 DEF Halt, AttemptsTyped
      <4>2. \E status : cycle' = [cycle EXCEPT ![d].status = status]
        BY <3>3, <4>1 DEF Halt
      <4> QED
        BY <2>0, <4>2 DEF CycleRow
    <3>4. CASE RecordStep(a) /\ ~ Raises(a)
      <4>1. \/ cycle' = cycle \/ \E d, seen : cycle' = [cycle EXCEPT ![d].bound = seen]
        BY <3>4 DEF RecordStep
      <4> QED
        BY <2>0, <4>1 DEF CycleRow
    <3> QED
      BY <2>2, <3>1, <3>2, <3>3, <3>4
  <2>3. ASSUME NEW d \in Cycles, NEW parent \in Cycles \cup {None}, Start(d, parent)
        PROVE  cycle'[c].stage = cycle[c].stage
    <3>1. d # c
      BY <2>3, StagesAre DEF Start, CyclesTyped
    <3> QED
      BY <2>0, <2>3, <3>1 DEF Start
  <2>4. ASSUME NEW d \in Cycles, Cancel(d)
        PROVE  cycle'[c].stage = cycle[c].stage
    <3>1. d # c
      BY <2>0, <2>4, LegalIs DEF Cancel
    <3> QED
      BY <2>0, <2>4, <3>1 DEF Cancel
  <2>5. \/ cycle' = cycle
        \/ \E a \in Attempts : Transition(a) \/ Halt(a) \/ RecordStep(a)
        \/ \E d \in Cycles : Cancel(d) \/ \E parent \in Cycles \cup {None} : Start(d, parent)
    BY DEF Next, World, Mishap, Act, SkipStep, StartStep, RequestIntelligence, TimesOut, Dies, StartWorkflow,
           LoseWorkflow, Reconcile
  <2> QED
    BY <2>1, <2>2, <2>3, <2>4, <2>5
<1> QED
  BY <1>1, AlwaysInv, PTL DEF Spec, EndsAreFinal

=============================================================================
