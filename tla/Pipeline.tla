------------------------------ MODULE Pipeline ------------------------------
(***************************************************************************)
(* What a product has of agent runs, concepts, plans and creatives, how    *)
(* orchestration observes them (observe_pipeline of                        *)
(* orchestration_repositories.py), the one action it resolves from them    *)
(* (PipelineStateResolver of orchestration/pipeline.py), and what moves    *)
(* them on: operators through PipelineActionExecutor                       *)
(* (orchestration/execution.py), people who review, and workers.           *)
(*                                                                         *)
(* A concept set has one concept, a plan one creative, a creative one      *)
(* draft: each is named by the run it comes from, and the state of that    *)
(* run says how far it got.  The classes of failed runs, which differ in   *)
(* who orders the run that replaces them, are one.                         *)
(***************************************************************************)
EXTENDS Integers, Sequences, FiniteSets, FiniteSetsExt, Functions

CONSTANTS MaxRuns,    \* bound on the runs there ever are
          History,    \* the runs the product has when its first cycle is started
          Requesters  \* the cycles that ask for runs of their own, positive numbers

VARIABLES runs,        \* agent_runtime.agent_runs, in the order they were created
          revalidated  \* creative.concept_revalidations: <<concept, research, result>>

Runs == 1..MaxRuns
None == 0

ASSUME PipelineAssumption == MaxRuns \in Nat \ {0} /\ Requesters \subseteq Nat \ {0}

NoRun == [kind |-> "none", state |-> "none", research |-> None, creative |-> None, by |-> None]

ResearchStates == {"pending", "failed", "current", "expired"}
ConceptStates == {"offered", "approved", "withdrawn"}
CreativeStates == {"pending", "failed"} \cup ConceptStates
PublicationStates == {"drafted", "authorized", "published", "refused", "unknown", "measured"}
FinalStates == {"final"} \cup PublicationStates
ProducerStates == {"pending", "failed", "review", "rejected", "generating", "stopped", "made",
                   "assembling", "broken", "final_review", "final_rejected"} \cup FinalStates
ProposalStates == {"proposed", "accepted", "declined"}
IntelligenceStates == {"pending", "failed", "reported"} \cup ProposalStates

RunRow ==
  [kind : {"none"}, state : {"none"}, research : {None}, creative : {None}, by : {None}]
  \cup [kind : {"research"}, state : ResearchStates, research : {None}, creative : {None}, by : {None}]
  \cup [kind : {"creative"}, state : CreativeStates, research : Runs, creative : {None}, by : {None}]
  \cup [kind : {"producer"}, state : ProducerStates, research : Runs, creative : Runs, by : {None}]
  \cup [kind : {"intelligence"}, state : IntelligenceStates, research : {None}, creative : {None},
        by : Requesters \cup {None}]

\* No cycle has asked for a run before the first is started.
ASSUME HistoryAssumption ==
  \A i \in DOMAIN History : History[i] \in RunRow /\ History[i].by = None

Of(kind) == {i \in Runs : runs[i].kind = kind}
Latest(kind) == IF Of(kind) = {} THEN None ELSE Max(Of(kind))
State(i) == IF i = None THEN "none" ELSE runs[i].state

-----------------------------------------------------------------------------
(* The transition table: for the first of research, concept and plan that  *)
(* is not done, the stage and the action.                                  *)

ResearchRule ==
  [none    |-> <<"RESEARCH", "RUN_RESEARCH">>,
   pending |-> <<"RESEARCH", "WAIT">>,
   failed  |-> <<"RESEARCH_RECOVERY", "RERUN_RESEARCH">>,
   expired |-> <<"CREATIVE_AUTHORITY_REFRESH", "REFRESH_RESEARCH">>]

CreativeRule ==
  [none      |-> <<"CREATIVE", "RUN_CREATIVE">>,
   pending   |-> <<"CREATIVE", "WAIT">>,
   failed    |-> <<"CREATIVE_RECOVERY", "RERUN_CREATIVE">>,
   offered   |-> <<"CREATIVE_APPROVAL", "APPROVE_CREATIVE">>,
   withdrawn |-> <<"CREATIVE_RESTRATEGY", "RESTRATEGIZE_CREATIVE">>,
   stale     |-> <<"CREATIVE_REVALIDATION", "REVALIDATE_CREATIVE">>,
   differs   |-> <<"CREATIVE_RESTRATEGY", "RESTRATEGIZE_CREATIVE">>]

ProducerRule ==
  [none           |-> <<"PRODUCER", "RUN_PRODUCER">>,
   pending        |-> <<"PRODUCER", "WAIT">>,
   failed         |-> <<"PRODUCER_RECOVERY", "RERUN_PRODUCER">>,
   rejected       |-> <<"PRODUCER_RECOVERY", "RERUN_PRODUCER">>,
   outdated       |-> <<"PRODUCER_RECOVERY", "RERUN_PRODUCER">>,
   review         |-> <<"PRODUCTION_PLAN_REVIEW", "REVIEW">>,
   generating     |-> <<"MEDIA_GENERATION", "WAIT">>,
   stopped        |-> <<"MEDIA_RECOVERY", "RETRY_MEDIA">>,
   made           |-> <<"ASSEMBLY", "CREATE_ASSEMBLY_PLAN">>,
   assembling     |-> <<"ASSEMBLY", "WAIT">>,
   broken         |-> <<"ASSEMBLY_RECOVERY", "RECOVER_ASSEMBLY_FAILURE">>,
   final_review   |-> <<"FINAL_CREATIVE_REVIEW", "REVIEW">>,
   final_rejected |-> <<"ASSEMBLY_RECOVERY", "RERENDER_FINAL_CREATIVE">>,
   final          |-> <<"FINAL_CREATIVE_READY", "FINAL_CREATIVE_READY">>]

\* WAIT, HUMAN_GATE and TERMINAL: nothing for an operator to do.
Passive == {"WAIT", "REVIEW", "APPROVE_CREATIVE", "FINAL_CREATIVE_READY"}

-----------------------------------------------------------------------------
(* Observation: bound ids select rows, what is not bound is the latest.    *)

\* What a concept is under research r.
ConceptUnder(c, r) ==
  IF runs[c].state # "approved" \/ runs[c].research = r THEN runs[c].state
  ELSE IF <<c, r, "kept">> \in revalidated THEN "approved"
  ELSE IF <<c, r, "differs">> \in revalidated THEN "differs" ELSE "stale"

\* What a producer's run is under research r: its input binds that research, or it is outdated.
PlanUnder(p, r) ==
  IF p = None \/ State(p) \in {"pending", "failed"} THEN State(p)
  ELSE IF runs[p].research # r THEN "outdated"
  ELSE IF State(p) \in FinalStates THEN "final" ELSE State(p)

Seen(research, creative, producer, rule) ==
  [found |-> TRUE, research |-> research, creative |-> creative, producer |-> producer,
   stage |-> rule[1], action |-> rule[2]]

\* The locator does not name one line of work (observe_pipeline returns None).
Unfound == [found |-> FALSE]

Observe(research, creative, concept, producer) ==
  LET r == IF research # None THEN research ELSE Latest("research")
      c == IF creative # None THEN creative ELSE Latest("creative")
      p == IF producer # None THEN producer ELSE Latest("producer")
      another == p # None /\ runs[p].creative # c
      plan == IF another THEN None ELSE p
  IN
  IF State(r) # "current" THEN Seen(r, None, None, ResearchRule[State(r)])
  ELSE IF c = None \/ State(c) \in {"pending", "failed"}
    THEN Seen(r, c, None, CreativeRule[State(c)])
  ELSE IF concept \notin {None, c} THEN Unfound
  ELSE IF ConceptUnder(c, r) # "approved"
    THEN Seen(r, c, None, CreativeRule[ConceptUnder(c, r)])
  ELSE IF another /\ producer # None THEN Unfound
  ELSE Seen(r, c, plan, ProducerRule[PlanUnder(plan, r)])

Product == Observe(None, None, None, None)

-----------------------------------------------------------------------------
(* What moves the product on.                                              *)

Fresh(i) == runs[i].kind = "none" /\ \A j \in Runs : j < i => runs[j].kind # "none"

Requested(i, kind, research, creative, by) ==
  runs' = [runs EXCEPT ![i] = [kind |-> kind, state |-> "pending", research |-> research,
                               creative |-> creative, by |-> by]]

Become(i, state) == runs' = [runs EXCEPT ![i].state = state]

\* An operator orders the action the product's latest rows resolve to.  (The order is resolved
\* and carried out in two transactions; its key is a digest of the rows it was resolved on, so
\* that of two operators one is answered with the run of the other.)
Order ==
  LET now == Product IN
  /\ now.found
  /\ \/ /\ now.action \in {"RUN_RESEARCH", "RERUN_RESEARCH", "REFRESH_RESEARCH"}
        /\ \E i \in Runs : Fresh(i) /\ Requested(i, "research", None, None, None)
        /\ UNCHANGED revalidated
     \/ /\ now.action \in {"RUN_CREATIVE", "RERUN_CREATIVE", "RESTRATEGIZE_CREATIVE"}
        /\ \E i \in Runs : Fresh(i) /\ Requested(i, "creative", now.research, None, None)
        /\ UNCHANGED revalidated
     \/ /\ now.action \in {"RUN_PRODUCER", "RERUN_PRODUCER"}
        /\ \E i \in Runs :
             Fresh(i) /\ Requested(i, "producer", now.research, now.creative, None)
        /\ UNCHANGED revalidated
     \/ /\ now.action = "REVALIDATE_CREATIVE"
        /\ \E result \in {"kept", "differs"} :
             revalidated' = revalidated \cup {<<now.creative, now.research, result>>}
        /\ UNCHANGED runs
     \/ /\ now.action = "RETRY_MEDIA"
        /\ Become(now.producer, "generating") /\ UNCHANGED revalidated
     \/ /\ now.action \in {"CREATE_ASSEMBLY_PLAN", "RERENDER_FINAL_CREATIVE"}
        /\ Become(now.producer, "assembling") /\ UNCHANGED revalidated

\* A user asks for an analysis beside any cycle.
AskIntelligence(i) ==
  /\ Fresh(i) /\ \E p \in Of("producer") : State(p) = "measured"
  /\ \A j \in Of("intelligence") : State(j) # "pending"
  /\ Requested(i, "intelligence", None, None, None)
  /\ UNCHANGED revalidated

\* Workers and reviewers; a concept may be withdrawn and approved again, the other decisions
\* are final.
Moves ==
  [research |-> {<<"pending", "current">>},
   creative |-> {<<"pending", "offered">>, <<"offered", "approved">>, <<"withdrawn", "approved">>},
   producer |-> {<<"pending", "review">>, <<"review", "generating">>, <<"generating", "made">>,
                 <<"assembling", "final_review">>, <<"final_review", "final">>,
                 <<"final", "drafted">>, <<"drafted", "authorized">>,
                 <<"published", "measured">>},
   intelligence |-> {<<"pending", "reported">>, <<"pending", "proposed">>,
                     <<"proposed", "accepted">>, <<"proposed", "declined">>},
   none |-> {}]

Setbacks ==
  [research |-> {<<"pending", "failed">>, <<"current", "expired">>},
   creative |-> {<<"pending", "failed">>, <<"approved", "withdrawn">>},
   producer |-> {<<"pending", "failed">>, <<"review", "rejected">>, <<"generating", "stopped">>,
                 <<"assembling", "broken">>, <<"final_review", "final_rejected">>},
   intelligence |-> {<<"pending", "failed">>},
   none |-> {}]

Moved(i, moves) ==
  /\ \E move \in moves[runs[i].kind] : State(i) = move[1] /\ Become(i, move[2])
  /\ UNCHANGED revalidated

Progress(i) == Moved(i, Moves)
SetBack(i) == Moved(i, Setbacks)

\* The publication workflow of a draft submits it and reconciles what it does not know.
Publish(p) ==
  /\ \/ State(p) = "authorized"
        /\ \E s \in {"published", "refused", "unknown"} : Become(p, s)
     \/ State(p) = "unknown" /\ \E s \in {"published", "refused"} : Become(p, s)
  /\ UNCHANGED revalidated

PipelineInit ==
  /\ runs = [i \in Runs |-> IF i \in DOMAIN History THEN History[i] ELSE NoRun]
  /\ revalidated = {}

PipelineTypeOK ==
  /\ \A i \in Runs : runs[i] \in RunRow
  /\ revalidated \subseteq Runs \X Runs \X {"kept", "differs"}

=============================================================================
