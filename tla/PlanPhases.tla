----------------------------- MODULE PlanPhases -----------------------------
(***************************************************************************)
(* The execution plan of a run: which conditional stages it has decided,   *)
(* on what evidence, and how far the planning has come (application/       *)
(* execution_plan.py, application/planning_authority.py).  The operators   *)
(* compute plans; ApiCommands stores them.                                 *)
(***************************************************************************)
EXTENDS Naturals

CONSTANT NoPlan

Phase == {"BOOTSTRAP", "SOURCE_RESOLVED", "COMPLETE"}
PhaseRank == [p \in Phase |-> CASE p = "BOOTSTRAP" -> 0
                                [] p = "SOURCE_RESOLVED" -> 1
                                [] p = "COMPLETE" -> 2]

\* A conditional stage is pending until its phase decides it.
Decision == {"pending", "selected", "excluded"}

\* ExecutionPlanIntent, cut down to its one bit with a consequence here.
Intent == {"er", "no_er"}

Plan == [phase    : Phase,
         intent   : Intent,
         rev      : Nat,
         matching : Decision,    \* SCHEMA_MATCHING
         er       : Decision]    \* ENTITY_RESOLUTION

\* The trusted planning inputs of a run: how many sources were discovered,
\* whether a family is ER_REQUIRED, whether the artifacts verify, and which of
\* the owning stages have SUCCEEDED.
Truth == [sources    : 1 .. 2,
          erRequired : BOOLEAN,
          readable   : BOOLEAN,
          done       : SUBSET {"SOURCE_DISCOVERY", "CANONICAL_HYPOTHESES"}]

\* TrustedExecutionPlanningState.resolve: an input that is missing, does not
\* verify or is not owned by a succeeded stage leaves the context unresolved.
Resolves(truth, requireHypothesis) ==
    /\ truth.readable
    /\ "SOURCE_DISCOVERY" \in truth.done
    /\ requireHypothesis => "CANONICAL_HYPOTHESES" \in truth.done

Chosen(yes) == IF yes THEN "selected" ELSE "excluded"

\* _decision_for.
MatchingDecision(truth) == Chosen(truth.sources > 1)
ErDecision(truth, intent) == Chosen(truth.erRequired \/ intent = "er")

Bootstrap(intent) ==
    [phase |-> "BOOTSTRAP", intent |-> intent, rev |-> 0,
     matching |-> "pending", er |-> "pending"]

SourceResolved(truth, intent, rev) ==
    [phase |-> "SOURCE_RESOLVED", intent |-> intent, rev |-> rev,
     matching |-> MatchingDecision(truth), er |-> "pending"]

Complete(truth, intent, rev) ==
    [phase |-> "COMPLETE", intent |-> intent, rev |-> rev,
     matching |-> MatchingDecision(truth), er |-> ErDecision(truth, intent)]

\* The plan ExecutionPlanService.prepare builds for a run that has none.
PreparedPlan(truth, intent) ==
    IF Resolves(truth, TRUE) THEN Complete(truth, intent, 0)
    ELSE IF Resolves(truth, FALSE) THEN SourceResolved(truth, intent, 0)
    ELSE Bootstrap(intent)

NextRevision(plan) == [plan EXCEPT !.rev = @ + 1]

\* Mutant of AdvancedPlan: the phase the plan is in is not looked at.
AdvancedPlanAnyPhase(plan, truth, stage) ==
    IF stage = "SOURCE_DISCOVERY"
    THEN IF Resolves(truth, FALSE)
         THEN SourceResolved(truth, plan.intent, plan.rev + 1)
         ELSE NextRevision(plan)
    ELSE IF Resolves(truth, TRUE)
         THEN Complete(truth, plan.intent, plan.rev + 1)
         ELSE NextRevision(plan)

\* advance_after_stage: a plan moves only at the stage that owns the truth its
\* phase waits for; an unresolved truth still writes a new revision.
AdvancedPlan(plan, truth, stage) ==
    CASE plan.phase = "BOOTSTRAP" /\ stage = "SOURCE_DISCOVERY" ->
           IF Resolves(truth, FALSE)
           THEN SourceResolved(truth, plan.intent, plan.rev + 1)
           ELSE NextRevision(plan)
      [] plan.phase = "SOURCE_RESOLVED" /\ stage = "CANONICAL_HYPOTHESES" ->
           IF Resolves(truth, TRUE)
           THEN Complete(truth, plan.intent, plan.rev + 1)
           ELSE NextRevision(plan)
      [] OTHER -> plan

\* _advance_after_stage: the run stops on a plan that cannot go on.
BlocksAfter(plan, stage) ==
    \/ plan.phase = "BOOTSTRAP"
    \/ plan.phase = "SOURCE_RESOLVED" /\ stage = "CANONICAL_HYPOTHESES"

\* The conditional stages a worker may schedule from a plan.
Selected(plan) ==
    {s \in {"SCHEMA_MATCHING", "ENTITY_RESOLUTION"} :
        (IF s = "SCHEMA_MATCHING" THEN plan.matching ELSE plan.er) = "selected"}
=============================================================================
