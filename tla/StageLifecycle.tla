--------------------------- MODULE StageLifecycle ---------------------------
(***************************************************************************)
(* What the job processing promises to somebody who looks at a run from    *)
(* outside, with no worker, lease, attempt or command in sight: stages     *)
(* open in the order of the plan, may be held and released while they are  *)
(* open, finish once, and never come back after that; the run succeeds     *)
(* when everything required is done, and a cancelled run stays cancelled.  *)
(* JobWorker implements this specification (JobWorker!ImplementsLifecycle).*)
(***************************************************************************)
EXTENDS FiniteSets

CONSTANTS Stages, Deps, Required

VARIABLES
    stage,      \* what an observer of the run sees of each stage
    outcome     \* what an observer sees of the run

lifecycleVars == <<stage, outcome>>

StageView == {"pending", "open", "held", "done", "cancelled"}
Outcome == {"unfinished", "succeeded", "cancelled"}

Init ==
    /\ stage = [s \in Stages |-> "pending"]
    /\ outcome = "unfinished"

Move(s, from, to) ==
    /\ stage[s] \in from
    /\ stage' = [stage EXCEPT ![s] = to]
    /\ UNCHANGED outcome

Open(s) ==
    /\ \A d \in Deps[s] : stage[d] = "done"
    /\ Move(s, {"pending"}, "open")

Hold(s) == Move(s, {"open"}, "held")
Release(s) == Move(s, {"held"}, "open")
Finish(s) == Move(s, {"open"}, "done")

\* Any number of stages that have been opened and are not done.
Abandon(gone) ==
    /\ \A s \in gone : stage[s] \in {"open", "held"}
    /\ stage' = [s \in Stages |-> IF s \in gone THEN "cancelled" ELSE stage[s]]
    /\ outcome' \in {outcome, "cancelled"}

Succeed ==
    /\ outcome = "unfinished"
    /\ \A s \in Required : stage[s] = "done"
    /\ outcome' = "succeeded"
    /\ UNCHANGED stage

Next ==
    \/ \E s \in Stages : Open(s) \/ Hold(s) \/ Release(s) \/ Finish(s)
    \/ \E gone \in SUBSET Stages : Abandon(gone)
    \/ Succeed

Spec == Init /\ [][Next]_lifecycleVars
=============================================================================
