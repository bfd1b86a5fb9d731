----------------------------- MODULE MCJobWorker -----------------------------
(* Small instances of JobWorker for TLC.                                   *)
EXTENDS JobWorker, TLC

CONSTANTS w1, w2, s1, s2, submit, resume, cancel

MCWorkers == {w1, w2}
MCOneWorker == {w1}
MCOwnIds == [w \in MCWorkers |-> w]
MCOwnId == [w \in MCOneWorker |-> w]
MCSharedId == [w \in MCWorkers |-> "step29-local-worker"]

\* s2 depends on s1.
MCStages == {s1, s2}
MCChain == [s \in MCStages |-> IF s = s2 THEN {s1} ELSE {}]

MCParallel == [s \in MCStages |-> {}]

MCSymmetry == Permutations(MCWorkers)
==============================================================================
