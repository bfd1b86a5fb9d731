---------------------------- MODULE ReleaseGates ----------------------------
(***************************************************************************)
(* The predicates every repository validator shares over the durable record *)
(* of specialist steps and release gates (tools/execution_state.py).        *)
(*                                                                          *)
(*   rec : [current, role, named, last, lastRole, lastNamed, next, commit,   *)
(*          over, begun, status, receipt, gate, blocked]                    *)
(*                                                                          *)
(* A role, a specialist's name and next_step are the step they belong to; 0 *)
(* is None.  commit is last_completed_content_commit; begun and status are  *)
(* functions of the step, receipt[s] what the step's own section says:      *)
(*   [begun, pass, gate, commit, ci, head, assessed, files]                 *)
(***************************************************************************)
EXTENDS Integers, Sequences, FiniteSets

\* _is_commit_sha and its inlined copies: forty hexadecimal digits
Sha(c) == c \notin {"", "short"}
Done(rec, s) == rec.begun[s] /\ rec.status[s] = "COMPLETED"
NotStarted(rec, s) == ~rec.begun[s] /\ rec.status[s] = "NOT_STARTED"
Pass(rec, gates) == \A g \in gates : rec.gate[g] = "PASS"
Pending(rec, gates) == \A g \in gates : rec.gate[g] = "PENDING"
\* the pointer as the exact handoffs spell it out
Pointer(rec, s) ==
    rec.current = s /\ rec.role = s /\ rec.named = s /\ rec.last = s - 1 /\ rec.lastRole = s - 1 /\ rec.lastNamed = s - 1

-----------------------------------------------------------------------------
(* The receipts a later step relies on.                                     *)

Receipt35(rec) ==
    LET r == rec.receipt[35]
    IN r.begun /\ r.pass /\ Sha(r.commit) /\ r.ci /\ r.head = r.commit /\ r.assessed = r.commit
Receipt36(rec) ==
    LET r == rec.receipt[36]
    IN r.begun /\ r.pass /\ r.gate /\ Sha(r.commit) /\ r.ci /\ r.head = r.commit /\ r.assessed = r.commit /\ r.files
Receipt37(rec) ==
    LET r == rec.receipt[37]
    IN r.begun /\ r.pass /\ Sha(r.commit) /\ r.ci /\ r.head = r.commit /\ r.assessed = r.commit
Receipt38(rec) ==
    LET r == rec.receipt[38] IN r.begun /\ r.pass /\ Sha(r.commit) /\ r.assessed = r.commit
\* _receipt_file_contains: the named file exists and quotes the commit and the CI run
FilesQuote(r) == r.files
Receipt41(rec) ==
    LET r == rec.receipt[41]
    IN Sha(r.commit) /\ rec.commit = r.commit /\ r.pass /\ r.ci /\ FilesQuote(r)
Evidence31(rec) ==
    /\ Done(rec, 31) /\ Done(rec, 30) /\ rec.receipt[31].begun /\ rec.receipt[31].pass
    /\ Pass(rec, 6 .. 8) /\ ~rec.blocked
\* _step33_completion_evidence, for as long as the pointer is at most at step 38
Evidence33(rec) ==
    LET r == rec.receipt[33]
    IN /\ Evidence31(rec)
       /\ rec.current \in 34 .. 38 /\ rec.last = rec.current - 1 /\ rec.lastRole = rec.current - 1
       /\ rec.current = 34 => rec.lastNamed = 33 /\ rec.commit = r.commit /\ NotStarted(rec, 34)
       /\ rec.current = 35 => Done(rec, 34)
       /\ rec.current = 36 => Done(rec, 35)
       /\ rec.current = 37 => Receipt36(rec) /\ Done(rec, 36)
       /\ rec.current = 38 => Receipt37(rec) /\ Done(rec, 36)
       /\ Sha(r.commit) /\ Done(rec, 33) /\ r.begun /\ r.pass /\ r.gate
       /\ Pass(rec, {9, 10})
       /\ IF rec.current \in {37, 38} THEN Pass(rec, {11}) ELSE Pending(rec, {11})
       /\ Pending(rec, 12 .. 15) /\ ~rec.blocked
\* Mutant: the handoff to step 37 is not recognised
Evidence34Forgotten(rec) ==
    LET r == rec.receipt[34]
    IN /\ Evidence33(rec) /\ Done(rec, 34) /\ r.begun /\ r.pass /\ Pass(rec, 6 .. 10) /\ Pending(rec, 12 .. 15) /\ ~rec.blocked
       /\ \/ /\ Pointer(rec, 35) /\ rec.commit = r.commit /\ Sha(r.commit) /\ NotStarted(rec, 35)
             /\ Pending(rec, {11})
          \/ /\ Pointer(rec, 36) /\ Receipt35(rec) /\ Sha(r.commit) /\ rec.commit = rec.receipt[35].commit
             /\ Pending(rec, {11})
          \/ /\ Pointer(rec, 38) /\ Receipt36(rec) /\ Receipt37(rec)
             /\ Pass(rec, {11})
\* _step34_completion_evidence: one disjunct per later pointer
Evidence34(rec) ==
    LET r == rec.receipt[34]
    IN /\ Evidence33(rec) /\ Done(rec, 34) /\ r.begun /\ r.pass /\ Pass(rec, 6 .. 10) /\ Pending(rec, 12 .. 15) /\ ~rec.blocked
       /\ \/ /\ Pointer(rec, 35) /\ rec.commit = r.commit /\ Sha(r.commit) /\ NotStarted(rec, 35)
             /\ Pending(rec, {11})
          \/ /\ Pointer(rec, 36) /\ Receipt35(rec) /\ Sha(r.commit) /\ rec.commit = rec.receipt[35].commit
             /\ Pending(rec, {11})
          \/ /\ Pointer(rec, 37) /\ Receipt36(rec) /\ NotStarted(rec, 37)
             /\ Pass(rec, {11})
          \/ /\ Pointer(rec, 38) /\ Receipt36(rec) /\ Receipt37(rec)
             /\ Pass(rec, {11})
Evidence35(rec) ==
    /\ Evidence34(rec) /\ Receipt35(rec)
    /\ rec.current \in 36 .. 38 /\ rec.role = rec.current /\ rec.named = rec.current
    /\ rec.last = rec.current - 1 /\ rec.lastRole = rec.current - 1
    /\ rec.current = 36 => rec.lastNamed = 35 /\ rec.commit = rec.receipt[35].commit /\ NotStarted(rec, 36)
    /\ rec.current = 37 => Receipt36(rec) /\ Done(rec, 36)
    /\ rec.current = 38 => Receipt37(rec) /\ Done(rec, 36)
    /\ Done(rec, 35) /\ Pass(rec, 6 .. 10)
    /\ IF rec.current = 36 THEN Pending(rec, {11}) ELSE Pass(rec, {11})
    /\ Pending(rec, 12 .. 15) /\ ~rec.blocked
Evidence36(rec) ==
    /\ Evidence35(rec) /\ Receipt36(rec)
    /\ \/ Pointer(rec, 37) /\ rec.commit = rec.receipt[36].commit /\ NotStarted(rec, 37)
       \/ Pointer(rec, 38) /\ Receipt37(rec) /\ Done(rec, 37)
    /\ Done(rec, 36) /\ Pass(rec, {11}) /\ Pending(rec, 12 .. 15) /\ ~rec.blocked

-----------------------------------------------------------------------------
(* The closure of each step, as it looks right after it and later.          *)

Closed29(rec) ==
    LET r == rec.receipt[29] IN r.begun /\ r.pass /\ r.gate /\ Done(rec, 29) /\ Pass(rec, {7})
\* step41_g15_closed: only the exact end of the sequence
Closed41(rec) ==
    /\ rec.over /\ rec.current = 0 /\ rec.role = 0 /\ rec.named = 0 /\ rec.next = 0
    /\ rec.last = 41 /\ rec.lastRole = 41 /\ rec.lastNamed = 41
    /\ \A s \in 30 .. 41 : Done(rec, s)
    /\ Closed29(rec) /\ Pass(rec, 0 .. 15) /\ ~rec.blocked /\ Receipt41(rec)
\* _step40_g14_handoff_closed
HandedOver40(rec, at) ==
    /\ at[41] /\ Pointer(rec, 41) /\ Sha(rec.commit)
    /\ \A s \in 30 .. 40 : Done(rec, s)
    /\ NotStarted(rec, 41) /\ Pass(rec, 6 .. 14) /\ Pending(rec, {15}) /\ ~rec.blocked
Closed40(rec, at) == HandedOver40(rec, at) \/ Closed41(rec)
Closed39(rec, at) ==
    LET r == rec.receipt[39]
    IN \/ /\ at[40] /\ Pointer(rec, 40) /\ rec.commit = r.commit /\ Sha(r.commit)
          /\ \A s \in 30 .. 39 : Done(rec, s)
          /\ NotStarted(rec, 40) /\ r.begun /\ r.pass /\ r.gate /\ r.assessed = r.commit
          /\ Pass(rec, 6 .. 13) /\ Pending(rec, {14, 15}) /\ ~rec.blocked
       \/ Closed40(rec, at)
Closed38(rec, at) ==
    LET r == rec.receipt[38]
    IN \/ /\ at[39] /\ Pointer(rec, 39) /\ rec.commit = r.commit /\ Sha(r.commit)
          /\ \A s \in 30 .. 38 : Done(rec, s)
          /\ NotStarted(rec, 39) /\ r.begun /\ r.pass /\ r.assessed = r.commit
          /\ Pass(rec, 6 .. 12) /\ Pending(rec, 13 .. 15) /\ ~rec.blocked
       \/ Closed39(rec, at) \/ Closed40(rec, at)
\* _step38_incomplete_handoff: step 38 runs and its gate is still open
Incomplete38(rec, at) ==
    /\ at[38] /\ Pointer(rec, 38) /\ rec.commit = rec.receipt[37].commit
    /\ \A s \in 30 .. 37 : Done(rec, s)
    /\ rec.begun[38] /\ rec.status[38] = "INCOMPLETE" /\ NotStarted(rec, 39)
    /\ Pass(rec, 6 .. 11) /\ Pending(rec, 12 .. 15) /\ ~rec.blocked /\ Receipt37(rec)
Closed37(rec, at) ==
    \/ /\ at[38] /\ Evidence36(rec) /\ Receipt37(rec) /\ Pointer(rec, 38)
       /\ rec.commit = rec.receipt[37].commit /\ Done(rec, 36) /\ Done(rec, 37) /\ NotStarted(rec, 38)
       /\ Pass(rec, 6 .. 11) /\ Pending(rec, 12 .. 15) /\ ~rec.blocked
    \/ Incomplete38(rec, at) \/ Closed38(rec, at) \/ Closed40(rec, at)
Closed36(rec, at) == (at[37] /\ Evidence36(rec)) \/ Incomplete38(rec, at) \/ Closed38(rec, at) \/ Closed40(rec, at)
Closed35(rec, at) == (at[36] /\ Evidence35(rec)) \/ Incomplete38(rec, at) \/ Closed38(rec, at) \/ Closed40(rec, at)
Closed34(rec, at) ==
    \/ at[35] /\ Evidence34(rec)
    \/ at[36] /\ Evidence34(rec)
    \/ Incomplete38(rec, at) \/ Closed38(rec, at) \/ Closed40(rec, at)
Closed33(rec, at) ==
    \/ at[34] /\ Evidence33(rec)
    \/ at[35] /\ Evidence34(rec)
    \/ at[36] /\ Evidence35(rec)
    \/ Incomplete38(rec, at) \/ Closed38(rec, at) \/ Closed39(rec, at) \/ Closed40(rec, at)
\* step32_compatibility_closed: the exact handoff, or one of the later ones
Closed32Exactly(rec, at) ==
    LET r == rec.receipt[32]
    IN /\ at[33] /\ Evidence31(rec) /\ rec.last = 32 /\ rec.lastRole = 32 /\ rec.lastNamed = 32
       /\ rec.commit = r.commit /\ Sha(r.commit) /\ Done(rec, 32) /\ NotStarted(rec, 33)
       /\ r.begun /\ r.gate /\ Pass(rec, {9}) /\ Pending(rec, {10})
       /\ Pending(rec, {11}) \/ (Pass(rec, {11}) /\ Receipt36(rec))
       /\ Pending(rec, {12}) \/ (Pass(rec, {12}) /\ Receipt38(rec))
       /\ Pending(rec, 13 .. 15) /\ ~rec.blocked
Closed32(rec, at) ==
    \/ Closed32Exactly(rec, at)
    \/ at[34] /\ Evidence33(rec)
    \/ at[35] /\ Evidence34(rec)
    \/ at[36] /\ Evidence35(rec)
    \/ at[37] /\ Closed36(rec, at)
    \/ Incomplete38(rec, at) \/ Closed38(rec, at) \/ Closed39(rec, at) \/ Closed40(rec, at)
Closed31(rec, at) ==
    \/ /\ at[32] /\ rec.last = 31 /\ rec.lastRole = 31 /\ rec.lastNamed = 31
       /\ rec.commit = rec.receipt[31].commit /\ Done(rec, 31) /\ Done(rec, 30) /\ NotStarted(rec, 32)
       /\ rec.receipt[31].begun /\ rec.receipt[31].pass /\ Pass(rec, 6 .. 8) /\ ~rec.blocked
    \/ Closed32(rec, at)
Closed30(rec, at) ==
    \/ /\ at[31] /\ rec.last = 30 /\ rec.lastRole = 30 /\ rec.lastNamed = 30
       /\ Done(rec, 30) /\ NotStarted(rec, 31) /\ Pass(rec, {8}) /\ ~rec.blocked
    \/ Closed31(rec, at)
Accepted30(rec, at) ==
    /\ at[31] /\ rec.last = 30 /\ rec.lastRole = 30 /\ rec.lastNamed = 30 /\ rec.role = 31
    /\ Done(rec, 30) /\ Pass(rec, {8})
\* step31_external_ci_blocked: only the last CI run is missing
Blocked31(rec, at) ==
    LET r == rec.receipt[31]
    IN /\ Accepted30(rec, at) /\ Pointer(rec, 31) /\ rec.commit = r.commit /\ Sha(r.commit) /\ rec.next = 31
       /\ rec.begun[31] /\ rec.status[31] = "BLOCKED" /\ NotStarted(rec, 32)
       /\ r.begun /\ r.pass /\ r.ci /\ r.head = "BLOCKED_EXTERNAL"
       /\ Pass(rec, 6 .. 8) /\ Pending(rec, {9}) /\ rec.blocked

\* is_authorized_specialist_handoff: a sequential pointer inside the caller's
\* range, or past its ceiling when the step before is closed
BeyondCeiling(rec, at, most) ==
    \/ rec.current = 32 /\ most = 31 /\ Closed31(rec, at)
    \/ rec.current = 33 /\ most \in {31, 32} /\ Closed32(rec, at)
    \/ rec.current = 34 /\ most <= 33 /\ Evidence33(rec)
    \/ rec.current = 35 /\ most <= 34 /\ Closed34(rec, at)
    \/ rec.current = 36 /\ most <= 35 /\ Closed35(rec, at)
    \/ rec.current = 37 /\ most <= 36 /\ Closed36(rec, at)
    \/ rec.current = 38 /\ most <= 37 /\ Closed37(rec, at)
    \/ rec.current = 39 /\ most <= 38 /\ Closed38(rec, at)
    \/ rec.current = 40 /\ most <= 39 /\ Closed39(rec, at)
    \/ rec.current = 41 /\ most <= 40 /\ Closed40(rec, at)
Authorized(rec, at, least, most) ==
    \/ Closed41(rec)
    \/ /\ rec.current # 0
       /\ rec.current \in least .. most \/ BeyondCeiling(rec, at, most)
       /\ rec.last = rec.current - 1
       /\ rec.role = rec.current /\ rec.lastRole = rec.last /\ rec.next = rec.current
\* For the exact range of each step; a step past the range refers to later ones.
At(rec) ==
    LET at[s \in 31 .. 41] == Authorized(rec, at, s, s) IN at

-----------------------------------------------------------------------------
\* prior_gate_state_is_coherent: a gate is open, or closed with its evidence
GateEarned(rec, at, g) ==
    CASE g = 7 -> Closed29(rec)
      [] g = 8 -> Closed30(rec, at) \/ Blocked31(rec, at)
      [] g = 9 -> Closed32(rec, at)
      [] g = 10 -> Closed33(rec, at)
      [] g = 11 -> Pass(rec, {11}) /\ Receipt36(rec)
      [] g = 12 -> Pass(rec, {12}) /\ Receipt38(rec)
      [] g = 13 -> Closed39(rec, at)
      [] g = 14 -> Closed40(rec, at)
      [] g = 15 -> Closed41(rec)
Coherent(rec, at) ==
    /\ rec.gate[3] \in {"PENDING", "PASS", "BLOCKED"} /\ rec.gate[4] \in {"PENDING", "PASS"}
    /\ rec.gate[5] \in {"PENDING", "REVIEW_ONLY_VALIDATED", "PASS"} /\ rec.gate[6] \in {"PENDING", "PASS"}
    /\ \A g \in 7 .. 15 : rec.gate[g] = "PENDING" \/ GateEarned(rec, at, g)

-----------------------------------------------------------------------------
(* What the record is judged by.                                            *)

Closed(rec, at, s) ==
    CASE s = 30 -> Closed30(rec, at) [] s = 31 -> Closed31(rec, at) [] s = 32 -> Closed32(rec, at) [] s = 33 -> Closed33(rec, at)
      [] s = 34 -> Closed34(rec, at) [] s = 35 -> Closed35(rec, at) [] s = 36 -> Closed36(rec, at) [] s = 37 -> Closed37(rec, at)
      [] s = 38 -> Closed38(rec, at) [] s = 39 -> Closed39(rec, at) [] s = 40 -> Closed40(rec, at) [] s = 41 -> Closed41(rec)
Recognised(rec, at) == {s \in 30 .. 41 : Closed(rec, at, s)}
\* the step whose acceptance closes gate 7, 8, ...
ClosedBy == <<29, 30, 32, 33, 36, 38, 39, 40, 41>>
GatesBy(done) == (0 .. 6) \cup {g \in 7 .. 15 : ClosedBy[g - 6] <= done}

\* The record right after step done: later validators of any range accept it,
\* and exactly the steps up to done are recognised.
AcceptedTrue(rec, at, done) ==
    /\ Coherent(rec, at) /\ Recognised(rec, at) = 30 .. done
    /\ \A most \in done + 1 .. 41 : Authorized(rec, at, 6, most)
HandoverTrue(rec, done) == AcceptedTrue(rec, At(rec), done)
\* A record edited by hand never closes a step that was not accepted, passes a
\* gate ahead of its step, or jumps the pointer.
JudgedTrue(done, kind, x, coherent, recognised) ==
    /\ recognised \subseteq 30 .. done
    /\ kind = "gate" /\ x \notin GatesBy(done) => ~coherent
    /\ kind = "pointer" /\ done >= 30 /\ x # done + 1 => ~coherent
    /\ kind = "undone" /\ x \in 30 .. done /\ (x = 32 => done \notin 33 .. 37) => ~coherent
    /\ kind = "undone" /\ x \in 30 .. 31 /\ x <= done => recognised = {}
    /\ kind = "blocked" /\ done >= 30 => ~coherent
EditJudged(rec, done, kind, x) == JudgedTrue(done, kind, x, Coherent(rec, At(rec)), Recognised(rec, At(rec)))
=============================================================================
