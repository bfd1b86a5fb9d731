------------------------------ MODULE LocalPump ------------------------------
(***************************************************************************)
(* The one thing that drives JobWorker in the local product:               *)
(* LocalProductExecutionSubmission (application/product_runtime.py), which *)
(* starts a pump thread when a command is accepted, and                    *)
(* BoundedWorkerPool.pump (application/jobs.py), which that thread runs.   *)
(*                                                                         *)
(* A command stands for its run: its row is `due' while some job of the    *)
(* run can be claimed and `later' while the only ones left wait for a      *)
(* retry time or for a lease to expire.  Every `with self._lock' block is  *)
(* one step; the pump reads the shutdown event and the rows without it.    *)
(***************************************************************************)
EXTENDS Integers, FiniteSets, FiniteSetsExt

CONSTANTS
    Commands,      \* commands that callers submit, each of a run of its own
    PumpThreads,       \* threads a wake-up may start
    NoThread,      \* self._thread is None
    Pool,          \* the workers of the pool
    Outcomes,      \* what a claimed job leaves of its run
    MaxJobs,       \* max_jobs_per_pump
    MaxRestarts    \* bound: restarts of the process

ASSUME PumpAssumption ==
    /\ NoThread \notin PumpThreads
    /\ IsFiniteSet(Pool)
    /\ Pool # {}
    /\ Outcomes \subseteq {"done", "due", "later", "raised"}
    /\ MaxJobs \in Nat \ {0}
    /\ MaxRestarts \in Nat
    /\ Commands \cap {"off", "ready", "idle", "did", "raised"} = {}

VARIABLES
    closed,      \* self._closed
    shutdown,    \* the pool's _shutdown_requested
    handle,      \* self._thread
    row,         \* the durable work of each command's run
    caller,      \* where the submitting call of each command stands
    pump,        \* the pump threads
    late,        \* history: claims made since the shutdown request
    restarts     \* history

pumpVars == <<closed, shutdown, handle, row, caller, pump, late, restarts>>

\* slot[p]: what worker p does in the current batch; a command is the job it
\* has claimed.
Slot == Commands \cup {"off", "ready", "idle", "did", "raised"}

PumpState == [pc       : {"dead", "check", "batch", "leave"},
              outcomes : 0 .. MaxJobs,
              slot     : [Pool -> Slot]]

NoBatch == [p \in Pool |-> "off"]
DeadPump == [pc |-> "dead", outcomes |-> 0, slot |-> NoBatch]
StartedPump == [pc |-> "check", outcomes |-> 0, slot |-> NoBatch]

PumpTypeOK ==
    /\ closed \in BOOLEAN
    /\ shutdown \in BOOLEAN
    /\ handle \in PumpThreads \cup {NoThread}
    /\ row \in [Commands -> {"none", "due", "claimed", "later", "done"}]
    /\ caller \in [Commands -> {"start", "wake", "returned"}]
    /\ pump \in [PumpThreads -> PumpState]
    /\ late \in Nat
    /\ restarts \in 0 .. MaxRestarts

PumpInit ==
    /\ closed = FALSE
    /\ shutdown = FALSE
    /\ handle = NoThread
    /\ row = [c \in Commands |-> "none"]
    /\ caller = [c \in Commands |-> "start"]
    /\ pump = [t \in PumpThreads |-> DeadPump]
    /\ late = 0
    /\ restarts = 0

IsAlive(t) == pump[t].pc # "dead"

\* The state thread t goes on with.
SetPump(t, state) == pump' = [pump EXCEPT ![t] = state]

-----------------------------------------------------------------------------
(* submit_command, _wake, close.                                           *)

\* UNAVAILABLE once closed; otherwise the command is durable before the lock
\* is released and the wake-up is a critical section of its own.
SubmitCommand(c) ==
    /\ caller[c] = "start"
    /\ caller' = [caller EXCEPT ![c] = IF closed THEN "returned" ELSE "wake"]
    /\ row' = [row EXCEPT ![c] = IF closed THEN @ ELSE "due"]
    /\ UNCHANGED <<closed, shutdown, handle, pump, late, restarts>>

\* Mutant of NeedsThread: a thread that is still pumping does not count.
NeedsThreadAlways == ~closed

NeedsThread ==
    /\ ~closed
    /\ ~(handle # NoThread /\ IsAlive(handle))

Wake(c) ==
    /\ caller[c] = "wake"
    /\ caller' = [caller EXCEPT ![c] = "returned"]
    /\ IF NeedsThread
       THEN \E t \in PumpThreads :
               /\ ~IsAlive(t)
               /\ handle' = t
               /\ SetPump(t, StartedPump)
       ELSE UNCHANGED <<handle, pump>>
    /\ UNCHANGED <<closed, shutdown, row, late, restarts>>

\* The join that follows has a timeout and changes nothing.
Close ==
    /\ ~closed
    /\ closed' = TRUE
    /\ shutdown' = TRUE
    /\ UNCHANGED <<handle, row, caller, pump, late, restarts>>

-----------------------------------------------------------------------------
(* BoundedWorkerPool.pump, run by thread t.                                *)

\* Mutant of BatchSize: the batch is not cut to what the pump has left.
BatchSizeUncut(t) == Cardinality(Pool)

BatchSize(t) ==
    Min({Cardinality(Pool), MaxJobs - pump[t].outcomes})

\* Mutant of Admits: the shutdown request is not looked at.
AdmitsAfterShutdown(t) == pump[t].outcomes < MaxJobs

Admits(t) == pump[t].outcomes < MaxJobs /\ ~shutdown

Leaving(state) == [state EXCEPT !.pc = "leave", !.slot = NoBatch]

Batched(state, batch) ==
    [state EXCEPT !.pc = "batch",
                  !.slot = [p \in Pool |-> IF p \in batch THEN "ready" ELSE "off"]]

\* The code takes the first workers of its tuple; they differ in nothing the
\* pump looks at, so the model lets the batch be any of that size.
PumpLoop(t) ==
    /\ pump[t].pc = "check"
    /\ IF Admits(t)
       THEN \E batch \in kSubset(BatchSize(t), Pool) :
               SetPump(t, Batched(pump[t], batch))
       ELSE SetPump(t, Leaving(pump[t]))
    /\ UNCHANGED <<closed, shutdown, handle, row, caller, late, restarts>>

WithSlot(state, p, what) == [state EXCEPT !.slot = [@ EXCEPT ![p] = what]]

\* run_once of worker p: the claim, or nothing to claim.
ClaimJob(t, p) ==
    /\ pump[t].pc = "batch"
    /\ pump[t].slot[p] = "ready"
    /\ \/ \E c \in Commands :
             /\ row[c] = "due"
             /\ row' = [row EXCEPT ![c] = "claimed"]
             /\ SetPump(t, WithSlot(pump[t], p, c))
             /\ late' = IF shutdown THEN late + 1 ELSE late
       \/ /\ \A c \in Commands : row[c] # "due"
          /\ SetPump(t, WithSlot(pump[t], p, "idle"))
          /\ UNCHANGED <<row, late>>
    /\ UNCHANGED <<closed, shutdown, handle, caller, restarts>>

\* The rest of run_once; a worker that raises leaves its lease behind.
EndJob(t, p) ==
    /\ pump[t].pc = "batch"
    /\ pump[t].slot[p] \in Commands
    /\ \E o \in Outcomes :
          /\ row' = [row EXCEPT ![pump[t].slot[p]] =
                        IF o = "raised" THEN "later" ELSE o]
          /\ SetPump(t, WithSlot(pump[t], p,
                                 IF o = "raised" THEN "raised" ELSE "did"))
    /\ UNCHANGED <<closed, shutdown, handle, caller, late, restarts>>

Batch(state) == {p \in Pool : state.slot[p] # "off"}

\* Mutant of NextRound: what a batch has done is not counted.
NextRoundUncounted(state) == [state EXCEPT !.pc = "check", !.slot = NoBatch]

NextRound(state) ==
    [state EXCEPT !.pc = "check", !.slot = NoBatch,
                  !.outcomes = @ + Cardinality(Batch(state))]

\* All of the batch has returned: an exception leaves pump(), and so does a
\* batch in which everyone was idle.
EndBatch(t) ==
    LET slot == pump[t].slot IN
    /\ pump[t].pc = "batch"
    /\ \A p \in Pool : slot[p] \in {"off", "idle", "did", "raised"}
    /\ IF \/ \E p \in Pool : slot[p] = "raised"
          \/ \A p \in Batch(pump[t]) : slot[p] = "idle"
       THEN SetPump(t, Leaving(pump[t]))
       ELSE SetPump(t, NextRound(pump[t]))
    /\ UNCHANGED <<closed, shutdown, handle, row, caller, late, restarts>>

\* The finally of _pump.
Leave(t) ==
    /\ pump[t].pc = "leave"
    /\ handle' = NoThread
    /\ SetPump(t, DeadPump)
    /\ UNCHANGED <<closed, shutdown, row, caller, late, restarts>>

-----------------------------------------------------------------------------
(* Time and the process.                                                   *)

\* available_at or lease_expires_at passes.
BecomesDue(c) ==
    /\ row[c] = "later"
    /\ row' = [row EXCEPT ![c] = "due"]
    /\ UNCHANGED <<closed, shutdown, handle, caller, pump, late, restarts>>

\* The process dies, closed or not, and a new runtime is built over the same
\* control store.  Nothing in the constructor pumps.
Restart ==
    /\ restarts < MaxRestarts
    /\ restarts' = restarts + 1
    /\ closed' = FALSE
    /\ shutdown' = FALSE
    /\ handle' = NoThread
    /\ pump' = [t \in PumpThreads |-> DeadPump]
    /\ caller' = [c \in Commands |->
                    IF caller[c] = "wake" THEN "returned" ELSE caller[c]]
    /\ row' = [c \in Commands |->
                    IF row[c] = "claimed" THEN "later" ELSE row[c]]
    /\ late' = 0

PumpStep(t) ==
    \/ PumpLoop(t)
    \/ \E p \in Pool : ClaimJob(t, p)
    \/ \E p \in Pool : EndJob(t, p)
    \/ EndBatch(t)
    \/ Leave(t)

PumpNext ==
    \/ \E c \in Commands : SubmitCommand(c)
    \/ \E c \in Commands : Wake(c)
    \/ Close
    \/ \E t \in PumpThreads : PumpStep(t)
    \/ \E c \in Commands : BecomesDue(c)
    \/ Restart

PumpSpec == PumpInit /\ [][PumpNext]_pumpVars

\* A thread that runs goes on running and its handlers return; calls go on to
\* their wake-up and time passes.  Nothing makes a pump start by itself.
PumpsRun == \A t \in PumpThreads : WF_pumpVars(PumpStep(t))

PumpFairness ==
    /\ PumpsRun
    /\ \A c \in Commands : WF_pumpVars(Wake(c))
    /\ \A c \in Commands : WF_pumpVars(BecomesDue(c))

PumpFairSpec == PumpSpec /\ PumpFairness

-----------------------------------------------------------------------------
(* Properties.                                                             *)

\* Two pumps never run at a time in one process, although the handle is given
\* up and taken again in separate critical sections of _pump and _wake: the
\* pool's workers are shared objects with one worker_id each.
OnePump ==
    \A t, u \in PumpThreads : IsAlive(t) /\ IsAlive(u) => t = u

\* request_shutdown lets the current batch finish: after it, no more jobs are
\* claimed than the pool has workers.
ShutdownAdmitsOneBatch == late <= Cardinality(Pool)

\* However many jobs each finished job leaves due, every pump ends: when the
\* callers have no more commands to submit, no pump thread is left.  pump()
\* counts what its batches did against max_jobs_per_pump, and nothing but a
\* submitted command starts another one.
PumpsComeToRest == <>[](\A t \in PumpThreads : ~IsAlive(t))

\* The docstring of LocalProductExecutionSubmission promises a durable
\* submission plus a worker wake-up: what is accepted is claimed, or the
\* runtime is closed.
AcceptedWorkIsClaimed ==
    \A c \in Commands : row[c] = "due" ~> row[c] # "due" \/ closed
=============================================================================
