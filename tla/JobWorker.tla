------------------------------ MODULE JobWorker ------------------------------
(***************************************************************************)
(* JobWorker (application/jobs.py): worker threads that claim the rows of  *)
(* ControlStore and carry out commands and stages.  A worker's locals are  *)
(* the record worker[w]; its pc names the next store transaction.  Reads   *)
(* that only decide what the worker does next belong to the step that      *)
(* follows them when what they read cannot be undone, and are steps of     *)
(* their own when it can (RefreshJob, ListJobs).                           *)
(*                                                                         *)
(* A compare-and-swap on the run row is one step, taken when the swap      *)
(* succeeds; a worker that loses the swap raises out of run_once and       *)
(* leaves its job as it is, which is what Crash does.                      *)
(***************************************************************************)
EXTENDS ControlStore

CONSTANTS
    NoJob,
    Handled,           \* stages with a registered handler
    HandlerOutcomes,   \* what a handler may return
    MaxFaults          \* bound: crashes, and leases that expire under a worker

ASSUME WorkerAssumption ==
    /\ NoJob \notin Jobs
    /\ Handled \subseteq Stages
    /\ HandlerOutcomes \subseteq Result
    /\ MaxFaults \in Nat

VARIABLES
    worker,      \* the locals of each worker's run_once
    contexts,    \* stages whose review subjects are registered
    accepted,    \* stages all of whose subjects have a compatible decision
    g6,          \* valid G6 gate evidence is stored for the run
    delivered,   \* history: handler calls made for the current attempt
    faults       \* history: faults so far

workerVars == <<worker, contexts, accepted, g6, delivered, faults>>
vars == <<storeVars, workerVars>>

PC == {"idle", "cancel", "resume", "list", "resuming", "schedule", "finish",
       "attempt", "refresh", "decide", "deliver", "handler", "returned",
       "probe", "record", "finalize", "setrun", "complete"}

\* `seen' is the list_jobs snapshot of a resume command, restricted to the
\* rows it may act on; `todo' the stages _schedule_ready has not visited.
Locals == [pc      : PC,
           job     : Jobs \cup {NoJob},
           claim   : Nat,            \* lease_generation returned by the claim
           gen     : Nat,            \* job.lease_generation used in later calls
           attempt : Nat,
           arev    : Nat,
           phase   : DeliveryPhase,
           cancel  : BOOLEAN,
           retry   : 0 .. MaxRetries,
           result  : Result \cup {NoResult},
           then    : {"none", "block", "advance"},
           target  : RunStatus \ {"SUCCEEDED"},   \* of a pending _set_run_status
           todo    : SUBSET Stages,
           seen    : [Stages -> JobStatus],
           some    : BOOLEAN]        \* scheduled > 0, or resumed > 0

NothingSeen == [s \in Stages |-> "ABSENT"]

IdleWorker == [pc |-> "idle", job |-> NoJob, claim |-> 0, gen |-> 0,
               attempt |-> 0, arev |-> 0, phase |-> "NOT_STARTED",
               cancel |-> FALSE, retry |-> 0, result |-> NoResult,
               then |-> "none", target |-> "CREATED", todo |-> {},
               seen |-> NothingSeen, some |-> FALSE]

TypeOK ==
    /\ StoreTypeOK
    /\ worker \in [Workers -> Locals]
    /\ contexts \subseteq Stages
    /\ accepted \subseteq Stages
    /\ g6 \in BOOLEAN
    /\ delivered \in [Stages -> Nat]
    /\ faults \in Nat

Init ==
    /\ StoreInit
    /\ worker = [w \in Workers |-> IdleWorker]
    /\ contexts = {}
    /\ accepted = {}
    /\ g6 = FALSE
    /\ delivered = [s \in Stages |-> 0]
    /\ faults = 0

-----------------------------------------------------------------------------
(* Helpers.                                                                *)

At(w, pc) == worker[w].pc = pc

\* The locals a worker goes on with; IdleWorker when it leaves run_once.
Continue(w, me) == worker' = [worker EXCEPT ![w] = me]

Goto(me, pc) == [me EXCEPT !.pc = pc]
GotoWith(me, pc, result) == [me EXCEPT !.pc = pc, !.result = result]

\* Mutant of DependenciesSucceeded: any finalized dependency will do.
DependenciesFinalized(s) == \A d \in Deps[s] : job[d].phase = "FINALIZED"

\* Dependencies are read one by one; SUCCEEDED is never left (TerminalJobsStay).
DependenciesSucceeded(s) == \A d \in Deps[s] : job[d].status = "SUCCEEDED"

\* _set_run_status: the status the run has after a request for `status'.
SetRunStatus(status, reactivate) ==
    IF \/ run \in {"CANCELLED", "SUCCEEDED"} /\ status # "CANCELLED"
       \/ run \in {"FAILED", "BLOCKED"} /\ status = "RUNNING" /\ ~reactivate
    THEN run
    ELSE status

\* Mutant of RequestedStatus: one retry too many.
RequestedStatusOneMore(result, retry) ==
    IF result = "TRANSIENT" /\ retry <= MaxRetries THEN "RETRY_WAIT"
    ELSE IF result \in Failures THEN "FAILED"
    ELSE result

\* The job status _finalize asks for, and the retry_count it stores.
RequestedStatus(result, retry) ==
    IF result = "TRANSIENT" /\ retry < MaxRetries THEN "RETRY_WAIT"
    ELSE IF result \in Failures THEN "FAILED"
    ELSE result

RequestedRetry(result, retry) ==
    IF RequestedStatus(result, retry) = "RETRY_WAIT" THEN retry + 1
    ELSE IF result \in Failures THEN retry
    ELSE 0

\* The lease fence a worker's next transaction checks.  attempt and arev are
\* compared only where the call passes the attempt record.
Fenced == {"finish", "attempt", "deliver", "returned", "record", "finalize"}

FenceHolds(w) ==
    LET me == worker[w] IN
    /\ LeaseRow(WorkerId[w], me.job, me.gen)
    /\ me.pc \in {"record", "finalize"} =>
          me.attempt = job[me.job].attempt /\ me.arev = job[me.job].arev

\* These calls pass a clock read just before them; the others pass the time of
\* the claim, which the expiry of the lease they hold does not precede.  After
\* an expiry was set back under a shared id (DeliverHandler) it may, and the
\* store would refuse such a call: the model lets it through.
FreshClock(w) ==
    \/ worker[w].pc \in {"deliver", "returned", "record"}
    \/ worker[w].pc = "finalize" /\ worker[w].then = "advance"

-----------------------------------------------------------------------------
(* The world outside the workers.                                          *)

Prepare ==
    /\ RegisterExecutionPlan
    /\ UNCHANGED <<run, job, workerVars>>

\* The API refuses a submit while the run has no plan.
SubmitCommand(c) ==
    /\ c \in Submits => planned
    /\ EnqueueExecutionCommand(c)
    /\ UNCHANGED <<run, planned, workerVars>>

AcceptReview(s) ==
    /\ s \in contexts \ accepted
    /\ accepted' = accepted \cup {s}
    /\ UNCHANGED <<storeVars, worker, contexts, g6, delivered, faults>>

InvalidateReview(s) ==
    /\ s \in accepted
    /\ accepted' = accepted \ {s}
    /\ UNCHANGED <<storeVars, worker, contexts, g6, delivered, faults>>

HeldByWorker(j) ==
    \E w \in Workers : worker[w].job = j /\ worker[w].claim = job[j].gen

\* A lease runs out because its worker is gone, or while it is merely slow.
ExpireLease(j) ==
    /\ LeaseExpires(j)
    /\ IF HeldByWorker(j)
       THEN faults < MaxFaults /\ faults' = faults + 1
       ELSE faults' = faults
    /\ UNCHANGED <<run, planned, worker, contexts, accepted, g6, delivered>>

Crash(w) ==
    /\ ~At(w, "idle")
    /\ faults < MaxFaults
    /\ faults' = faults + 1
    /\ Continue(w, IdleWorker)
    /\ UNCHANGED <<storeVars, contexts, accepted, g6, delivered>>

-----------------------------------------------------------------------------
(* run_once.                                                               *)

FirstStep(j) == IF j \in Submits THEN "schedule"
                ELSE IF j \in Resumes THEN "resume"
                ELSE IF j \in Cancels THEN "cancel"
                ELSE "attempt"

Claimed(j, gen) ==
    [IdleWorker EXCEPT !.pc = FirstStep(j), !.job = j, !.claim = gen,
                       !.gen = gen,
                       !.todo = IF j \in Submits THEN Stages ELSE {}]

Claim(w, j) ==
    /\ At(w, "idle")
    /\ ClaimNextJob(WorkerId[w], j)
    /\ Continue(w, Claimed(j, job[j].gen + 1))
    /\ UNCHANGED <<run, planned, contexts, accepted, g6, delivered, faults>>

\* A call is refused by its fence: ConcurrencyConflictError leaves run_once.
Rejected(w) ==
    /\ worker[w].pc \in Fenced
    /\ ~FenceHolds(w) \/ (FreshClock(w) /\ job[worker[w].job].expired)
    /\ Continue(w, IdleWorker)
    /\ UNCHANGED <<storeVars, contexts, accepted, g6, delivered, faults>>

-----------------------------------------------------------------------------
(* _run_command.                                                           *)

CancelCommand(w) ==
    /\ At(w, "cancel")
    /\ RequestRunCancellation
    /\ Continue(w, GotoWith(worker[w], "finish", "SUCCEEDED"))
    /\ UNCHANGED <<planned, contexts, accepted, g6, delivered, faults>>

StartResume(w) ==
    /\ At(w, "resume")
    /\ Continue(w, IF ~planned \/ run \in {"CANCELLED", "SUCCEEDED"}
                   THEN GotoWith(worker[w], "finish", "BLOCKED")
                   ELSE Goto(worker[w], "list"))
    /\ UNCHANGED <<storeVars, contexts, accepted, g6, delivered, faults>>

Listed(me, seen) == [me EXCEPT !.pc = "resuming", !.seen = seen]

\* The one listing of the jobs a resume command works from.
ListJobs(w) ==
    /\ At(w, "list")
    /\ Continue(w, Listed(worker[w], [s \in Stages |->
          IF Resumable(s) /\ job[s].result # "UNKNOWN_SIDE_EFFECT"
          THEN job[s].status ELSE "ABSENT"]))
    /\ UNCHANGED <<storeVars, contexts, accepted, g6, delivered, faults>>

ResumeAuthorized(w, s) ==
    \/ worker[w].seen[s] = "NEEDS_REVIEW" /\ s \in accepted
    \/ worker[w].seen[s] = "BLOCKED" /\ s \in Handled
          /\ DependenciesSucceeded(s)
    \/ worker[w].seen[s] = "FAILED"

Examined(me, s, resumed) ==
    [me EXCEPT !.seen = [@ EXCEPT ![s] = "ABSENT"], !.some = @ \/ resumed]

\* resume_job raises out of the command when the row is no longer resumable.
ResumeCandidate(w, s) ==
    /\ At(w, "resuming")
    /\ worker[w].seen[s] # "ABSENT"
    /\ \/ /\ ResumeAuthorized(w, s)
          /\ ResumeJob(s)
          /\ Continue(w, Examined(worker[w], s, TRUE))
       \/ /\ ResumeAuthorized(w, s)
          /\ ~Resumable(s)
          /\ Continue(w, IdleWorker)
          /\ UNCHANGED job
       \/ /\ ~ResumeAuthorized(w, s)
          /\ Continue(w, Examined(worker[w], s, FALSE))
          /\ UNCHANGED job
    /\ UNCHANGED <<run, planned, contexts, accepted, g6, delivered, faults>>

EndResume(w) ==
    /\ At(w, "resuming")
    /\ worker[w].seen = NothingSeen
    /\ run' = IF worker[w].some THEN SetRunStatus("RUNNING", TRUE) ELSE run
    /\ Continue(w, GotoWith(worker[w], "finish",
                      IF worker[w].some THEN "SUCCEEDED" ELSE "BLOCKED"))
    /\ UNCHANGED <<planned, job, contexts, accepted, g6, delivered, faults>>

FinishCommand(w) ==
    /\ At(w, "finish")
    /\ FinalizeCommandJob(WorkerId[w], worker[w].job, worker[w].gen,
                          worker[w].result)
    /\ Continue(w, IdleWorker)
    /\ UNCHANGED <<run, planned, contexts, accepted, g6, delivered, faults>>

-----------------------------------------------------------------------------
(* _schedule_ready, for a submit command and after a stage.  The stages    *)
(* are visited in any order, which is every order a plan may list them in. *)

Visited(me, s, new) == [me EXCEPT !.todo = @ \ {s}, !.some = @ \/ new]

\* The test for an existing row and the insertion are one step: a row that
\* appears in between is returned unchanged and only the count differs.
ScheduleStage(w, s) ==
    /\ At(w, "schedule")
    /\ s \in worker[w].todo
    /\ LET new == DependenciesSucceeded(s) /\ job[s].status = "ABSENT" IN
       /\ IF new THEN EnqueueStageJob(s) ELSE UNCHANGED job
       /\ Continue(w, Visited(worker[w], s, new))
    /\ UNCHANGED <<run, planned, contexts, accepted, g6, delivered, faults>>

EndSchedule(w) ==
    /\ At(w, "schedule")
    /\ worker[w].todo = {}
    /\ \/ /\ worker[w].job \in Submits
          /\ worker[w].some
          /\ Continue(w, GotoWith(worker[w], "finish", "SUCCEEDED"))
          /\ UNCHANGED run
       \/ /\ worker[w].job \in Submits
          /\ ~worker[w].some
          /\ Continue(w, GotoWith(worker[w], "finish", "BLOCKED"))
          /\ run' = SetRunStatus("BLOCKED", FALSE)
       \/ /\ worker[w].job \in Stages
          /\ Continue(w, Goto(worker[w], "complete"))
          /\ UNCHANGED run
    /\ UNCHANGED <<planned, job, contexts, accepted, g6, delivered, faults>>

-----------------------------------------------------------------------------
(* _run_stage.                                                             *)

Attempted(me, row) == [me EXCEPT !.pc = "refresh", !.attempt = row.attempt,
                                 !.arev = row.arev]

EnsureAttempt(w) ==
    LET s == worker[w].job IN
    /\ At(w, "attempt")
    /\ EnsureStageAttempt(WorkerId[w], s, worker[w].gen)
    /\ Continue(w, Attempted(worker[w], job'[s]))
    /\ delivered' = IF job[s].attempt = 0
                    THEN [delivered EXCEPT ![s] = 0] ELSE delivered
    /\ UNCHANGED <<run, planned, contexts, accepted, g6, faults>>

Refreshed(me, row) ==
    [me EXCEPT !.pc = "decide", !.gen = row.gen, !.phase = row.phase,
               !.cancel = row.cancel, !.retry = row.retry, !.result = row.result]

\* job = refreshed_job: a plain read, and the lease generation comes with it.
RefreshJob(w) ==
    /\ At(w, "refresh")
    /\ Continue(w, Refreshed(worker[w], job[worker[w].job]))
    /\ UNCHANGED <<storeVars, contexts, accepted, g6, delivered, faults>>

CancellationSeen(w) == worker[w].cancel \/ run = "CANCELLED"

Proceeds(w) ==
    /\ At(w, "decide")
    /\ DependenciesSucceeded(worker[w].job)
    /\ ~CancellationSeen(w)

ToFinalize(me, arev, then, result) ==
    [me EXCEPT !.pc = "finalize", !.arev = arev, !.then = then,
               !.result = result]

\* A prerequisite that is not SUCCEEDED blocks the stage and the run, a
\* cancellation ends the stage.  PrerequisitesHold says the first never happens.
StopBeforeExecution(w) ==
    LET blocked == ~DependenciesSucceeded(worker[w].job) IN
    /\ At(w, "decide")
    /\ ~Proceeds(w)
    /\ Continue(w, ToFinalize(worker[w], worker[w].arev,
                              IF blocked THEN "block" ELSE "none",
                              IF blocked THEN "BLOCKED" ELSE "CANCELLED"))
    /\ UNCHANGED <<storeVars, contexts, accepted, g6, delivered, faults>>

UseDurableResult(w) ==
    /\ Proceeds(w)
    /\ worker[w].phase = "RESULT_RECORDED"
    /\ Continue(w, ToFinalize(worker[w], worker[w].arev, "advance",
                              worker[w].result))
    /\ UNCHANGED <<storeVars, contexts, accepted, g6, delivered, faults>>

\* _review_stage_result: the derivation of the subjects may fail.
ReviewCheckpoint(w) ==
    LET s == worker[w].job IN
    /\ Proceeds(w)
    /\ worker[w].phase # "RESULT_RECORDED"
    /\ s \in ReviewStages
    /\ \/ /\ contexts' = contexts \cup {s}
          /\ Continue(w, GotoWith(worker[w], "record",
                IF s \in accepted THEN "SUCCEEDED" ELSE "NEEDS_REVIEW"))
       \/ /\ Continue(w, GotoWith(worker[w], "record", "BLOCKED"))
          /\ UNCHANGED contexts
    /\ UNCHANGED <<storeVars, accepted, g6, delivered, faults>>

\* Mutant of ReplayForbidden: the replay safety of the stage is not consulted.
ReplayNeverForbidden(w) == FALSE

ReplayForbidden(w) ==
    /\ worker[w].phase = "HANDLER_DELIVERY_STARTED"
    /\ worker[w].job \notin ReplaySafe

RefuseReplay(w) ==
    /\ Proceeds(w)
    /\ worker[w].job \notin ReviewStages
    /\ ReplayForbidden(w)
    /\ Continue(w, GotoWith(worker[w], "record", "UNKNOWN_SIDE_EFFECT"))
    /\ UNCHANGED <<storeVars, contexts, accepted, g6, delivered, faults>>

\* Mutant of BeginExecution: a recorded result is not recognised.
BeginExecutionAgain(w) ==
    /\ Proceeds(w)
    /\ worker[w].job \notin ReviewStages
    /\ ~ReplayForbidden(w)
    /\ run' = SetRunStatus("RUNNING", FALSE)
    /\ Continue(w, Goto(worker[w], "deliver"))
    /\ UNCHANGED <<planned, job, contexts, accepted, g6, delivered, faults>>

BeginExecution(w) ==
    /\ Proceeds(w)
    /\ worker[w].phase # "RESULT_RECORDED"
    /\ worker[w].job \notin ReviewStages
    /\ ~ReplayForbidden(w)
    /\ run' = SetRunStatus("RUNNING", FALSE)
    /\ Continue(w, Goto(worker[w], "deliver"))
    /\ UNCHANGED <<planned, job, contexts, accepted, g6, delivered, faults>>

InHandler(me, arev) == [me EXCEPT !.pc = "handler", !.arev = arev]

\* The heartbeat that precedes the marker passes the time of the claim.  For
\* the job's last claim this moves no expiry and checks what the marker checks
\* again.  A worker that read the generation of a later claim under its own id
\* sets the expiry back to a time that has passed, and the marker, which reads
\* the clock, then refuses it.
DeliverHandler(w) ==
    LET s == worker[w].job IN
    /\ At(w, "deliver")
    /\ IF worker[w].claim = worker[w].gen
       THEN /\ MarkHandlerDeliveryStarted(WorkerId[w], s, worker[w].gen)
            /\ Continue(w, InHandler(worker[w], job'[s].arev))
            /\ delivered' = [delivered EXCEPT ![s] = @ + 1]
       ELSE /\ LeaseRow(WorkerId[w], s, worker[w].gen)
            /\ Update(s, WithExpiry(job[s], TRUE))
            /\ Continue(w, IdleWorker)
            /\ UNCHANGED delivered
    /\ UNCHANGED <<run, planned, contexts, accepted, g6, faults>>

\* The final-validation handler stores the G6 evidence as it goes.
HandlerReturns(w) ==
    LET s == worker[w].job IN
    /\ At(w, "handler")
    /\ \E r \in IF s \in Handled THEN HandlerOutcomes ELSE {"BLOCKED"} :
          Continue(w, GotoWith(worker[w], "returned", r))
    /\ g6' \in IF s \in Final \cap Handled THEN {g6, TRUE} ELSE {g6}
    /\ UNCHANGED <<storeVars, contexts, accepted, delivered, faults>>

HandlerRaises(w) ==
    /\ At(w, "handler")
    /\ worker[w].job \in Handled
    /\ Continue(w, GotoWith(worker[w], "record", "UNKNOWN_SIDE_EFFECT"))
    /\ UNCHANGED <<storeVars, contexts, accepted, g6, delivered, faults>>

RenewLease(w) ==
    /\ At(w, "returned")
    /\ HeartbeatJob(WorkerId[w], worker[w].job, worker[w].gen)
    /\ Continue(w, Goto(worker[w], "probe"))
    /\ UNCHANGED <<run, planned, contexts, accepted, g6, delivered, faults>>

\* The cancellation probe, then the verification of the published outputs.
ProbeCancellation(w) ==
    LET cancelled == run = "CANCELLED" \/ job[worker[w].job].cancel
        result == worker[w].result
    IN
    /\ At(w, "probe")
    /\ \E r \in IF cancelled THEN {"CANCELLED"}
                ELSE IF result \in {"SUCCEEDED", "NEEDS_REVIEW"}
                     THEN {result, "TERMINAL"} ELSE {result} :
          Continue(w, GotoWith(worker[w], "record", r))
    /\ UNCHANGED <<storeVars, contexts, accepted, g6, delivered, faults>>

RecordResult(w) ==
    LET me == worker[w] IN
    /\ At(w, "record")
    /\ RecordStageResult(WorkerId[w], me.job, me.gen, me.attempt, me.arev,
                         me.result)
    /\ Continue(w, ToFinalize(me, job'[me.job].arev, "advance", me.result))
    /\ UNCHANGED <<run, planned, contexts, accepted, g6, delivered, faults>>

Advancing(s) ==
    [IdleWorker EXCEPT !.pc = "schedule", !.job = s, !.todo = Stages]
SettingRun(status) == [IdleWorker EXCEPT !.pc = "setrun", !.target = status]

\* _finalize, and the branch of _advance_after_stage its status selects.
AfterFinalize(s, then, status) ==
    IF then = "block"
    THEN SettingRun("BLOCKED")
    ELSE IF then = "none" THEN IdleWorker
    ELSE IF status = "SUCCEEDED"
    THEN Advancing(s)
    ELSE IF \/ status \in {"NEEDS_REVIEW", "CANCELLED"}
            \/ status \in {"BLOCKED", "FAILED"} /\ s \in Required
    THEN SettingRun(status)
    ELSE IdleWorker

\* The review contexts are registered just before; a worker that stops in
\* between leaves them for the next delivery, which registers them again.
FinalizeStage(w) ==
    LET me == worker[w]
        s == me.job
        requested == RequestedStatus(me.result, me.retry)
    IN
    /\ At(w, "finalize")
    /\ FinalizeStageJob(WorkerId[w], s, me.gen, me.attempt, me.arev,
                        me.result, requested,
                        RequestedRetry(me.result, me.retry))
    /\ contexts' = IF me.result = "NEEDS_REVIEW" THEN contexts \cup {s}
                                                 ELSE contexts
    /\ Continue(w, AfterFinalize(s, me.then, EffectiveStatus(s, requested)))
    /\ UNCHANGED <<run, planned, accepted, g6, delivered, faults>>

SetRun(w) ==
    /\ At(w, "setrun")
    /\ run' = SetRunStatus(worker[w].target, FALSE)
    /\ Continue(w, IdleWorker)
    /\ UNCHANGED <<planned, job, contexts, accepted, g6, delivered, faults>>

\* _maybe_complete_run.
MayComplete ==
    /\ Final # {}
    /\ \A s \in Required : job[s].status = "SUCCEEDED"

\* Mutant of CompletedRun: the G6 evidence is not required.
CompletedRunUngated ==
    IF ~MayComplete \/ run \in {"CANCELLED", "FAILED"} THEN run ELSE "SUCCEEDED"

CompletedRun ==
    IF ~MayComplete THEN run
    ELSE IF ~g6 THEN SetRunStatus("BLOCKED", FALSE)
    ELSE IF run \in {"CANCELLED", "FAILED"} THEN run
    ELSE "SUCCEEDED"

CompleteRun(w) ==
    /\ At(w, "complete")
    /\ run' = CompletedRun
    /\ Continue(w, IdleWorker)
    /\ UNCHANGED <<planned, job, contexts, accepted, g6, delivered, faults>>

-----------------------------------------------------------------------------
CommandStep(w) ==
    \/ CancelCommand(w)
    \/ StartResume(w)
    \/ ListJobs(w)
    \/ \E s \in Stages : ResumeCandidate(w, s)
    \/ EndResume(w)
    \/ \E s \in Stages : ScheduleStage(w, s)
    \/ EndSchedule(w)
    \/ FinishCommand(w)

StageStep(w) ==
    \/ EnsureAttempt(w)
    \/ RefreshJob(w)
    \/ StopBeforeExecution(w)
    \/ UseDurableResult(w)
    \/ ReviewCheckpoint(w)
    \/ RefuseReplay(w)
    \/ BeginExecution(w)
    \/ DeliverHandler(w)
    \/ HandlerReturns(w)
    \/ HandlerRaises(w)
    \/ RenewLease(w)
    \/ ProbeCancellation(w)
    \/ RecordResult(w)
    \/ FinalizeStage(w)
    \/ SetRun(w)
    \/ CompleteRun(w)

RunOnce(w) ==
    \/ \E j \in Jobs : Claim(w, j)
    \/ Rejected(w)
    \/ CommandStep(w)
    \/ StageStep(w)

Environment ==
    \/ Prepare
    \/ \E c \in Commands : SubmitCommand(c)
    \/ \E s \in Stages : AcceptReview(s)
    \/ \E s \in Stages : InvalidateReview(s)
    \/ \E j \in Jobs : ExpireLease(j)
    \/ \E w \in Workers : Crash(w)

Next == Environment \/ \E w \in Workers : RunOnce(w)

Spec == Init /\ [][Next]_vars

\* The best host a pool can have: it pumps for ever, a worker in run_once goes
\* on to the next statement, and the clock passes the expiry of a lease whose
\* worker is gone.  Users owe nothing.  The local runtime promises less: its
\* pump ends at the first idle batch and only a submitted command starts
\* another (LocalPump).  So FairSpec serves a counterexample, which then holds
\* of every host, and no property is claimed under it.
Fairness ==
    /\ \A w \in Workers : WF_vars(RunOnce(w))
    /\ \A j \in Jobs : WF_vars(~HeldByWorker(j) /\ ExpireLease(j))

FairSpec == Spec /\ Fairness

-----------------------------------------------------------------------------
(* Safety.                                                                 *)

\* A handler whose stage is not declared REPLAY_SAFE is called at most once
\* for one attempt, whatever crashes, expiries and reclaims happen around the
\* HANDLER_DELIVERY_STARTED marker of _run_stage.
AtMostOneDelivery ==
    \A s \in Stages \ ReplaySafe : delivered[s] <= 1

\* A job leaves RUNNING only by a step of the worker that made the job's last
\* claim: the fence of _lease_row keeps superseded workers out although
\* _run_stage re-reads the lease generation after it has started its attempt.
StaleWorkerCannotFinalize ==
    [][\A j \in Jobs :
          job[j].status = "RUNNING" /\ job'[j].status # "RUNNING" =>
             \E w \in Workers : /\ worker[w].job = j
                                /\ worker[w].claim = job[j].gen
                                /\ worker'[w] # worker[w]]_vars

\* A job that is SUCCEEDED or CANCELLED keeps its status and its attempt:
\* neither a resume command working from an old listing nor a reclaim brings
\* it back.
TerminalJobsStay ==
    [][\A j \in Jobs :
          job[j].status \in {"SUCCEEDED", "CANCELLED"} =>
             /\ job'[j].status = job[j].status
             /\ job'[j].attempt = job[j].attempt]_vars

\* A stage job exists only when everything it depends on has SUCCEEDED, so
\* the prerequisite test at the start of _run_stage never blocks a stage.
PrerequisitesHold ==
    \A s \in Stages : job[s].status # "ABSENT" =>
       \A d \in Deps[s] : job[d].status = "SUCCEEDED"

\* A run is SUCCEEDED only with every required stage SUCCEEDED and valid G6
\* evidence, and it is so in every later state.
RunSuccessIsEarned ==
    run = "SUCCEEDED" =>
       g6 /\ \A s \in Required : job[s].status = "SUCCEEDED"

\* Once the run is CANCELLED it stays so, and no stage that was still under
\* way is finalized as SUCCEEDED or left waiting by its worker.
CancellationIsFinal ==
    [][run = "CANCELLED" =>
          /\ run' = "CANCELLED"
          /\ \A s \in Stages :
                job[s].status = "RUNNING" =>
                   job'[s].status \in {"RUNNING", "CANCELLED", "FAILED"}]_vars

\* A recorded result is the one that decides the job: after RESULT_RECORDED
\* the handler is not called again for the attempt, and the finalization
\* stores that result, drops it for a retry it asks for, or a cancellation.
RecordedResultDecides ==
    [][\A s \in Stages :
          job[s].phase = "RESULT_RECORDED" =>
             \/ job'[s].phase = "RESULT_RECORDED"
                   /\ job'[s].result = job[s].result
             \/ job'[s].status = "RETRY_WAIT" /\ job[s].result = "TRANSIENT"
             \/ job'[s].phase = "FINALIZED"
                   /\ job'[s].result \in {job[s].result, "CANCELLED"}]_vars

-----------------------------------------------------------------------------
(* The abstract specification.                                             *)

StageSeen(s) ==
    CASE job[s].status = "ABSENT" -> "pending"
      [] job[s].status \in {"QUEUED", "RUNNING", "RETRY_WAIT"} -> "open"
      [] job[s].status \in {"NEEDS_REVIEW", "BLOCKED", "FAILED"} -> "held"
      [] job[s].status = "CANCELLED" -> "cancelled"
      [] job[s].status = "SUCCEEDED" -> "done"

OutcomeSeen ==
    CASE run = "SUCCEEDED" -> "succeeded"
      [] run = "CANCELLED" -> "cancelled"
      [] OTHER -> "unfinished"

Lifecycle == INSTANCE StageLifecycle
                WITH stage <- [s \in Stages |-> StageSeen(s)],
                     outcome <- OutcomeSeen

\* Whatever the workers, crashes, reclaims and redelivered commands do to the
\* rows, the run an observer sees follows the lifecycle of StageLifecycle: a
\* stage opens only after what it depends on is done and done is never undone.
ImplementsLifecycle == Lifecycle!Spec

-----------------------------------------------------------------------------
(* What the documentation says of runs and the code does not keep.         *)

\* RUN_AND_STAGE_LIFECYCLE.md, RunStatus: a RUNNING run has an operation that
\* is active or resumable work that is executing.
RunningMeansWork ==
    run = "RUNNING" ~>
       \/ run # "RUNNING"
       \/ \E s \in Stages : job[s].status \in {"QUEUED", "RUNNING", "RETRY_WAIT"}

\* run_state_machine.yml, transitions.
LegalRunTransition(from, to) ==
    to \in CASE from = "CREATED"      -> {"RUNNING", "CANCELLED"}
             [] from = "RUNNING"      -> RunStatus \ {"CREATED"}
             [] from = "NEEDS_REVIEW" -> {"RUNNING", "BLOCKED", "CANCELLED"}
             [] from = "BLOCKED"      -> {"RUNNING", "CANCELLED", "FAILED"}
             [] from = "FAILED"       -> {"RUNNING", "CANCELLED"}
             [] OTHER                 -> {}

RunFollowsLifecycle == [][run' # run => LegalRunTransition(run, run')]_vars

\* run_state_machine.yml, terminal_states: SUCCEEDED has no transition.
SucceededRunStays == [][run = "SUCCEEDED" => run' = "SUCCEEDED"]_vars

\* _resume_command: an unknown side effect outcome requires reconciliation,
\* blind retry is forbidden; so its job stays FAILED.
UnknownOutcomeStays ==
    [][\A s \in Stages :
          job[s].status = "FAILED" /\ job[s].result = "UNKNOWN_SIDE_EFFECT" =>
             job'[s].status = "FAILED"]_vars
=============================================================================
