---------------------------- MODULE ControlStore ----------------------------
(***************************************************************************)
(* The job tables of SQLiteControlStore (adapters/platform/                *)
(* sqlite_control_store.py) for one run: the run row, one row per command  *)
(* job and one row per stage job.  Every method of the store is one        *)
(* BEGIN IMMEDIATE transaction, so every operator below is what ONE        *)
(* transaction does to the rows; the workers that call them are in         *)
(* JobWorker.                                                              *)
(*                                                                         *)
(* Wall-clock time is abstracted to one bit per lease.  `expired' says     *)
(* that lease_expires_at has passed; the order of the clock and of the     *)
(* transaction that compares it is not fixed by the code (the caller reads *)
(* the clock first), so a call of a worker whose lease has expired may     *)
(* still be let through as long as nobody has reclaimed the job.           *)
(***************************************************************************)
EXTENDS Naturals, FiniteSets

CONSTANTS
    Workers,       \* worker threads, one run_once at a time each
    WorkerId,      \* the worker_id each thread presents to the store
    NoOwner,       \* lease_owner IS NULL
    Stages,        \* the selected stages of the run's execution plan
    Deps,          \* dependencies and selected conditional dependencies
    Required,      \* stages with required = True
    Final,         \* stages with final_validation = True
    ReviewStages,  \* stages with a review_checkpoint
    ReplaySafe,    \* stages with replay_safety = REPLAY_SAFE
    Submits, Resumes, Cancels,   \* command jobs by action
    MaxRetries,    \* RetryPolicy.max_retries
    MaxActive      \* max_active_per_run

Commands == Submits \cup Resumes \cup Cancels
Jobs == Stages \cup Commands

ASSUME PlanAssumption ==
    /\ Deps \in [Stages -> SUBSET Stages]
    /\ Required \subseteq Stages
    /\ Final \subseteq Required
    /\ ReviewStages \subseteq Stages
    /\ ReplaySafe \subseteq Stages

ASSUME JobsAssumption ==
    /\ Stages \cap Commands = {}
    /\ Submits \cap Resumes = {}
    /\ Submits \cap Cancels = {}
    /\ Resumes \cap Cancels = {}

ASSUME WorkersAssumption ==
    /\ DOMAIN WorkerId = Workers
    /\ \A w \in Workers : WorkerId[w] # NoOwner

ASSUME BoundsAssumption ==
    /\ MaxRetries \in Nat
    /\ MaxActive \in Nat \ {0}

VARIABLES
    run,        \* runs.status
    planned,    \* an execution plan is registered for the run
    job         \* the jobs table, with the current attempt's row folded in

storeVars == <<run, planned, job>>

RunStatus == {"CREATED", "RUNNING", "NEEDS_REVIEW", "BLOCKED", "FAILED",
              "CANCELLED", "SUCCEEDED"}

\* ABSENT: no row yet.
JobStatus == {"ABSENT", "QUEUED", "RUNNING", "RETRY_WAIT", "NEEDS_REVIEW",
              "BLOCKED", "FAILED", "CANCELLED", "SUCCEEDED"}

DeliveryPhase == {"NOT_STARTED", "ATTEMPT_CREATED",
                  "HANDLER_DELIVERY_STARTED", "RESULT_RECORDED", "FINALIZED"}

\* A StageExecutionResult: its status, with FAILED split by
\* failure_classification; NONE is a NULL durable_result_json.
Failures == {"TRANSIENT", "TERMINAL", "UNKNOWN_SIDE_EFFECT"}
Result == {"SUCCEEDED", "NEEDS_REVIEW", "BLOCKED", "CANCELLED"} \cup Failures
NoResult == "NONE"

Owners == {WorkerId[w] : w \in Workers} \cup {NoOwner}

JobRow == [status   : JobStatus,
           owner    : Owners,     \* lease_owner
           gen      : Nat,        \* lease_generation
           expired  : BOOLEAN,    \* lease_expires_at has passed
           cancel   : BOOLEAN,    \* cancellation_requested
           attempt  : Nat,        \* attempt number of attempt_id, 0 for NULL
           attempts : Nat,        \* MAX(attempt_number) of the stage
           arev     : Nat,        \* revision of the attempt's row
           phase    : DeliveryPhase,
           result   : Result \cup {NoResult},   \* durable_result_json
           retry    : 0 .. MaxRetries]   \* retry_count

AbsentRow == [status |-> "ABSENT", owner |-> NoOwner, gen |-> 0,
              expired |-> FALSE, cancel |-> FALSE, attempt |-> 0,
              attempts |-> 0, arev |-> 0, phase |-> "NOT_STARTED",
              result |-> NoResult, retry |-> 0]

StoreTypeOK ==
    /\ run \in RunStatus
    /\ planned \in BOOLEAN
    /\ job \in [Jobs -> JobRow]

StoreInit ==
    /\ run = "CREATED"
    /\ planned = FALSE
    /\ job = [j \in Jobs |-> AbsentRow]

\* UPDATE jobs ... WHERE job_id = j.
Update(j, row) == job' = [job EXCEPT ![j] = row]

-----------------------------------------------------------------------------
(* Enqueueing.                                                             *)

Enqueued(phase) == [AbsentRow EXCEPT !.status = "QUEUED", !.phase = phase]

RegisterExecutionPlan ==
    /\ ~planned
    /\ planned' = TRUE

\* The command's job row; a repeated command_id finds the stored row and
\* changes nothing.
EnqueueExecutionCommand(c) ==
    /\ job[c].status = "ABSENT"
    /\ Update(c, Enqueued("NOT_STARTED"))

\* UNIQUE(run_id, stage_id): an existing row is returned unchanged.
EnqueueStageJob(s) ==
    IF job[s].status = "ABSENT"
    THEN Update(s, Enqueued("ATTEMPT_CREATED"))
    ELSE UNCHANGED job

-----------------------------------------------------------------------------
(* Claiming and the lease fence.                                           *)

LiveLeases == {j \in Jobs : job[j].status = "RUNNING" /\ ~job[j].expired}

Claimable(j) ==
    /\ \/ job[j].status \in {"QUEUED", "RETRY_WAIT"} /\ ~job[j].cancel
       \/ job[j].status = "RUNNING" /\ job[j].expired
    /\ Cardinality(LiveLeases) < MaxActive

Leased(row, id) == [row EXCEPT !.status = "RUNNING", !.owner = id,
                               !.gen = @ + 1, !.expired = FALSE]

\* Priorities are all equal and available_at comes from unsynchronised clocks,
\* so the ORDER BY is any order of the eligible rows.
ClaimNextJob(id, j) ==
    /\ Claimable(j)
    /\ Update(j, Leased(job[j], id))

\* Mutant of LeaseRow: the generation alone is compared.
LeaseRowAnyOwner(id, j, gen) ==
    /\ job[j].status = "RUNNING"
    /\ job[j].gen = gen

\* status, lease_owner and lease_generation of _lease_row.
LeaseRow(id, j, gen) ==
    /\ job[j].status = "RUNNING"
    /\ job[j].owner = id
    /\ job[j].gen = gen

WithExpiry(row, passed) == [row EXCEPT !.expired = passed]

\* The new expiry counts from a clock read before the transaction, so it may
\* already have passed when it is written.
HeartbeatJob(id, j, gen) ==
    /\ LeaseRow(id, j, gen)
    /\ \E late \in {FALSE, job[j].expired} :
          Update(j, WithExpiry(job[j], late))

-----------------------------------------------------------------------------
(* The delivery of a stage.                                                *)

WithAttempt(row) == [row EXCEPT !.attempt = row.attempts + 1,
                                !.attempts = @ + 1, !.arev = 0]

EnsureStageAttempt(id, s, gen) ==
    /\ LeaseRow(id, s, gen)
    /\ IF job[s].attempt # 0
       THEN UNCHANGED job
       ELSE Update(s, WithAttempt(job[s]))

Delivering(row) ==
    [row EXCEPT !.phase = "HANDLER_DELIVERY_STARTED", !.arev = @ + 1]

MarkHandlerDeliveryStarted(id, s, gen) ==
    /\ LeaseRow(id, s, gen)
    /\ job[s].attempt # 0
    /\ Update(s, Delivering(job[s]))

Recorded(row, result) == [row EXCEPT !.phase = "RESULT_RECORDED",
                                     !.result = result, !.arev = @ + 1]

RecordStageResult(id, s, gen, attempt, arev, result) ==
    /\ LeaseRow(id, s, gen)
    /\ job[s].attempt = attempt
    /\ job[s].arev = arev
    /\ Update(s, Recorded(job[s], result))

\* Mutant of EffectiveStatus: a retry escapes the cancellation.
EffectiveStatusKeepsRetry(s, requested) ==
    IF /\ job[s].cancel \/ run = "CANCELLED"
       /\ requested \in {"SUCCEEDED", "NEEDS_REVIEW", "BLOCKED"}
    THEN "CANCELLED"
    ELSE requested

\* Cancellation wins the race against every outcome that is not a failure.
EffectiveStatus(s, requested) ==
    IF /\ job[s].cancel \/ run = "CANCELLED"
       /\ requested \in {"SUCCEEDED", "NEEDS_REVIEW", "BLOCKED", "RETRY_WAIT"}
    THEN "CANCELLED"
    ELSE requested

\* A retry starts from a fresh attempt and drops the result.
Finalized(row, status, result, retry) ==
    LET again == status = "RETRY_WAIT" IN
    [row EXCEPT !.status = status, !.owner = NoOwner, !.expired = FALSE,
                !.retry = retry, !.arev = @ + 1,
                !.attempt = IF again THEN 0 ELSE @,
                !.phase = IF again THEN "ATTEMPT_CREATED" ELSE "FINALIZED",
                !.result = IF again THEN NoResult ELSE result]

FinalizeStageJob(id, s, gen, attempt, arev, result, requested, retry) ==
    /\ LeaseRow(id, s, gen)
    /\ job[s].attempt = attempt
    /\ job[s].arev = arev
    /\ Update(s, Finalized(job[s], EffectiveStatus(s, requested), result, retry))

Finished(row, status) == [row EXCEPT !.status = status, !.owner = NoOwner,
                                     !.expired = FALSE, !.phase = "FINALIZED"]

FinalizeCommandJob(id, c, gen, status) ==
    /\ LeaseRow(id, c, gen)
    /\ Update(c, Finished(job[c], status))

-----------------------------------------------------------------------------
(* Cancellation and resume: neither is bound to the caller's lease.        *)

Waiting == {"QUEUED", "RETRY_WAIT", "NEEDS_REVIEW", "BLOCKED"}

CancelRequested(row) ==
    [row EXCEPT !.cancel = TRUE,
                !.status = IF @ \in Waiting THEN "CANCELLED" ELSE @]

RequestRunCancellation ==
    /\ run' = IF run \in {"SUCCEEDED", "CANCELLED"} THEN run ELSE "CANCELLED"
    /\ job' = [j \in Jobs |->
          IF job[j].status \in Waiting \cup {"RUNNING"}
          THEN CancelRequested(job[j])
          ELSE job[j]]

Resumable(s) == job[s].status \in {"NEEDS_REVIEW", "BLOCKED", "FAILED"}

Requeued(row) ==
    [row EXCEPT !.status = "QUEUED", !.attempt = 0, !.owner = NoOwner,
                !.expired = FALSE, !.cancel = FALSE,
                !.phase = "ATTEMPT_CREATED", !.result = NoResult]

\* Mutant of ResumeJob: the status of the row is not looked at again.
ResumeJobUnchecked(s) == Update(s, Requeued(job[s]))

ResumeJob(s) ==
    /\ Resumable(s)
    /\ Update(s, Requeued(job[s]))

\* lease_expires_at passes.
LeaseExpires(j) ==
    /\ job[j].status = "RUNNING"
    /\ ~job[j].expired
    /\ Update(j, WithExpiry(job[j], TRUE))
=============================================================================
