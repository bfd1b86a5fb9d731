--------------------------- MODULE JobWorker_proofs ---------------------------
(***************************************************************************)
(* What JobWorker guarantees for every plan, every set of workers and      *)
(* commands and every bound: its type, the refinement of StageLifecycle,   *)
(* and, when workers present worker ids of their own, the lease fence and  *)
(* the delivery protocol. Only the worker of the last claim ends a job, a  *)
(* handler that is not replay safe is called at most once per attempt, and *)
(* a recorded result decides.                                              *)
(***************************************************************************)
EXTENDS JobWorker, TLAPS

StagePC == {"attempt", "refresh", "decide", "deliver", "handler", "returned",
            "probe", "record", "finalize", "complete"}
CommandPC == {"cancel", "resume", "list", "resuming", "finish"}
ResultPC == {"returned", "probe", "record", "finalize"}

\* A row marked RESULT_RECORDED has its result.
ResultStored(row) == row.phase = "RESULT_RECORDED" => row.result \in Result

\* Where a worker stands says which kind of job it carries, and that it has
\* the result it is about to store.
LocalsFit(me) ==
    /\ me.pc \in StagePC => me.job \in Stages
    /\ me.pc \in CommandPC => me.job \in Commands
    /\ me.pc = "schedule" => me.job \in Submits \cup Stages
    /\ me.pc \in ResultPC => me.result \in Result
    /\ me.pc = "decide" => ResultStored(me)
    /\ me.pc = "finish" => me.result \in {"SUCCEEDED", "BLOCKED"}

RowsOK ==
    /\ job \in [Jobs -> JobRow]
    /\ \A s \in Stages : ResultStored(job[s])

WorkersOK ==
    /\ worker \in [Workers -> Locals]
    /\ \A w \in Workers : LocalsFit(worker[w])

RestOK ==
    /\ run \in RunStatus
    /\ planned \in BOOLEAN
    /\ contexts \subseteq Stages
    /\ accepted \subseteq Stages
    /\ g6 \in BOOLEAN
    /\ delivered \in [Stages -> Nat]
    /\ faults \in Nat

\* TypeOK is not inductive: RecordResult stores what the locals hold and
\* RefreshJob reads it back.
TypeInv == RowsOK /\ WorkersOK /\ RestOK

\* What one step may do to the row of a job.
StatusStep(j) ==
    \/ /\ job'[j].status = job[j].status
       /\ job'[j].attempt = job[j].attempt \/ job[j].status = "RUNNING"
    \/ /\ job[j].status = "ABSENT"
       /\ job'[j].status = "QUEUED"
       /\ j \in Stages => DependenciesSucceeded(j)
    \/ /\ job[j].status \in {"QUEUED", "RETRY_WAIT"}
       /\ job'[j].status = "RUNNING"
    \/ /\ job[j].status = "RUNNING"
       /\ job'[j].status # "ABSENT"
       /\ run = "CANCELLED" /\ j \in Stages =>
             job'[j].status \in {"CANCELLED", "FAILED"}
    \/ /\ job[j].status \in Waiting
       /\ job'[j].status = "CANCELLED"
    \/ /\ job[j].status \in {"NEEDS_REVIEW", "BLOCKED", "FAILED"}
       /\ job'[j].status = "QUEUED"

\* What one step may do to the run.
RunStep ==
    /\ run = "CANCELLED" => run' = "CANCELLED"
    /\ run' = "SUCCEEDED" => run = "SUCCEEDED" \/ (g6 /\ MayComplete)
    /\ g6 => g6'

StepOK == TypeInv' /\ RunStep /\ \A j \in Jobs : StatusStep(j)

LEMMA OwnersFact ==
  NoOwner \in Owners /\ \A w \in Workers : WorkerId[w] \in Owners
  BY DEF Owners

\* The members of the enumerations the transactions write.
LEMMA StatusFact ==
  /\ {"ABSENT", "QUEUED", "RUNNING", "RETRY_WAIT", "CANCELLED", "SUCCEEDED",
      "BLOCKED", "FAILED", "NEEDS_REVIEW"} \subseteq JobStatus
  /\ {"NOT_STARTED", "ATTEMPT_CREATED", "HANDLER_DELIVERY_STARTED",
      "RESULT_RECORDED", "FINALIZED"} \subseteq DeliveryPhase
  BY DEF JobStatus, DeliveryPhase

LEMMA AbsentTyped == AbsentRow \in JobRow
  BY BoundsAssumption, OwnersFact, StatusFact DEF AbsentRow, JobRow

LEMMA IdleTyped == IdleWorker \in Locals
  BY BoundsAssumption, StatusFact
  DEF IdleWorker, Locals, PC, NothingSeen, RunStatus

-----------------------------------------------------------------------------
(* What the transactions write into a row.                                 *)

LEMMA LeasedRow ==
  ASSUME NEW r \in JobRow, NEW id \in Owners
  PROVE  /\ Leased(r, id) \in JobRow
         /\ Leased(r, id).status = "RUNNING"
         /\ Leased(r, id).owner = id
         /\ Leased(r, id).gen = r.gen + 1
         /\ Leased(r, id).phase = r.phase
         /\ Leased(r, id).result = r.result
         /\ Leased(r, id).attempt = r.attempt
<1>1. r.gen + 1 \in Nat
  BY DEF JobRow
<1>2. Leased(r, id) \in JobRow
  BY <1>1, StatusFact, Zenon DEF Leased, JobRow
<1> QED
  BY <1>2, Zenon DEF Leased, JobRow

LEMMA ExpiryRow ==
  ASSUME NEW r \in JobRow, NEW late \in BOOLEAN
  PROVE  /\ WithExpiry(r, late) \in JobRow
         /\ WithExpiry(r, late).status = r.status
         /\ WithExpiry(r, late).owner = r.owner
         /\ WithExpiry(r, late).gen = r.gen
         /\ WithExpiry(r, late).phase = r.phase
         /\ WithExpiry(r, late).result = r.result
         /\ WithExpiry(r, late).attempt = r.attempt
  BY Zenon DEF WithExpiry, JobRow

LEMMA EnqueuedRow ==
  ASSUME NEW phase \in DeliveryPhase
  PROVE  /\ Enqueued(phase) \in JobRow
         /\ Enqueued(phase).status = "QUEUED"
         /\ Enqueued(phase).phase = phase
         /\ Enqueued(phase).result = NoResult
         /\ Enqueued(phase).attempt = 0
         /\ Enqueued(phase).gen = 0
  BY AbsentTyped, StatusFact DEF Enqueued, AbsentRow, JobRow

LEMMA AttemptRow ==
  ASSUME NEW r \in JobRow
  PROVE  /\ WithAttempt(r) \in JobRow
         /\ WithAttempt(r).status = r.status
         /\ WithAttempt(r).owner = r.owner
         /\ WithAttempt(r).gen = r.gen
         /\ WithAttempt(r).phase = r.phase
         /\ WithAttempt(r).result = r.result
         /\ WithAttempt(r).attempt # 0
<1>1. r.attempts + 1 \in Nat /\ r.attempts + 1 # 0
  BY DEF JobRow
<1>2. WithAttempt(r).attempt = r.attempts + 1
  BY Zenon DEF WithAttempt, JobRow
<1>3. WithAttempt(r) \in JobRow
  BY <1>1, Zenon DEF WithAttempt, JobRow
<1> QED
  BY <1>1, <1>2, <1>3, Zenon DEF WithAttempt, JobRow

LEMMA DeliveringRow ==
  ASSUME NEW r \in JobRow
  PROVE  /\ Delivering(r) \in JobRow
         /\ Delivering(r).status = r.status
         /\ Delivering(r).owner = r.owner
         /\ Delivering(r).gen = r.gen
         /\ Delivering(r).phase = "HANDLER_DELIVERY_STARTED"
         /\ Delivering(r).result = r.result
         /\ Delivering(r).attempt = r.attempt
<1>1. r.arev + 1 \in Nat
  BY DEF JobRow
<1> QED
  BY <1>1, StatusFact, Zenon DEF Delivering, JobRow

LEMMA RecordedRow ==
  ASSUME NEW r \in JobRow, NEW result \in Result
  PROVE  /\ Recorded(r, result) \in JobRow
         /\ Recorded(r, result).status = r.status
         /\ Recorded(r, result).owner = r.owner
         /\ Recorded(r, result).gen = r.gen
         /\ Recorded(r, result).phase = "RESULT_RECORDED"
         /\ Recorded(r, result).result = result
         /\ Recorded(r, result).attempt = r.attempt
<1>1. r.arev + 1 \in Nat
  BY DEF JobRow
<1>2. result \in Result \cup {NoResult}
  OBVIOUS
<1> QED
  BY <1>1, <1>2, StatusFact, Zenon DEF Recorded, JobRow

LEMMA FinalizedRow ==
  ASSUME NEW r \in JobRow, NEW status \in JobStatus, NEW result \in Result,
         NEW retry \in 0 .. MaxRetries
  PROVE  LET n == Finalized(r, status, result, retry)
             again == status = "RETRY_WAIT"
         IN /\ n \in JobRow
            /\ n.status = status
            /\ n.owner = NoOwner
            /\ n.gen = r.gen
            /\ n.phase = IF again THEN "ATTEMPT_CREATED" ELSE "FINALIZED"
            /\ n.result = IF again THEN NoResult ELSE result
            /\ n.attempt = IF again THEN 0 ELSE r.attempt
<1> DEFINE again == status = "RETRY_WAIT"
           attempt == IF again THEN 0 ELSE r.attempt
           phase == IF again THEN "ATTEMPT_CREATED" ELSE "FINALIZED"
           stored == IF again THEN NoResult ELSE result
<1>1. r.arev + 1 \in Nat /\ attempt \in Nat
  BY DEF JobRow
<1>2. phase \in DeliveryPhase /\ stored \in Result \cup {NoResult}
  BY StatusFact
<1>3. Finalized(r, status, result, retry) \in JobRow
  BY <1>1, <1>2, OwnersFact, Zenon DEF Finalized, JobRow
<1> QED
  BY <1>3, Zenon DEF Finalized, JobRow

LEMMA FinishedRow ==
  ASSUME NEW r \in JobRow, NEW status \in JobStatus
  PROVE  /\ Finished(r, status) \in JobRow
         /\ Finished(r, status).status = status
         /\ Finished(r, status).owner = NoOwner
         /\ Finished(r, status).gen = r.gen
         /\ Finished(r, status).phase = "FINALIZED"
         /\ Finished(r, status).attempt = r.attempt
  BY StatusFact, OwnersFact, Zenon DEF Finished, JobRow

LEMMA CancelledRow ==
  ASSUME NEW r \in JobRow
  PROVE  /\ CancelRequested(r) \in JobRow
         /\ CancelRequested(r).status =
               IF r.status \in Waiting THEN "CANCELLED" ELSE r.status
         /\ CancelRequested(r).owner = r.owner
         /\ CancelRequested(r).gen = r.gen
         /\ CancelRequested(r).phase = r.phase
         /\ CancelRequested(r).result = r.result
         /\ CancelRequested(r).attempt = r.attempt
<1> DEFINE status == IF r.status \in Waiting THEN "CANCELLED" ELSE r.status
<1>1. status \in JobStatus
  BY StatusFact DEF JobRow
<1>2. CancelRequested(r) \in JobRow
  BY <1>1, Zenon DEF CancelRequested, JobRow
<1> QED
  BY <1>2, Zenon DEF CancelRequested, JobRow

LEMMA RequeuedRow ==
  ASSUME NEW r \in JobRow
  PROVE  /\ Requeued(r) \in JobRow
         /\ Requeued(r).status = "QUEUED"
         /\ Requeued(r).owner = NoOwner
         /\ Requeued(r).gen = r.gen
         /\ Requeued(r).phase = "ATTEMPT_CREATED"
         /\ Requeued(r).result = NoResult
         /\ Requeued(r).attempt = 0
<1>1. NoResult \in Result \cup {NoResult} /\ 0 \in Nat
  OBVIOUS
<1> QED
  BY <1>1, StatusFact, OwnersFact, Zenon DEF Requeued, JobRow

-----------------------------------------------------------------------------
(* The locals a worker goes on with.                                       *)

LEMMA GotoLocals ==
  ASSUME NEW me \in Locals, NEW pc \in PC
  PROVE  /\ Goto(me, pc) \in Locals
         /\ Goto(me, pc).pc = pc
         /\ Goto(me, pc).job = me.job
         /\ Goto(me, pc).claim = me.claim
         /\ Goto(me, pc).gen = me.gen
         /\ Goto(me, pc).phase = me.phase
         /\ Goto(me, pc).result = me.result
  BY Zenon DEF Goto, Locals

LEMMA GotoWithLocals ==
  ASSUME NEW me \in Locals, NEW pc \in PC, NEW result \in Result
  PROVE  LET n == GotoWith(me, pc, result)
         IN /\ n \in Locals
            /\ n.pc = pc
            /\ n.job = me.job
            /\ n.claim = me.claim
            /\ n.gen = me.gen
            /\ n.phase = me.phase
            /\ n.result = result
<1>1. result \in Result \cup {NoResult}
  OBVIOUS
<1> QED
  BY <1>1, Zenon DEF GotoWith, Locals

LEMMA ClaimedLocals ==
  ASSUME NEW j \in Jobs, NEW gen \in Nat
  PROVE  LET n == Claimed(j, gen)
         IN /\ n \in Locals
            /\ n.pc = FirstStep(j)
            /\ n.job = j
            /\ n.claim = gen
            /\ n.gen = gen
<1>1. FirstStep(j) \in PC
  BY DEF FirstStep, PC
<1> QED
  BY <1>1, IdleTyped DEF Claimed, IdleWorker, Locals

LEMMA ListedLocals ==
  ASSUME NEW me \in Locals, NEW seen \in [Stages -> JobStatus]
  PROVE  LET n == Listed(me, seen)
         IN /\ n \in Locals
            /\ n.pc = "resuming"
            /\ n.job = me.job
            /\ n.claim = me.claim
            /\ n.gen = me.gen
<1>1. "resuming" \in PC
  BY DEF PC
<1> QED
  BY <1>1, Zenon DEF Listed, Locals

LEMMA ExaminedLocals ==
  ASSUME NEW me \in Locals, NEW s \in Stages, NEW resumed \in BOOLEAN
  PROVE  LET n == Examined(me, s, resumed)
         IN /\ n \in Locals
            /\ n.pc = me.pc
            /\ n.job = me.job
            /\ n.claim = me.claim
            /\ n.gen = me.gen
<1>1. [me.seen EXCEPT ![s] = "ABSENT"] \in [Stages -> JobStatus]
  BY StatusFact DEF Locals
<1>2. (me.some \/ resumed) \in BOOLEAN
  BY DEF Locals
<1> QED
  BY <1>1, <1>2, Zenon DEF Examined, Locals

LEMMA VisitedLocals ==
  ASSUME NEW me \in Locals, NEW s \in Stages, NEW new \in BOOLEAN
  PROVE  LET n == Visited(me, s, new)
         IN /\ n \in Locals
            /\ n.pc = me.pc
            /\ n.job = me.job
            /\ n.claim = me.claim
            /\ n.gen = me.gen
<1>1. me.todo \ {s} \in SUBSET Stages
  BY DEF Locals
<1>2. (me.some \/ new) \in BOOLEAN
  BY DEF Locals
<1> QED
  BY <1>1, <1>2, Zenon DEF Visited, Locals

LEMMA AttemptedLocals ==
  ASSUME NEW me \in Locals, NEW r \in JobRow
  PROVE  LET n == Attempted(me, r)
         IN /\ n \in Locals
            /\ n.pc = "refresh"
            /\ n.job = me.job
            /\ n.claim = me.claim
            /\ n.gen = me.gen
<1>1. "refresh" \in PC /\ r.attempt \in Nat /\ r.arev \in Nat
  BY DEF PC, JobRow
<1> QED
  BY <1>1, Zenon DEF Attempted, Locals

LEMMA RefreshedLocals ==
  ASSUME NEW me \in Locals, NEW r \in JobRow
  PROVE  LET n == Refreshed(me, r)
         IN /\ n \in Locals
            /\ n.pc = "decide"
            /\ n.job = me.job
            /\ n.claim = me.claim
            /\ n.gen = r.gen
            /\ n.phase = r.phase
            /\ n.result = r.result
<1>1. /\ "decide" \in PC
      /\ r.gen \in Nat
      /\ r.phase \in DeliveryPhase
      /\ r.retry \in 0 .. MaxRetries
      /\ r.result \in Result \cup {NoResult}
  BY DEF PC, JobRow
<1>2. r.cancel \in BOOLEAN
  BY DEF JobRow
<1> QED
  BY <1>1, <1>2, Zenon DEF Refreshed, Locals

LEMMA ToFinalizeLocals ==
  ASSUME NEW me \in Locals, NEW arev \in Nat,
         NEW then \in {"none", "block", "advance"}, NEW result \in Result
  PROVE  LET n == ToFinalize(me, arev, then, result)
         IN /\ n \in Locals
            /\ n.pc = "finalize"
            /\ n.job = me.job
            /\ n.claim = me.claim
            /\ n.gen = me.gen
            /\ n.phase = me.phase
            /\ n.result = result
<1>1. "finalize" \in PC /\ result \in Result \cup {NoResult}
  BY DEF PC
<1> QED
  BY <1>1, Zenon DEF ToFinalize, Locals

LEMMA InHandlerLocals ==
  ASSUME NEW me \in Locals, NEW arev \in Nat
  PROVE  LET n == InHandler(me, arev)
         IN /\ n \in Locals
            /\ n.pc = "handler"
            /\ n.job = me.job
            /\ n.claim = me.claim
            /\ n.gen = me.gen
<1>1. "handler" \in PC
  BY DEF PC
<1> QED
  BY <1>1, Zenon DEF InHandler, Locals

LEMMA AfterFinalizeLocals ==
  ASSUME NEW s \in Stages, NEW then,
         NEW status \in JobStatus
  PROVE  LET n == AfterFinalize(s, then, status)
         IN /\ n \in Locals
            /\ n.pc \in {"idle", "setrun", "schedule"}
            /\ n.pc = "schedule" => n.job = s
            /\ n.claim = 0
<1>1. /\ Advancing(s) \in Locals
      /\ Advancing(s).pc = "schedule"
      /\ Advancing(s).job = s
      /\ Advancing(s).claim = 0
  BY IdleTyped DEF Advancing, IdleWorker, Locals, PC, Jobs
<1>2. ASSUME NEW target \in {"BLOCKED", "NEEDS_REVIEW", "CANCELLED", "FAILED"}
      PROVE  /\ SettingRun(target) \in Locals
             /\ SettingRun(target).pc = "setrun"
             /\ SettingRun(target).claim = 0
  <2>1. target \in RunStatus \ {"SUCCEEDED"} /\ "setrun" \in PC
    BY DEF RunStatus, PC
  <2> QED
    BY <2>1, IdleTyped DEF SettingRun, IdleWorker, Locals
<1>3. IdleWorker.pc = "idle" /\ IdleWorker.claim = 0
  BY DEF IdleWorker
<1> QED
  BY <1>1, <1>2, <1>3, IdleTyped DEF AfterFinalize

-----------------------------------------------------------------------------
(* From one row and one worker to the tables.                              *)

LEMMA UpdatedRows ==
  ASSUME RowsOK, NEW j \in Jobs, NEW r \in JobRow, Update(j, r),
         j \in Stages => ResultStored(r)
  PROVE  /\ RowsOK'
         /\ job'[j] = r
         /\ \A k \in Jobs : k # j => job'[k] = job[k]
<1>1. /\ job' \in [Jobs -> JobRow]
      /\ job'[j] = r
      /\ \A k \in Jobs : k # j => job'[k] = job[k]
  BY DEF Update, RowsOK
<1>2. \A s \in Stages : ResultStored(job'[s])
  BY <1>1 DEF RowsOK, Jobs
<1> QED
  BY <1>1, <1>2 DEF RowsOK

LEMMA KeptRows ==
  ASSUME RowsOK, UNCHANGED job
  PROVE  RowsOK' /\ \A j \in Jobs : StatusStep(j)
  BY DEF RowsOK, StatusStep

LEMMA ContinuedWorkers ==
  ASSUME WorkersOK, NEW w \in Workers, NEW n \in Locals, LocalsFit(n),
         Continue(w, n)
  PROVE  /\ WorkersOK'
         /\ worker'[w] = n
         /\ \A v \in Workers : v # w => worker'[v] = worker[v]
<1>1. /\ worker' \in [Workers -> Locals]
      /\ worker'[w] = n
      /\ \A v \in Workers : v # w => worker'[v] = worker[v]
  BY DEF Continue, WorkersOK
<1>2. \A v \in Workers : LocalsFit(worker'[v])
  BY <1>1 DEF WorkersOK
<1> QED
  BY <1>1, <1>2 DEF WorkersOK

LEMMA KeptWorkers ==
  ASSUME WorkersOK, UNCHANGED worker
  PROVE  WorkersOK'
  BY DEF WorkersOK

LEMMA IdleFits == IdleWorker \in Locals /\ LocalsFit(IdleWorker)
  BY IdleTyped
  DEF IdleWorker, LocalsFit, StagePC, CommandPC, ResultPC

\* A worker on its way to finalize_command_job, or to record_stage_result.
LEMMA FinishFits ==
  ASSUME NEW me \in Locals, me.job \in Commands,
         NEW result \in {"SUCCEEDED", "BLOCKED"}
  PROVE  LET n == GotoWith(me, "finish", result)
         IN  n \in Locals /\ LocalsFit(n)
<1> DEFINE n == GotoWith(me, "finish", result)
<1>1. "finish" \in PC /\ result \in Result
  BY DEF PC, Result
<1>2. n \in Locals /\ n.pc = "finish" /\ n.job = me.job /\ n.result = result
  BY <1>1, GotoWithLocals
<1> HIDE DEF n
<1>3. LocalsFit(n)
  BY <1>2 DEF LocalsFit, StagePC, CommandPC, ResultPC
<1> QED
  BY <1>2, <1>3 DEF n

LEMMA RecordFits ==
  ASSUME NEW me \in Locals, me.job \in Stages, NEW pc \in ResultPC,
         NEW result \in Result
  PROVE  LET n == GotoWith(me, pc, result)
         IN  n \in Locals /\ LocalsFit(n)
<1> DEFINE n == GotoWith(me, pc, result)
<1>1. pc \in PC
  BY DEF PC, ResultPC
<1>2. n \in Locals /\ n.pc = pc /\ n.job = me.job /\ n.result = result
  BY <1>1, GotoWithLocals
<1> HIDE DEF n
<1>3. LocalsFit(n)
  BY <1>2 DEF LocalsFit, StagePC, CommandPC, ResultPC
<1> QED
  BY <1>2, <1>3 DEF n

LEMMA KeptRun ==
  ASSUME UNCHANGED <<run, g6>>
  PROVE  RunStep
  BY DEF RunStep

\* A request other than SUCCEEDED never ends a cancellation and never makes a
\* run SUCCEEDED.
LEMMA SetRunStatusStep ==
  ASSUME run \in RunStatus, NEW status \in RunStatus \ {"SUCCEEDED"},
         NEW reactivate, run' = SetRunStatus(status, reactivate), UNCHANGED g6
  PROVE  RunStep /\ run' \in RunStatus
  BY DEF RunStep, SetRunStatus

-----------------------------------------------------------------------------
LEMMA InitTypeInv == Init => TypeInv
<1> SUFFICES ASSUME Init PROVE TypeInv
  OBVIOUS
<1>1. RowsOK
  BY AbsentTyped DEF Init, StoreInit, RowsOK, ResultStored, AbsentRow, Jobs
<1>2. WorkersOK
  BY IdleFits DEF Init, WorkersOK
<1>3. RestOK
  BY DEF Init, StoreInit, RestOK, RunStatus
<1> QED
  BY <1>1, <1>2, <1>3 DEF TypeInv

LEMMA PrepareStep ==
  ASSUME TypeInv, Prepare
  PROVE  StepOK
  BY KeptRows, KeptWorkers, KeptRun
  DEF Prepare, RegisterExecutionPlan, StepOK, TypeInv, RestOK, workerVars

LEMMA SubmitStep ==
  ASSUME TypeInv, NEW c \in Commands, SubmitCommand(c)
  PROVE  StepOK
<1> DEFINE r == Enqueued("NOT_STARTED")
<1>1. c \in Jobs /\ c \notin Stages
  BY JobsAssumption DEF Jobs
<1>2. Update(c, r) /\ job[c].status = "ABSENT"
  BY DEF SubmitCommand, EnqueueExecutionCommand
<1>3. r \in JobRow /\ r.status = "QUEUED"
  BY EnqueuedRow, StatusFact
<1> HIDE DEF r
<1>4. RowsOK' /\ \A j \in Jobs : StatusStep(j)
  BY <1>1, <1>2, <1>3, UpdatedRows DEF TypeInv, StatusStep
<1>5. WorkersOK' /\ RunStep /\ RestOK'
  BY KeptWorkers, KeptRun DEF SubmitCommand, workerVars, TypeInv, RestOK
<1> QED
  BY <1>4, <1>5 DEF StepOK, TypeInv

LEMMA ReviewStep ==
  ASSUME TypeInv, NEW s \in Stages, AcceptReview(s) \/ InvalidateReview(s)
  PROVE  StepOK
  BY KeptRows, KeptWorkers, KeptRun
  DEF AcceptReview, InvalidateReview, StepOK, TypeInv, RestOK, storeVars

LEMMA ExpireStep ==
  ASSUME TypeInv, NEW j \in Jobs, ExpireLease(j)
  PROVE  StepOK
<1> DEFINE r == WithExpiry(job[j], TRUE)
<1>1. Update(j, r) /\ job[j] \in JobRow
  BY DEF ExpireLease, LeaseExpires, TypeInv, RowsOK
<1>2. /\ r \in JobRow
      /\ r.status = job[j].status
      /\ r.attempt = job[j].attempt
      /\ r.phase = job[j].phase
      /\ r.result = job[j].result
  BY <1>1, ExpiryRow
<1> HIDE DEF r
<1>3. j \in Stages => ResultStored(r)
  BY <1>2 DEF TypeInv, RowsOK, ResultStored
<1>4. RowsOK' /\ \A k \in Jobs : StatusStep(k)
  BY <1>1, <1>2, <1>3, UpdatedRows DEF TypeInv, StatusStep
<1>5. WorkersOK' /\ RunStep /\ RestOK'
  BY KeptWorkers, KeptRun DEF ExpireLease, TypeInv, RestOK
<1> QED
  BY <1>4, <1>5 DEF StepOK, TypeInv

LEMMA LeaveStep ==
  ASSUME TypeInv, NEW w \in Workers, Crash(w) \/ Rejected(w)
  PROVE  StepOK
<1>1. WorkersOK'
  BY IdleFits, ContinuedWorkers DEF Crash, Rejected, TypeInv
<1>2. RowsOK' /\ \A j \in Jobs : StatusStep(j)
  BY KeptRows DEF Crash, Rejected, storeVars, TypeInv
<1>3. RunStep /\ RestOK'
  BY KeptRun DEF Crash, Rejected, storeVars, TypeInv, RestOK
<1> QED
  BY <1>1, <1>2, <1>3 DEF StepOK, TypeInv

\* Steps that change the locals of one worker and no row.
LEMMA LocalStep ==
  ASSUME TypeInv, NEW w \in Workers, NEW n \in Locals, LocalsFit(n),
         Continue(w, n), UNCHANGED job, RunStep, RestOK'
  PROVE  StepOK
  BY KeptRows, ContinuedWorkers DEF StepOK, TypeInv

\* Steps that change one row and the locals of one worker.
LEMMA RowStep ==
  ASSUME TypeInv, NEW w \in Workers, NEW n \in Locals, LocalsFit(n),
         Continue(w, n), NEW j \in Jobs, NEW r \in JobRow, Update(j, r),
         j \in Stages => ResultStored(r), job'[j] = r => StatusStep(j),
         RunStep, RestOK'
  PROVE  StepOK
<1>1. RowsOK' /\ \A k \in Jobs : StatusStep(k)
  BY UpdatedRows DEF TypeInv, StatusStep
<1> QED
  BY <1>1, ContinuedWorkers DEF StepOK, TypeInv

LEMMA ClaimStep ==
  ASSUME TypeInv, NEW w \in Workers, NEW j \in Jobs, Claim(w, j)
  PROVE  StepOK
<1> DEFINE r == Leased(job[j], WorkerId[w])
           n == Claimed(j, job[j].gen + 1)
<1>1. Update(j, r) /\ Continue(w, n) /\ Claimable(j)
  BY DEF Claim, ClaimNextJob
<1>2. job[j] \in JobRow /\ job[j].gen + 1 \in Nat
  BY DEF TypeInv, RowsOK, JobRow
<1>3. /\ r \in JobRow
      /\ r.status = "RUNNING"
      /\ r.attempt = job[j].attempt
      /\ r.phase = job[j].phase
      /\ r.result = job[j].result
  BY <1>2, OwnersFact, LeasedRow
<1>4. n \in Locals /\ n.pc = FirstStep(j) /\ n.job = j
  BY <1>2, ClaimedLocals
<1> HIDE DEF r, n
<1>5. LocalsFit(n)
  BY <1>4, JobsAssumption
  DEF LocalsFit, FirstStep, StagePC, CommandPC, ResultPC, Jobs, Commands
<1>6. j \in Stages => ResultStored(r)
  BY <1>3 DEF TypeInv, RowsOK, ResultStored
<1>7. job'[j] = r => StatusStep(j)
  BY <1>1, <1>3 DEF Claimable, StatusStep
<1>8. RunStep /\ RestOK'
  BY KeptRun DEF Claim, TypeInv, RestOK
<1> QED
  BY <1>1, <1>3, <1>4, <1>5, <1>6, <1>7, <1>8, RowStep

-----------------------------------------------------------------------------
(* The steps of commands.                                                  *)

LEMMA CancelStep ==
  ASSUME TypeInv, NEW w \in Workers, CancelCommand(w)
  PROVE  StepOK
<1> DEFINE n == GotoWith(worker[w], "finish", "SUCCEEDED")
<1>1. worker[w] \in Locals /\ worker[w].job \in Commands
  BY DEF CancelCommand, At, TypeInv, WorkersOK, LocalsFit, CommandPC
<1>2. n \in Locals /\ LocalsFit(n)
  BY <1>1, FinishFits
<1>3. Continue(w, n)
  BY DEF CancelCommand
<1> HIDE DEF n
<1>4. WorkersOK'
  BY <1>2, <1>3, ContinuedWorkers DEF TypeInv
<1>5. \A j \in Jobs : job'[j] = IF job[j].status \in Waiting \cup {"RUNNING"}
                                THEN CancelRequested(job[j]) ELSE job[j]
  BY DEF CancelCommand, RequestRunCancellation
<1>6. job' \in [Jobs -> JobRow]
  <2>1. \A j \in Jobs : CancelRequested(job[j]) \in JobRow
    BY CancelledRow DEF TypeInv, RowsOK
  <2> QED
    BY <2>1 DEF CancelCommand, RequestRunCancellation, TypeInv, RowsOK
<1>7. \A j \in Jobs : StatusStep(j) /\ (ResultStored(job[j]) => ResultStored(job'[j]))
  <2> SUFFICES ASSUME NEW j \in Jobs
               PROVE  StatusStep(j) /\ (ResultStored(job[j]) => ResultStored(job'[j]))
    OBVIOUS
  <2> job[j] \in JobRow
    BY DEF TypeInv, RowsOK
  <2>1. CASE job[j].status \in Waiting
    BY <2>1, <1>5, CancelledRow DEF StatusStep, ResultStored
  <2>2. CASE job[j].status \notin Waiting
    BY <2>2, <1>5, CancelledRow DEF StatusStep, ResultStored
  <2> QED
    BY <2>1, <2>2
<1>8. RowsOK'
  BY <1>6, <1>7 DEF TypeInv, RowsOK, Jobs
<1>9. RunStep /\ RestOK'
  BY DEF CancelCommand, RequestRunCancellation, RunStep, TypeInv, RestOK, RunStatus
<1> QED
  BY <1>4, <1>7, <1>8, <1>9 DEF StepOK, TypeInv

LEMMA StartResumeStep ==
  ASSUME TypeInv, NEW w \in Workers, StartResume(w)
  PROVE  StepOK
<1> DEFINE stop == GotoWith(worker[w], "finish", "BLOCKED")
           list == Goto(worker[w], "list")
<1>1. worker[w] \in Locals /\ worker[w].job \in Commands
  BY DEF StartResume, At, TypeInv, WorkersOK, LocalsFit, CommandPC
<1>2. Continue(w, stop) \/ Continue(w, list)
  BY DEF StartResume
<1>3. stop \in Locals /\ LocalsFit(stop)
  BY <1>1, FinishFits
<1>4. list \in Locals /\ LocalsFit(list)
  BY <1>1, GotoLocals DEF LocalsFit, StagePC, CommandPC, ResultPC, PC
<1> HIDE DEF stop, list
<1>5. RunStep /\ RestOK' /\ UNCHANGED job
  BY KeptRun DEF StartResume, storeVars, TypeInv, RestOK
<1> QED
  BY <1>2, <1>3, <1>4, <1>5, LocalStep

LEMMA ListJobsStep ==
  ASSUME TypeInv, NEW w \in Workers, ListJobs(w)
  PROVE  StepOK
<1> DEFINE seen == [s \in Stages |->
                      IF Resumable(s) /\ job[s].result # "UNKNOWN_SIDE_EFFECT"
                      THEN job[s].status ELSE "ABSENT"]
           list == Listed(worker[w], seen)
<1>1. worker[w] \in Locals /\ worker[w].job \in Commands
  BY DEF ListJobs, At, TypeInv, WorkersOK, LocalsFit, CommandPC
<1>2. seen \in [Stages -> JobStatus]
  BY StatusFact DEF TypeInv, RowsOK, JobRow, Jobs
<1>3. Continue(w, list)
  BY DEF ListJobs
<1>4. list \in Locals /\ LocalsFit(list)
  BY <1>1, <1>2, ListedLocals DEF LocalsFit, StagePC, CommandPC, ResultPC
<1> HIDE DEF list
<1>5. RunStep /\ RestOK' /\ UNCHANGED job
  BY KeptRun DEF ListJobs, storeVars, TypeInv, RestOK
<1> QED
  BY <1>3, <1>4, <1>5, LocalStep

LEMMA ResumeCandidateStep ==
  ASSUME TypeInv, NEW w \in Workers, NEW s \in Stages, ResumeCandidate(w, s)
  PROVE  StepOK
<1> DEFINE r == Requeued(job[s])
           resumed == Examined(worker[w], s, TRUE)
           passed == Examined(worker[w], s, FALSE)
<1>1. /\ worker[w] \in Locals
      /\ worker[w].job \in Commands
      /\ worker[w].pc = "resuming"
  BY DEF ResumeCandidate, At, TypeInv, WorkersOK, LocalsFit, CommandPC
<1>2. s \in Jobs /\ job[s] \in JobRow
  BY DEF TypeInv, RowsOK, Jobs
<1>3. resumed \in Locals /\ LocalsFit(resumed)
  BY <1>1, ExaminedLocals DEF LocalsFit, StagePC, CommandPC, ResultPC
<1>4. passed \in Locals /\ LocalsFit(passed)
  BY <1>1, ExaminedLocals DEF LocalsFit, StagePC, CommandPC, ResultPC
<1>5. RunStep /\ RestOK'
  BY KeptRun DEF ResumeCandidate, TypeInv, RestOK
<1>6. \/ Resumable(s) /\ Update(s, r) /\ Continue(w, resumed)
      \/ Continue(w, IdleWorker) /\ UNCHANGED job
      \/ Continue(w, passed) /\ UNCHANGED job
  BY DEF ResumeCandidate, ResumeJob
<1>7. /\ r \in JobRow
      /\ r.status = "QUEUED"
      /\ ResultStored(r)
  BY <1>2, RequeuedRow DEF ResultStored
<1> HIDE DEF r, resumed, passed
<1>8. CASE Resumable(s) /\ Update(s, r) /\ Continue(w, resumed)
  <2>1. job'[s] = r => StatusStep(s)
    BY <1>7, <1>8 DEF Resumable, StatusStep
  <2> QED
    BY <1>2, <1>3, <1>5, <1>7, <1>8, <2>1, RowStep
<1>9. CASE Continue(w, IdleWorker) /\ UNCHANGED job
  BY <1>5, <1>9, IdleFits, LocalStep
<1>10. CASE Continue(w, passed) /\ UNCHANGED job
  BY <1>4, <1>5, <1>10, LocalStep
<1> QED
  BY <1>6, <1>8, <1>9, <1>10

LEMMA EndResumeStep ==
  ASSUME TypeInv, NEW w \in Workers, EndResume(w)
  PROVE  StepOK
<1> DEFINE result == IF worker[w].some THEN "SUCCEEDED" ELSE "BLOCKED"
           n == GotoWith(worker[w], "finish", result)
<1>1. worker[w] \in Locals /\ worker[w].job \in Commands
  BY DEF EndResume, At, TypeInv, WorkersOK, LocalsFit, CommandPC
<1>2. result \in {"SUCCEEDED", "BLOCKED"}
  OBVIOUS
<1>3. Continue(w, n) /\ UNCHANGED job
  BY DEF EndResume
<1> HIDE DEF result
<1>4. n \in Locals /\ LocalsFit(n)
  BY <1>1, <1>2, FinishFits
<1> HIDE DEF n
<1>5. RunStep /\ run' \in RunStatus
  <2>1. "RUNNING" \in RunStatus \ {"SUCCEEDED"}
    BY DEF RunStatus
  <2>2. UNCHANGED g6 /\ (UNCHANGED run \/ run' = SetRunStatus("RUNNING", TRUE))
    BY DEF EndResume
  <2> QED
    BY <2>1, <2>2, KeptRun, SetRunStatusStep DEF TypeInv, RestOK
<1>6. RestOK'
  BY <1>5 DEF EndResume, TypeInv, RestOK
<1> QED
  BY <1>3, <1>4, <1>5, <1>6, LocalStep

LEMMA FinishCommandStep ==
  ASSUME TypeInv, NEW w \in Workers, FinishCommand(w)
  PROVE  StepOK
<1> DEFINE c == worker[w].job
           r == Finished(job[c], worker[w].result)
<1>1. /\ worker[w].job \in Commands
      /\ worker[w].result \in {"SUCCEEDED", "BLOCKED"}
  BY DEF FinishCommand, At, TypeInv, WorkersOK, LocalsFit, CommandPC
<1>2. c \in Jobs /\ c \notin Stages /\ job[c] \in JobRow
  BY <1>1, JobsAssumption DEF TypeInv, RowsOK, Jobs
<1>3. Continue(w, IdleWorker) /\ Update(c, r) /\ job[c].status = "RUNNING"
  BY DEF FinishCommand, FinalizeCommandJob, LeaseRow
<1>4. r \in JobRow /\ r.status = worker[w].result
  <2>1. worker[w].result \in JobStatus
    BY <1>1, StatusFact
  <2> QED
    BY <1>2, <2>1, FinishedRow
<1> HIDE DEF c, r
<1>5. job'[c] = r => StatusStep(c)
  BY <1>1, <1>2, <1>3, <1>4 DEF StatusStep
<1>6. RunStep /\ RestOK'
  BY KeptRun DEF FinishCommand, TypeInv, RestOK
<1> QED
  BY <1>2, <1>3, <1>4, <1>5, <1>6, IdleFits, RowStep

LEMMA ScheduleStageStep ==
  ASSUME TypeInv, NEW w \in Workers, NEW s \in Stages, ScheduleStage(w, s)
  PROVE  StepOK
<1> DEFINE new == DependenciesSucceeded(s) /\ job[s].status = "ABSENT"
           r == Enqueued("ATTEMPT_CREATED")
           n == Visited(worker[w], s, new)
<1>1. /\ worker[w] \in Locals
      /\ worker[w].job \in Submits \cup Stages
      /\ worker[w].pc = "schedule"
  BY DEF ScheduleStage, At, TypeInv, WorkersOK, LocalsFit
<1>2. n \in Locals /\ LocalsFit(n)
  <2>1. new \in BOOLEAN
    BY DEF DependenciesSucceeded
  <2> HIDE DEF new
  <2>2. n \in Locals /\ n.pc = "schedule" /\ n.job = worker[w].job
    BY <1>1, <2>1, VisitedLocals
  <2> HIDE DEF n
  <2> QED
    BY <1>1, <2>2 DEF LocalsFit, StagePC, CommandPC, ResultPC
<1>3. Continue(w, n) /\ ((new /\ Update(s, r)) \/ UNCHANGED job)
  BY DEF ScheduleStage, EnqueueStageJob
<1>4. r \in JobRow /\ r.status = "QUEUED" /\ ResultStored(r)
  BY EnqueuedRow, StatusFact DEF ResultStored
<1>5. new => job[s].status = "ABSENT" /\ DependenciesSucceeded(s)
  OBVIOUS
<1>6. RunStep /\ RestOK'
  BY KeptRun DEF ScheduleStage, TypeInv, RestOK
<1> HIDE DEF new, r, n
<1>7. CASE new /\ Update(s, r)
  <2>1. job'[s] = r => StatusStep(s)
    BY <1>4, <1>5, <1>7 DEF StatusStep
  <2>2. s \in Jobs
    BY DEF Jobs
  <2> QED
    BY <1>2, <1>3, <1>4, <1>6, <1>7, <2>1, <2>2, RowStep
<1>8. CASE UNCHANGED job
  BY <1>2, <1>3, <1>6, <1>8, LocalStep
<1> QED
  BY <1>3, <1>7, <1>8

LEMMA EndScheduleStep ==
  ASSUME TypeInv, NEW w \in Workers, EndSchedule(w)
  PROVE  StepOK
<1> DEFINE done == GotoWith(worker[w], "finish", "SUCCEEDED")
           stop == GotoWith(worker[w], "finish", "BLOCKED")
           next == Goto(worker[w], "complete")
<1>1. worker[w] \in Locals
  BY DEF TypeInv, WorkersOK
<1>2. /\ UNCHANGED <<g6, job>>
      /\ \/ worker[w].job \in Submits /\ Continue(w, done) /\ UNCHANGED run
         \/ /\ worker[w].job \in Submits
            /\ Continue(w, stop)
            /\ run' = SetRunStatus("BLOCKED", FALSE)
         \/ worker[w].job \in Stages /\ Continue(w, next) /\ UNCHANGED run
  BY DEF EndSchedule
<1>3. worker[w].job \in Submits =>
         /\ done \in Locals /\ LocalsFit(done)
         /\ stop \in Locals /\ LocalsFit(stop)
  BY <1>1, FinishFits DEF Commands
<1>4. worker[w].job \in Stages => next \in Locals /\ LocalsFit(next)
  <2>1. "complete" \in PC
    BY DEF PC
  <2>2. next \in Locals /\ next.pc = "complete" /\ next.job = worker[w].job
    BY <1>1, <2>1, GotoLocals
  <2> HIDE DEF next
  <2> QED
    BY <2>2 DEF LocalsFit, StagePC, CommandPC, ResultPC
<1> HIDE DEF done, stop, next
<1>5. RunStep /\ run' \in RunStatus
  <2>1. "BLOCKED" \in RunStatus \ {"SUCCEEDED"}
    BY DEF RunStatus
  <2> QED
    BY <1>2, <2>1, KeptRun, SetRunStatusStep DEF TypeInv, RestOK
<1>6. RestOK'
  BY <1>5 DEF EndSchedule, TypeInv, RestOK
<1> QED
  BY <1>2, <1>3, <1>4, <1>5, <1>6, LocalStep

-----------------------------------------------------------------------------
(* The steps of stages.                                                    *)

LEMMA EnsureAttemptStep ==
  ASSUME TypeInv, NEW w \in Workers, EnsureAttempt(w)
  PROVE  StepOK
<1> DEFINE s == worker[w].job
           r == WithAttempt(job[s])
           n == Attempted(worker[w], job'[s])
<1>1. worker[w] \in Locals /\ s \in Stages
  BY DEF EnsureAttempt, At, TypeInv, WorkersOK, LocalsFit, StagePC
<1>2. s \in Jobs /\ job[s] \in JobRow /\ ResultStored(job[s])
  BY <1>1 DEF TypeInv, RowsOK, Jobs
<1>3. Continue(w, n) /\ job[s].status = "RUNNING"
         /\ (UNCHANGED job \/ Update(s, r))
  BY DEF EnsureAttempt, EnsureStageAttempt, LeaseRow
<1>4. r \in JobRow /\ r.status = job[s].status /\ ResultStored(r)
  BY <1>2, AttemptRow DEF ResultStored
<1>5. RunStep /\ RestOK'
  <2>1. delivered' \in [Stages -> Nat]
    BY <1>1 DEF EnsureAttempt, TypeInv, RestOK
  <2> QED
    BY <2>1, KeptRun DEF EnsureAttempt, TypeInv, RestOK
<1>6. job'[s] \in JobRow => n \in Locals /\ LocalsFit(n)
  <2> SUFFICES ASSUME job'[s] \in JobRow PROVE n \in Locals /\ LocalsFit(n)
    OBVIOUS
  <2>1. n \in Locals /\ n.pc = "refresh" /\ n.job = s
    BY <1>1, AttemptedLocals
  <2> HIDE DEF n
  <2> QED
    BY <1>1, <2>1 DEF LocalsFit, StagePC, CommandPC, ResultPC
<1> HIDE DEF s, r, n
<1>7. CASE UNCHANGED job
  BY <1>2, <1>3, <1>5, <1>6, <1>7, LocalStep
<1>8. CASE Update(s, r)
  <2>1. job'[s] = r
    BY <1>2, <1>4, <1>8, UpdatedRows DEF TypeInv
  <2>2. StatusStep(s)
    BY <1>3, <1>4, <2>1 DEF StatusStep
  <2> QED
    BY <1>2, <1>3, <1>4, <1>5, <1>6, <1>8, <2>1, <2>2, RowStep
<1> QED
  BY <1>3, <1>7, <1>8

LEMMA RefreshJobStep ==
  ASSUME TypeInv, NEW w \in Workers, RefreshJob(w)
  PROVE  StepOK
<1> DEFINE s == worker[w].job
           n == Refreshed(worker[w], job[s])
<1>1. worker[w] \in Locals /\ s \in Stages
  BY DEF RefreshJob, At, TypeInv, WorkersOK, LocalsFit, StagePC
<1>2. job[s] \in JobRow /\ ResultStored(job[s])
  BY <1>1 DEF TypeInv, RowsOK, Jobs
<1>3. Continue(w, n) /\ UNCHANGED job
  BY DEF RefreshJob, storeVars
<1>4. n \in Locals /\ n.pc = "decide" /\ n.job = s /\ ResultStored(n)
  BY <1>1, <1>2, RefreshedLocals DEF ResultStored
<1> HIDE DEF n
<1>5. LocalsFit(n)
  BY <1>1, <1>4 DEF LocalsFit, StagePC, CommandPC, ResultPC
<1>6. RunStep /\ RestOK'
  BY KeptRun DEF RefreshJob, storeVars, TypeInv, RestOK
<1> QED
  BY <1>3, <1>4, <1>5, <1>6, LocalStep

LEMMA FinalizeFits ==
  ASSUME NEW me \in Locals, me.job \in Stages, NEW arev \in Nat,
         NEW then \in {"none", "block", "advance"}, NEW result \in Result
  PROVE  LET n == ToFinalize(me, arev, then, result)
         IN  n \in Locals /\ LocalsFit(n)
<1> DEFINE n == ToFinalize(me, arev, then, result)
<1>1. n \in Locals /\ n.pc = "finalize" /\ n.job = me.job /\ n.result = result
  BY ToFinalizeLocals
<1> HIDE DEF n
<1>2. LocalsFit(n)
  BY <1>1 DEF LocalsFit, StagePC, CommandPC, ResultPC
<1> QED
  BY <1>1, <1>2 DEF n

LEMMA StopStep ==
  ASSUME TypeInv, NEW w \in Workers, StopBeforeExecution(w)
  PROVE  StepOK
<1> DEFINE blocked == ~DependenciesSucceeded(worker[w].job)
           then == IF blocked THEN "block" ELSE "none"
           result == IF blocked THEN "BLOCKED" ELSE "CANCELLED"
           n == ToFinalize(worker[w], worker[w].arev, then, result)
<1>1. worker[w] \in Locals /\ worker[w].job \in Stages /\ worker[w].arev \in Nat
  BY DEF StopBeforeExecution, At, TypeInv, WorkersOK, LocalsFit, StagePC, Locals
<1>2. then \in {"none", "block", "advance"} /\ result \in Result
  BY DEF Result
<1>3. Continue(w, n) /\ UNCHANGED job
  BY DEF StopBeforeExecution, storeVars
<1> HIDE DEF then, result
<1>4. n \in Locals /\ LocalsFit(n)
  BY <1>1, <1>2, FinalizeFits
<1> HIDE DEF n
<1>5. RunStep /\ RestOK'
  BY KeptRun DEF StopBeforeExecution, storeVars, TypeInv, RestOK
<1> QED
  BY <1>3, <1>4, <1>5, LocalStep

LEMMA UseDurableResultStep ==
  ASSUME TypeInv, NEW w \in Workers, UseDurableResult(w)
  PROVE  StepOK
<1> DEFINE n == ToFinalize(worker[w], worker[w].arev, "advance", worker[w].result)
<1>1. worker[w] \in Locals /\ worker[w].job \in Stages /\ worker[w].arev \in Nat
  BY DEF UseDurableResult, Proceeds, At, TypeInv, WorkersOK, LocalsFit, StagePC,
         Locals
<1>2. worker[w].result \in Result
  BY DEF UseDurableResult, Proceeds, At, TypeInv, WorkersOK, LocalsFit,
         ResultStored
<1>3. Continue(w, n) /\ UNCHANGED job
  BY DEF UseDurableResult, storeVars
<1>4. n \in Locals /\ LocalsFit(n)
  BY <1>1, <1>2, FinalizeFits
<1> HIDE DEF n
<1>5. RunStep /\ RestOK'
  BY KeptRun DEF UseDurableResult, storeVars, TypeInv, RestOK
<1> QED
  BY <1>3, <1>4, <1>5, LocalStep

LEMMA ReviewCheckpointStep ==
  ASSUME TypeInv, NEW w \in Workers, ReviewCheckpoint(w)
  PROVE  StepOK
<1>1. worker[w] \in Locals /\ worker[w].job \in Stages
  BY DEF ReviewCheckpoint, Proceeds, At, TypeInv, WorkersOK, LocalsFit, StagePC
<1>2. PICK result \in {"SUCCEEDED", "NEEDS_REVIEW", "BLOCKED"} :
         Continue(w, GotoWith(worker[w], "record", result))
  BY DEF ReviewCheckpoint
<1> DEFINE n == GotoWith(worker[w], "record", result)
<1>3. n \in Locals /\ LocalsFit(n)
  <2>1. result \in Result /\ "record" \in ResultPC
    BY DEF Result, ResultPC
  <2> QED
    BY <1>1, <2>1, RecordFits
<1>4. Continue(w, n)
  BY <1>2
<1> HIDE DEF n
<1>5. RunStep /\ RestOK' /\ UNCHANGED job
  BY <1>1, KeptRun DEF ReviewCheckpoint, storeVars, TypeInv, RestOK
<1> QED
  BY <1>3, <1>4, <1>5, LocalStep

LEMMA UnknownOutcomeStep ==
  ASSUME TypeInv, NEW w \in Workers, RefuseReplay(w) \/ HandlerRaises(w)
  PROVE  StepOK
<1> DEFINE n == GotoWith(worker[w], "record", "UNKNOWN_SIDE_EFFECT")
<1>1. worker[w] \in Locals /\ worker[w].job \in Stages
  BY DEF RefuseReplay, HandlerRaises, Proceeds, At, TypeInv, WorkersOK,
         LocalsFit, StagePC
<1>2. n \in Locals /\ LocalsFit(n)
  <2>1. "UNKNOWN_SIDE_EFFECT" \in Result /\ "record" \in ResultPC
    BY DEF Result, Failures, ResultPC
  <2> QED
    BY <1>1, <2>1, RecordFits
<1>3. Continue(w, n) /\ UNCHANGED job
  BY DEF RefuseReplay, HandlerRaises, storeVars
<1> HIDE DEF n
<1>4. RunStep /\ RestOK'
  BY KeptRun DEF RefuseReplay, HandlerRaises, storeVars, TypeInv, RestOK
<1> QED
  BY <1>2, <1>3, <1>4, LocalStep

LEMMA BeginExecutionStep ==
  ASSUME TypeInv, NEW w \in Workers, BeginExecution(w)
  PROVE  StepOK
<1> DEFINE n == Goto(worker[w], "deliver")
<1>1. worker[w] \in Locals /\ worker[w].job \in Stages
  BY DEF BeginExecution, Proceeds, At, TypeInv, WorkersOK, LocalsFit, StagePC
<1>2. n \in Locals /\ n.pc = "deliver" /\ n.job = worker[w].job
  <2>1. "deliver" \in PC
    BY DEF PC
  <2> QED
    BY <1>1, <2>1, GotoLocals
<1>3. Continue(w, n) /\ UNCHANGED job
  BY DEF BeginExecution
<1> HIDE DEF n
<1>4. LocalsFit(n)
  BY <1>1, <1>2 DEF LocalsFit, StagePC, CommandPC, ResultPC
<1>5. RunStep /\ run' \in RunStatus
  <2>1. "RUNNING" \in RunStatus \ {"SUCCEEDED"}
    BY DEF RunStatus
  <2>2. UNCHANGED g6 /\ run' = SetRunStatus("RUNNING", FALSE)
    BY DEF BeginExecution
  <2> QED
    BY <2>1, <2>2, SetRunStatusStep DEF TypeInv, RestOK
<1>6. RestOK'
  BY <1>5 DEF BeginExecution, TypeInv, RestOK
<1> QED
  BY <1>2, <1>3, <1>4, <1>5, <1>6, LocalStep

\* The marker is set by the worker of the last claim; another that reads the
\* later generation only sets the expiry back.
LEMMA MarkedStep ==
  ASSUME TypeInv, NEW w \in Workers, DeliverHandler(w), worker[w].claim = worker[w].gen
  PROVE  StepOK
<1> DEFINE s == worker[w].job
           r == Delivering(job[s])
           n == InHandler(worker[w], job'[s].arev)
<1>1. worker[w] \in Locals /\ s \in Stages
  BY DEF DeliverHandler, At, TypeInv, WorkersOK, LocalsFit, StagePC
<1>2. s \in Jobs /\ job[s] \in JobRow
  BY <1>1 DEF TypeInv, RowsOK, Jobs
<1>3. Continue(w, n) /\ Update(s, r) /\ job[s].status = "RUNNING"
  BY DEF DeliverHandler, MarkHandlerDeliveryStarted, LeaseRow
<1>4. /\ r \in JobRow
      /\ r.status = job[s].status
      /\ ResultStored(r)
  BY <1>2, DeliveringRow DEF ResultStored
<1> HIDE DEF r
<1>5. job'[s] = r
  BY <1>2, <1>3, <1>4, UpdatedRows DEF TypeInv
<1>6. n \in Locals /\ n.pc = "handler" /\ n.job = s
  <2>1. job'[s].arev \in Nat
    BY <1>4, <1>5 DEF JobRow
  <2> QED
    BY <1>1, <2>1, InHandlerLocals
<1> HIDE DEF n
<1>7. LocalsFit(n)
  BY <1>1, <1>6 DEF LocalsFit, StagePC, CommandPC, ResultPC
<1>8. RunStep /\ RestOK'
  <2>1. delivered' \in [Stages -> Nat]
    BY <1>1 DEF DeliverHandler, TypeInv, RestOK
  <2> QED
    BY <2>1, KeptRun DEF DeliverHandler, TypeInv, RestOK
<1> HIDE DEF s
<1>9. StatusStep(s)
  BY <1>3, <1>4, <1>5 DEF StatusStep
<1> QED
  BY <1>2, <1>3, <1>4, <1>6, <1>7, <1>8, <1>9, RowStep

LEMMA RewoundStep ==
  ASSUME TypeInv, NEW w \in Workers, DeliverHandler(w), worker[w].claim # worker[w].gen
  PROVE  StepOK
<1> DEFINE s == worker[w].job
           r == WithExpiry(job[s], TRUE)
<1>1. s \in Stages
  BY DEF DeliverHandler, At, TypeInv, WorkersOK, LocalsFit, StagePC
<1>2. s \in Jobs /\ job[s] \in JobRow
  BY <1>1 DEF TypeInv, RowsOK, Jobs
<1>3. Continue(w, IdleWorker) /\ Update(s, r)
  BY DEF DeliverHandler
<1>4. /\ r \in JobRow
      /\ r.status = job[s].status
      /\ r.attempt = job[s].attempt
      /\ r.phase = job[s].phase
      /\ r.result = job[s].result
  BY <1>2, ExpiryRow
<1>5. RunStep /\ RestOK'
  BY KeptRun DEF DeliverHandler, TypeInv, RestOK
<1> HIDE DEF r
<1>6. ResultStored(r)
  BY <1>1, <1>4 DEF TypeInv, RowsOK, ResultStored
<1>7. job'[s] = r => StatusStep(s)
  BY <1>4 DEF StatusStep
<1> HIDE DEF s
<1> QED
  BY <1>2, <1>3, <1>4, <1>5, <1>6, <1>7, IdleFits, RowStep

LEMMA DeliverHandlerStep ==
  ASSUME TypeInv, NEW w \in Workers, DeliverHandler(w)
  PROVE  StepOK
  BY MarkedStep, RewoundStep

LEMMA HandlerReturnsStep ==
  ASSUME TypeInv, NEW w \in Workers, HandlerReturns(w)
  PROVE  StepOK
<1>1. worker[w] \in Locals /\ worker[w].job \in Stages
  BY DEF HandlerReturns, At, TypeInv, WorkersOK, LocalsFit, StagePC
<1>2. PICK result \in Result : Continue(w, GotoWith(worker[w], "returned", result))
  BY WorkerAssumption DEF HandlerReturns, Result
<1> DEFINE n == GotoWith(worker[w], "returned", result)
<1>3. n \in Locals /\ LocalsFit(n)
  <2>1. "returned" \in ResultPC
    BY DEF ResultPC
  <2> QED
    BY <1>1, <2>1, RecordFits
<1>4. Continue(w, n)
  BY <1>2
<1> HIDE DEF n
<1>5. g6' \in {g6, TRUE} /\ UNCHANGED <<run, planned, job>>
  BY DEF HandlerReturns, storeVars
<1>6. g6' \in BOOLEAN /\ (g6 => g6')
  BY <1>5 DEF TypeInv, RestOK
<1>7. RunStep
  BY <1>5, <1>6 DEF RunStep
<1>8. RestOK'
  BY <1>5, <1>6 DEF HandlerReturns, TypeInv, RestOK
<1> QED
  BY <1>3, <1>4, <1>5, <1>7, <1>8, LocalStep

LEMMA RenewLeaseStep ==
  ASSUME TypeInv, NEW w \in Workers, RenewLease(w)
  PROVE  StepOK
<1> DEFINE s == worker[w].job
           n == Goto(worker[w], "probe")
<1>1. worker[w] \in Locals /\ s \in Stages /\ worker[w].result \in Result
  BY DEF RenewLease, At, TypeInv, WorkersOK, LocalsFit, StagePC, ResultPC
<1>2. s \in Jobs /\ job[s] \in JobRow /\ ResultStored(job[s])
  BY <1>1 DEF TypeInv, RowsOK, Jobs
<1>3. job[s].expired \in BOOLEAN
  BY <1>2 DEF JobRow
<1>4. PICK late \in BOOLEAN : Update(s, WithExpiry(job[s], late))
  BY <1>3 DEF RenewLease, HeartbeatJob
<1> DEFINE r == WithExpiry(job[s], late)
<1>5. /\ r \in JobRow
      /\ r.status = job[s].status
      /\ r.attempt = job[s].attempt
      /\ ResultStored(r)
  BY <1>2, ExpiryRow DEF ResultStored
<1>6. Continue(w, n) /\ Update(s, r)
  BY <1>4 DEF RenewLease
<1>7. /\ n \in Locals
      /\ n.pc = "probe"
      /\ n.job = s
      /\ n.result = worker[w].result
  <2>1. "probe" \in PC
    BY DEF PC
  <2> QED
    BY <1>1, <2>1, GotoLocals
<1> HIDE DEF r, n
<1>8. LocalsFit(n)
  BY <1>1, <1>7 DEF LocalsFit, StagePC, CommandPC, ResultPC
<1>9. RunStep /\ RestOK'
  BY KeptRun DEF RenewLease, TypeInv, RestOK
<1> HIDE DEF s
<1>10. job'[s] = r => StatusStep(s)
  BY <1>5 DEF StatusStep
<1> QED
  BY <1>2, <1>5, <1>6, <1>7, <1>8, <1>9, <1>10, RowStep

LEMMA ProbeStep ==
  ASSUME TypeInv, NEW w \in Workers, ProbeCancellation(w)
  PROVE  StepOK
<1>1. /\ worker[w] \in Locals
      /\ worker[w].job \in Stages
      /\ worker[w].result \in Result
  BY DEF ProbeCancellation, At, TypeInv, WorkersOK, LocalsFit, StagePC, ResultPC
<1>2. PICK result \in {"CANCELLED", "TERMINAL", worker[w].result} :
         Continue(w, GotoWith(worker[w], "record", result))
  BY DEF ProbeCancellation
<1> DEFINE n == GotoWith(worker[w], "record", result)
<1>3. n \in Locals /\ LocalsFit(n)
  <2>1. result \in Result /\ "record" \in ResultPC
    BY <1>1 DEF Result, Failures, ResultPC
  <2> QED
    BY <1>1, <2>1, RecordFits
<1>4. Continue(w, n)
  BY <1>2
<1> HIDE DEF n
<1>5. RunStep /\ RestOK' /\ UNCHANGED job
  BY KeptRun DEF ProbeCancellation, storeVars, TypeInv, RestOK
<1> QED
  BY <1>3, <1>4, <1>5, LocalStep

LEMMA RecordResultStep ==
  ASSUME TypeInv, NEW w \in Workers, RecordResult(w)
  PROVE  StepOK
<1> DEFINE s == worker[w].job
           r == Recorded(job[s], worker[w].result)
           n == ToFinalize(worker[w], job'[s].arev, "advance", worker[w].result)
<1>1. worker[w] \in Locals /\ s \in Stages /\ worker[w].result \in Result
  BY DEF RecordResult, At, TypeInv, WorkersOK, LocalsFit, StagePC, ResultPC
<1>2. s \in Jobs /\ job[s] \in JobRow
  BY <1>1 DEF TypeInv, RowsOK, Jobs
<1>3. Continue(w, n) /\ Update(s, r) /\ job[s].status = "RUNNING"
  BY DEF RecordResult, RecordStageResult, LeaseRow
<1>4. /\ r \in JobRow
      /\ r.status = job[s].status
      /\ ResultStored(r)
  BY <1>1, <1>2, RecordedRow DEF ResultStored
<1> HIDE DEF r
<1>5. job'[s] = r
  BY <1>2, <1>3, <1>4, UpdatedRows DEF TypeInv
<1>6. n \in Locals /\ LocalsFit(n)
  <2>1. job'[s].arev \in Nat
    BY <1>4, <1>5 DEF JobRow
  <2> QED
    BY <1>1, <2>1, FinalizeFits
<1> HIDE DEF n
<1>7. RunStep /\ RestOK'
  BY KeptRun DEF RecordResult, TypeInv, RestOK
<1> HIDE DEF s
<1>8. StatusStep(s)
  BY <1>3, <1>4, <1>5 DEF StatusStep
<1> QED
  BY <1>2, <1>3, <1>4, <1>6, <1>7, <1>8, RowStep

LEMMA RequestedFact ==
  ASSUME NEW result \in Result, NEW retry \in 0 .. MaxRetries
  PROVE  /\ RequestedStatus(result, retry) \in
               {"SUCCEEDED", "NEEDS_REVIEW", "BLOCKED", "CANCELLED", "FAILED",
                "RETRY_WAIT"}
         /\ RequestedRetry(result, retry) \in 0 .. MaxRetries
  BY BoundsAssumption DEF RequestedStatus, RequestedRetry, Result, Failures

LEMMA FinalizeStageStep ==
  ASSUME TypeInv, NEW w \in Workers, FinalizeStage(w)
  PROVE  StepOK
<1> DEFINE s == worker[w].job
           result == worker[w].result
           requested == RequestedStatus(result, worker[w].retry)
           retry == RequestedRetry(result, worker[w].retry)
           status == EffectiveStatus(s, requested)
           r == Finalized(job[s], status, result, retry)
           n == AfterFinalize(s, worker[w].then, status)
<1>1. /\ s \in Stages
      /\ result \in Result
      /\ worker[w].retry \in 0 .. MaxRetries
  BY DEF FinalizeStage, At, TypeInv, WorkersOK, LocalsFit, StagePC, ResultPC,
         Locals
<1>2. s \in Jobs /\ job[s] \in JobRow
  BY <1>1 DEF TypeInv, RowsOK, Jobs
<1>3. Continue(w, n) /\ Update(s, r) /\ job[s].status = "RUNNING"
  BY DEF FinalizeStage, FinalizeStageJob, LeaseRow
<1>4. /\ requested \in {"SUCCEEDED", "NEEDS_REVIEW", "BLOCKED", "CANCELLED",
                        "FAILED", "RETRY_WAIT"}
      /\ retry \in 0 .. MaxRetries
  BY <1>1, RequestedFact
<1> HIDE DEF requested, retry
<1>5. /\ status \in {"SUCCEEDED", "NEEDS_REVIEW", "BLOCKED", "CANCELLED",
                     "FAILED", "RETRY_WAIT"}
      /\ run = "CANCELLED" => status \in {"CANCELLED", "FAILED"}
  BY <1>4 DEF EffectiveStatus
<1> HIDE DEF status
<1>6. status \in JobStatus
  BY <1>5, StatusFact
<1>7. /\ r \in JobRow
      /\ r.status = status
      /\ ResultStored(r)
  BY <1>1, <1>2, <1>4, <1>6, FinalizedRow DEF ResultStored
<1>8. n \in Locals /\ LocalsFit(n)
  <2>1. /\ n \in Locals
        /\ n.pc \in {"idle", "setrun", "schedule"}
        /\ n.pc = "schedule" => n.job = s
    BY <1>1, <1>6, AfterFinalizeLocals
  <2> HIDE DEF n
  <2> QED
    BY <1>1, <2>1 DEF LocalsFit, StagePC, CommandPC, ResultPC
<1>9. RunStep /\ RestOK'
  BY <1>1, KeptRun DEF FinalizeStage, TypeInv, RestOK
<1> HIDE DEF r, n, s
<1>10. job'[s] = r => StatusStep(s)
  BY <1>3, <1>5, <1>7 DEF StatusStep
<1> QED
  BY <1>2, <1>3, <1>7, <1>8, <1>9, <1>10, RowStep

LEMMA SetRunStep ==
  ASSUME TypeInv, NEW w \in Workers, SetRun(w)
  PROVE  StepOK
<1>1. worker[w].target \in RunStatus \ {"SUCCEEDED"}
  BY DEF TypeInv, WorkersOK, Locals
<1>2. RunStep /\ run' \in RunStatus
  BY <1>1, SetRunStatusStep DEF SetRun, TypeInv, RestOK
<1>3. RestOK' /\ UNCHANGED job /\ Continue(w, IdleWorker)
  BY <1>2 DEF SetRun, TypeInv, RestOK
<1> QED
  BY <1>2, <1>3, IdleFits, LocalStep

LEMMA CompleteRunStep ==
  ASSUME TypeInv, NEW w \in Workers, CompleteRun(w)
  PROVE  StepOK
<1>1. run' = CompletedRun /\ UNCHANGED g6
  BY DEF CompleteRun
<1>2. RunStep /\ run' \in RunStatus
  BY <1>1 DEF CompletedRun, SetRunStatus, RunStep, TypeInv, RestOK, RunStatus
<1>3. RestOK' /\ UNCHANGED job /\ Continue(w, IdleWorker)
  BY <1>2 DEF CompleteRun, TypeInv, RestOK
<1> QED
  BY <1>2, <1>3, IdleFits, LocalStep

-----------------------------------------------------------------------------
LEMMA NextStep ==
  ASSUME TypeInv, [Next]_vars
  PROVE  StepOK
<1>1. CASE Next
  <2>1. ASSUME Environment
        PROVE  StepOK
    BY <2>1, PrepareStep, SubmitStep, ReviewStep, ExpireStep, LeaveStep
    DEF Environment
  <2>2. ASSUME NEW w \in Workers, RunOnce(w)
        PROVE  StepOK
    <3>1. ASSUME CommandStep(w)
          PROVE  StepOK
      BY <3>1, CancelStep, StartResumeStep, ListJobsStep, ResumeCandidateStep,
         EndResumeStep, ScheduleStageStep, EndScheduleStep, FinishCommandStep DEF CommandStep
    <3>2. ASSUME StageStep(w)
          PROVE  StepOK
      BY <3>2, EnsureAttemptStep, RefreshJobStep, StopStep, UseDurableResultStep,
         ReviewCheckpointStep, UnknownOutcomeStep, BeginExecutionStep,
         DeliverHandlerStep, HandlerReturnsStep, RenewLeaseStep, ProbeStep,
         RecordResultStep, FinalizeStageStep, SetRunStep, CompleteRunStep
      DEF StageStep
    <3> QED
      BY <2>2, <3>1, <3>2, ClaimStep, LeaveStep DEF RunOnce
  <2> QED
    BY <1>1, <2>1, <2>2 DEF Next
<1>2. CASE UNCHANGED vars
  BY <1>2, KeptRows, KeptWorkers, KeptRun
  DEF vars, storeVars, workerVars, StepOK, TypeInv, RestOK
<1> QED
  BY <1>1, <1>2

LEMMA TypeInvariance == Spec => []TypeInv
<1>1. TypeInv /\ [Next]_vars => TypeInv'
  BY NextStep DEF StepOK
<1> QED
  BY <1>1, InitTypeInv, PTL DEF Spec

\* Every step of every worker and of the environment leaves the tables, the
\* locals of the workers and the histories well typed; in particular
\* retry_count never exceeds max_retries.
THEOREM TypeCorrect == Spec => []TypeOK
<1>1. TypeInv => TypeOK
  BY DEF TypeInv, TypeOK, StoreTypeOK, RowsOK, WorkersOK, RestOK
<1> QED
  BY <1>1, TypeInvariance, PTL

\* A SUCCEEDED or CANCELLED job keeps its status and its attempt, for every
\* plan, every number of workers and every sequence of commands: what the
\* status tests of claim_next_job, _lease_row and resume_job are for.
THEOREM TerminalJobs == Spec => TerminalJobsStay
<1>1. TypeInv /\ [Next]_vars =>
         [\A j \in Jobs :
             job[j].status \in {"SUCCEEDED", "CANCELLED"} =>
                /\ job'[j].status = job[j].status
                /\ job'[j].attempt = job[j].attempt]_vars
  BY NextStep DEF StepOK, StatusStep, Waiting
<1> QED
  BY <1>1, TypeInvariance, PTL DEF Spec, TerminalJobsStay

\* A stage job exists only after everything it depends on has SUCCEEDED; the
\* invariant is inductive because SUCCEEDED is never left.
THEOREM Prerequisites == Spec => []PrerequisitesHold
<1>1. Init => PrerequisitesHold
  BY DEF Init, StoreInit, PrerequisitesHold, AbsentRow, Jobs
<1>2. TypeInv /\ [Next]_vars /\ PrerequisitesHold => PrerequisitesHold'
  <2> SUFFICES ASSUME TypeInv, [Next]_vars, PrerequisitesHold,
                      NEW s \in Stages, job'[s].status # "ABSENT",
                      NEW d \in Deps[s]
               PROVE  job'[d].status = "SUCCEEDED"
    BY DEF PrerequisitesHold
  <2>1. s \in Jobs /\ d \in Jobs
    BY PlanAssumption DEF Jobs
  <2>2. StatusStep(s) /\ StatusStep(d)
    BY <2>1, NextStep DEF StepOK
  <2>3. job[d].status = "SUCCEEDED"
    BY <2>2 DEF StatusStep, PrerequisitesHold, DependenciesSucceeded, Waiting
  <2> QED
    BY <2>2, <2>3 DEF StatusStep, Waiting
<1> QED
  BY <1>1, <1>2, TypeInvariance, PTL DEF Spec

\* A SUCCEEDED run has its G6 evidence and every required stage SUCCEEDED, in
\* the step of _maybe_complete_run that made it so and ever after.
THEOREM RunSuccess == Spec => []RunSuccessIsEarned
<1>1. Init => RunSuccessIsEarned
  BY DEF Init, StoreInit, RunSuccessIsEarned
<1>2. TypeInv /\ [Next]_vars /\ RunSuccessIsEarned => RunSuccessIsEarned'
  <2> SUFFICES ASSUME TypeInv, [Next]_vars, RunSuccessIsEarned,
                      run' = "SUCCEEDED"
               PROVE  g6' /\ \A s \in Required : job'[s].status = "SUCCEEDED"
    BY DEF RunSuccessIsEarned
  <2>1. g6 /\ \A s \in Required : job[s].status = "SUCCEEDED"
    BY NextStep DEF StepOK, RunStep, RunSuccessIsEarned, MayComplete
  <2>2. g6'
    BY <2>1, NextStep DEF StepOK, RunStep
  <2>3. ASSUME NEW s \in Required PROVE job'[s].status = "SUCCEEDED"
    <3>1. s \in Jobs
      BY PlanAssumption DEF Jobs
    <3> QED
      BY <2>1, <3>1, NextStep DEF StepOK, StatusStep, Waiting
  <2> QED
    BY <2>2, <2>3
<1> QED
  BY <1>1, <1>2, TypeInvariance, PTL DEF Spec

\* A cancelled run stays cancelled and a stage its workers still hold ends
\* CANCELLED or FAILED: no interleaving of _set_run_status, _maybe_complete_run
\* and finalize_stage_job escapes request_run_cancellation.
THEOREM Cancellation == Spec => CancellationIsFinal
<1>1. TypeInv /\ [Next]_vars =>
         [run = "CANCELLED" =>
             /\ run' = "CANCELLED"
             /\ \A s \in Stages :
                   job[s].status = "RUNNING" =>
                      job'[s].status \in {"RUNNING", "CANCELLED", "FAILED"}]_vars
  BY NextStep DEF StepOK, StatusStep, RunStep, Waiting, Jobs
<1> QED
  BY <1>1, TypeInvariance, PTL DEF Spec, CancellationIsFinal

-----------------------------------------------------------------------------
(* JobWorker implements StageLifecycle.  StatusStep and RunStep say what    *)
(* one step may do to a row and to the run; what the refinement needs       *)
(* beyond that is how many rows a step touches, and that a step that        *)
(* touches the run touches no row, the cancellation excepted.               *)

\* One row at most changes, and the run does not.
RowShape ==
    /\ UNCHANGED run
    /\ \E j : \A k \in Jobs : k # j => job'[k] = job[k]

\* Only the run changes; it leaves SUCCEEDED for CANCELLED alone.
RunShape ==
    /\ UNCHANGED job
    /\ run = "SUCCEEDED" => run' \in {"SUCCEEDED", "CANCELLED"}

Shape == RowShape \/ RunShape \/ RequestRunCancellation

LEMMA UpdateShape ==
  ASSUME TypeInv, NEW j, NEW row, Update(j, row), UNCHANGED run
  PROVE  Shape
<1>1. \A k \in Jobs : k # j => job'[k] = job[k]
  BY DEF Update, TypeInv, RowsOK
<1> QED
  BY <1>1 DEF Shape, RowShape

LEMMA StillShape ==
  ASSUME UNCHANGED <<run, job>>
  PROVE  Shape
  BY DEF Shape, RunShape

LEMMA SetRunShape ==
  ASSUME NEW status, NEW reactivate, run' = SetRunStatus(status, reactivate), UNCHANGED job
  PROVE  Shape
  BY DEF Shape, RunShape, SetRunStatus

LEMMA EnvironmentShape ==
  ASSUME TypeInv, Environment
  PROVE  Shape
<1>1. ASSUME Prepare PROVE Shape
  BY <1>1, StillShape DEF Prepare
<1>2. ASSUME NEW c \in Commands, SubmitCommand(c) PROVE Shape
  BY <1>2, UpdateShape DEF SubmitCommand, EnqueueExecutionCommand
<1>3. ASSUME NEW s \in Stages, AcceptReview(s) \/ InvalidateReview(s) PROVE Shape
  BY <1>3, StillShape DEF AcceptReview, InvalidateReview, storeVars
<1>4. ASSUME NEW j \in Jobs, ExpireLease(j) PROVE Shape
  BY <1>4, UpdateShape DEF ExpireLease, LeaseExpires
<1>5. ASSUME NEW w \in Workers, Crash(w) PROVE Shape
  BY <1>5, StillShape DEF Crash, storeVars
<1> QED
  BY <1>1, <1>2, <1>3, <1>4, <1>5 DEF Environment

LEMMA CommandShape ==
  ASSUME TypeInv, NEW w \in Workers, CommandStep(w)
  PROVE  Shape
<1>1. ASSUME CancelCommand(w) PROVE Shape
  BY <1>1 DEF CancelCommand, Shape
<1>2. ASSUME StartResume(w) \/ ListJobs(w) PROVE Shape
  BY <1>2, StillShape DEF StartResume, ListJobs, storeVars
<1>3. ASSUME NEW s \in Stages, ResumeCandidate(w, s) PROVE Shape
  BY <1>3, StillShape, UpdateShape DEF ResumeCandidate, ResumeJob
<1>4. ASSUME EndResume(w) PROVE Shape
  BY <1>4, StillShape, SetRunShape DEF EndResume
<1>5. ASSUME NEW s \in Stages, ScheduleStage(w, s) PROVE Shape
  BY <1>5, StillShape, UpdateShape DEF ScheduleStage, EnqueueStageJob
<1>6. ASSUME EndSchedule(w) PROVE Shape
  BY <1>6, StillShape, SetRunShape DEF EndSchedule
<1>7. ASSUME FinishCommand(w) PROVE Shape
  BY <1>7, UpdateShape DEF FinishCommand, FinalizeCommandJob
<1> QED
  BY <1>1, <1>2, <1>3, <1>4, <1>5, <1>6, <1>7 DEF CommandStep

LEMMA StageShape ==
  ASSUME TypeInv, NEW w \in Workers, StageStep(w)
  PROVE  Shape
<1>1. ASSUME RefreshJob(w) \/ StopBeforeExecution(w) \/ UseDurableResult(w)
      PROVE Shape
  BY <1>1, StillShape DEF RefreshJob, StopBeforeExecution, UseDurableResult, storeVars
<1>2. ASSUME ReviewCheckpoint(w) \/ RefuseReplay(w) \/ HandlerReturns(w)
             \/ HandlerRaises(w) \/ ProbeCancellation(w)
      PROVE Shape
  BY <1>2, StillShape
  DEF ReviewCheckpoint, RefuseReplay, HandlerReturns, HandlerRaises, ProbeCancellation, storeVars
<1>3. ASSUME EnsureAttempt(w) PROVE Shape
  BY <1>3, StillShape, UpdateShape DEF EnsureAttempt, EnsureStageAttempt
<1>4. ASSUME BeginExecution(w) \/ SetRun(w) PROVE Shape
  BY <1>4, SetRunShape DEF BeginExecution, SetRun
<1>5. ASSUME DeliverHandler(w) PROVE Shape
  BY <1>5, UpdateShape DEF DeliverHandler, MarkHandlerDeliveryStarted
<1>6. ASSUME RenewLease(w) PROVE Shape
  BY <1>6, UpdateShape DEF RenewLease, HeartbeatJob
<1>7. ASSUME RecordResult(w) PROVE Shape
  BY <1>7, UpdateShape DEF RecordResult, RecordStageResult
<1>8. ASSUME FinalizeStage(w) PROVE Shape
  BY <1>8, UpdateShape DEF FinalizeStage, FinalizeStageJob
<1>9. ASSUME CompleteRun(w) PROVE Shape
  BY <1>9 DEF CompleteRun, CompletedRun, SetRunStatus, Shape, RunShape
<1> QED
  BY <1>1, <1>2, <1>3, <1>4, <1>5, <1>6, <1>7, <1>8, <1>9 DEF StageStep

LEMMA NextShape ==
  ASSUME TypeInv, [Next]_vars
  PROVE  Shape
<1>1. ASSUME NEW w \in Workers, NEW j \in Jobs, Claim(w, j) PROVE Shape
  BY <1>1, UpdateShape DEF Claim, ClaimNextJob
<1>2. ASSUME NEW w \in Workers, Rejected(w) PROVE Shape
  BY <1>2, StillShape DEF Rejected, storeVars
<1>3. ASSUME UNCHANGED vars PROVE Shape
  BY <1>3, StillShape DEF vars, storeVars
<1> QED
  BY <1>1, <1>2, <1>3, EnvironmentShape, CommandShape, StageShape DEF Next, RunOnce

-----------------------------------------------------------------------------
(* What each shape is to an observer.                                      *)

LifecycleStep == [Lifecycle!Next]_(Lifecycle!lifecycleVars)

\* The view of one stage changes, that of the others and of the run does not.
LEMMA OneMoves ==
  ASSUME NEW s \in Stages, UNCHANGED run,
         \A t \in Stages : t # s => job'[t].status = job[t].status
  PROVE  /\ OutcomeSeen' = OutcomeSeen
         /\ [t \in Stages |-> StageSeen(t)]' =
               [[t \in Stages |-> StageSeen(t)] EXCEPT ![s] = StageSeen(s)']
<1>1. \A t \in Stages : t # s => StageSeen(t)' = StageSeen(t)
  BY DEF StageSeen
<1>2. OutcomeSeen' = OutcomeSeen
  BY DEF OutcomeSeen
<1> QED
  BY <1>1, <1>2

LEMMA RowRefines ==
  ASSUME TypeInv, StepOK, RowShape
  PROVE  LifecycleStep
<1>1. PICK j : \A k \in Jobs : k # j => job'[k] = job[k]
  BY DEF RowShape
<1>2. CASE j \notin Stages
  <2>1. \A s \in Stages : StageSeen(s)' = StageSeen(s)
    BY <1>1, <1>2 DEF StageSeen, Jobs
  <2>2. OutcomeSeen' = OutcomeSeen
    BY DEF RowShape, OutcomeSeen
  <2> QED
    BY <2>1, <2>2 DEF LifecycleStep, Lifecycle!lifecycleVars
<1>3. CASE j \in Stages
  <2>1. /\ OutcomeSeen' = OutcomeSeen
        /\ [t \in Stages |-> StageSeen(t)]' =
              [[t \in Stages |-> StageSeen(t)] EXCEPT ![j] = StageSeen(j)']
    BY <1>1, <1>3, OneMoves DEF RowShape, Jobs
  <2>2. StatusStep(j) /\ job[j].status \in JobStatus /\ job'[j].status \in JobStatus
    BY <1>3 DEF StepOK, Jobs, TypeInv, RowsOK, JobRow
  <2>3. \/ StageSeen(j)' = StageSeen(j)
        \/ /\ StageSeen(j) = "pending" /\ StageSeen(j)' = "open"
           /\ \A d \in Deps[j] : StageSeen(d) = "done"
        \/ StageSeen(j) = "open" /\ StageSeen(j)' \in {"held", "done", "cancelled"}
        \/ StageSeen(j) = "held" /\ StageSeen(j)' \in {"open", "cancelled"}
    BY <1>3, <2>2 DEF StageSeen, StatusStep, JobStatus, Waiting, DependenciesSucceeded
  <2>4. CASE StageSeen(j)' = StageSeen(j)
    BY <2>1, <2>4 DEF LifecycleStep, Lifecycle!lifecycleVars
  <2>5. CASE /\ StageSeen(j) = "pending" /\ StageSeen(j)' = "open"
             /\ \A d \in Deps[j] : StageSeen(d) = "done"
    <3>1. Deps[j] \subseteq Stages
      BY <1>3, PlanAssumption
    <3>2. Lifecycle!Open(j)
      BY <1>3, <2>1, <2>5, <3>1 DEF Lifecycle!Open, Lifecycle!Move
    <3> QED
      BY <1>3, <3>2 DEF LifecycleStep, Lifecycle!Next
  <2>6. CASE StageSeen(j) = "open" /\ StageSeen(j)' \in {"held", "done"}
    <3>1. Lifecycle!Hold(j) \/ Lifecycle!Finish(j)
      BY <1>3, <2>1, <2>6 DEF Lifecycle!Hold, Lifecycle!Finish, Lifecycle!Move
    <3> QED
      BY <1>3, <3>1 DEF LifecycleStep, Lifecycle!Next
  <2>7. CASE StageSeen(j) = "held" /\ StageSeen(j)' = "open"
    <3>1. Lifecycle!Release(j)
      BY <1>3, <2>1, <2>7 DEF Lifecycle!Release, Lifecycle!Move
    <3> QED
      BY <1>3, <3>1 DEF LifecycleStep, Lifecycle!Next
  <2>8. CASE StageSeen(j) \in {"open", "held"} /\ StageSeen(j)' = "cancelled"
    <3>1. Lifecycle!Abandon({j})
      BY <1>3, <2>1, <2>8 DEF Lifecycle!Abandon
    <3> QED
      BY <1>3, <3>1 DEF LifecycleStep, Lifecycle!Next
  <2> QED
    BY <2>3, <2>4, <2>5, <2>6, <2>7, <2>8
<1> QED
  BY <1>2, <1>3

LEMMA RunRefines ==
  ASSUME TypeInv, StepOK, RunShape
  PROVE  LifecycleStep
<1>1. [s \in Stages |-> StageSeen(s)]' = [s \in Stages |-> StageSeen(s)]
  BY DEF RunShape, StageSeen
<1>2. \/ OutcomeSeen' = OutcomeSeen
      \/ OutcomeSeen' = "cancelled"
      \/ /\ OutcomeSeen = "unfinished" /\ OutcomeSeen' = "succeeded"
         /\ \A s \in Required : StageSeen(s) = "done"
  BY DEF RunShape, OutcomeSeen, StageSeen, StepOK, RunStep, MayComplete
<1>3. CASE OutcomeSeen' = OutcomeSeen
  BY <1>1, <1>3 DEF LifecycleStep, Lifecycle!lifecycleVars
<1>4. CASE OutcomeSeen' = "cancelled"
  <2>1. Lifecycle!Abandon({})
    BY <1>1, <1>4 DEF Lifecycle!Abandon
  <2> QED
    BY <2>1 DEF LifecycleStep, Lifecycle!Next
<1>5. CASE /\ OutcomeSeen = "unfinished" /\ OutcomeSeen' = "succeeded"
           /\ \A s \in Required : StageSeen(s) = "done"
  <2>1. Lifecycle!Succeed
    BY <1>1, <1>5, PlanAssumption DEF Lifecycle!Succeed
  <2> QED
    BY <2>1 DEF LifecycleStep, Lifecycle!Next
<1> QED
  BY <1>2, <1>3, <1>4, <1>5

\* Every waiting stage is given up in one step, and the run unless it is over.
LEMMA CancelRefines ==
  ASSUME TypeInv, RequestRunCancellation
  PROVE  LifecycleStep
<1> DEFINE gone == {s \in Stages : job[s].status \in Waiting}
<1>1. \A s \in gone : StageSeen(s) \in {"open", "held"}
  BY DEF StageSeen, Waiting
<1>2. ASSUME NEW s \in Stages
      PROVE  StageSeen(s)' = IF s \in gone THEN "cancelled" ELSE StageSeen(s)
  <2>1. s \in Jobs /\ job[s] \in JobRow
    BY DEF Jobs, TypeInv, RowsOK
  <2>2. job'[s].status = IF job[s].status \in Waiting THEN "CANCELLED" ELSE job[s].status
    <3>1. job'[s] = IF job[s].status \in Waiting \cup {"RUNNING"}
                    THEN CancelRequested(job[s]) ELSE job[s]
      BY <2>1 DEF RequestRunCancellation
    <3>2. CancelRequested(job[s]).status =
             IF job[s].status \in Waiting THEN "CANCELLED" ELSE job[s].status
      BY <2>1 DEF CancelRequested, JobRow
    <3> QED
      BY <3>1, <3>2 DEF Waiting
  <2>3. CASE job[s].status \in Waiting
    <3>1. job'[s].status = "CANCELLED" /\ s \in gone
      BY <2>2, <2>3
    <3>2. StageSeen(s)' = "cancelled"
      BY <3>1 DEF StageSeen
    <3> QED
      BY <3>1, <3>2
  <2>4. CASE job[s].status \notin Waiting
    <3>1. job'[s].status = job[s].status /\ s \notin gone
      BY <2>2, <2>4
    <3>2. StageSeen(s)' = StageSeen(s)
      BY <3>1 DEF StageSeen
    <3> QED
      BY <3>1, <3>2
  <2> QED
    BY <2>3, <2>4
<1>3. OutcomeSeen' \in {OutcomeSeen, "cancelled"}
  BY DEF RequestRunCancellation, OutcomeSeen
<1>4. Lifecycle!Abandon(gone)
  BY <1>1, <1>2, <1>3 DEF Lifecycle!Abandon
<1> QED
  BY <1>4 DEF LifecycleStep, Lifecycle!Next

-----------------------------------------------------------------------------
\* Whatever workers, crashes, reclaims and redelivered commands do to the rows
\* of the control store, an observer of the run sees the lifecycle of
\* StageLifecycle: every step of JobWorker (application/jobs.py) is one of its
\* steps or none, for every plan and any number of workers and commands.
THEOREM WorkersImplementLifecycle == Spec => ImplementsLifecycle
<1>1. Init => Lifecycle!Init
  BY DEF Init, StoreInit, Lifecycle!Init, StageSeen, OutcomeSeen, AbsentRow, Jobs
<1>2. TypeInv /\ [Next]_vars => LifecycleStep
  BY NextStep, NextShape, RowRefines, RunRefines, CancelRefines DEF Shape
<1> QED
  BY <1>1, <1>2, TypeInvariance, PTL
  DEF Spec, ImplementsLifecycle, Lifecycle!Spec, LifecycleStep

-----------------------------------------------------------------------------
(* The lease fence.                                                        *)


\* What the fence rests on; without it the re-read of the lease generation in
\* _run_stage lets a superseded worker through.
DistinctIds == \A v, w \in Workers : WorkerId[v] = WorkerId[w] => v = w

\* Where a worker may stand that has no claim, or no longer needs it.
Unclaimed(me) ==
    /\ me.pc \in {"idle", "setrun", "schedule", "complete"}
    /\ me.pc = "schedule" => me.job \in Stages

\* The row worker w works on, while it is RUNNING under w's id, carries the
\* generation of w's claim.
ClaimStands(w) ==
    \A j \in Jobs :
       worker[w].job = j /\ job[j].status = "RUNNING"
             /\ job[j].owner = WorkerId[w] =>
          job[j].gen = worker[w].claim

LeaseInv ==
    \A w \in Workers :
       IF worker[w].claim = 0 THEN Unclaimed(worker[w]) ELSE ClaimStands(w)

\* What one step does to the locals of the worker that takes it ...
Carries(me, n) ==
    \/ n.claim = 0 /\ Unclaimed(n)
    \/ n.claim = me.claim /\ n.job = me.job /\ me.claim # 0

\* ... and, unless it is a claim, to the leases.
LeaseKept(j) ==
    job'[j].status = "RUNNING" =>
       /\ job[j].status = "RUNNING"
       /\ job'[j].owner = job[j].owner
       /\ job'[j].gen = job[j].gen

LeftByHolder(j) ==
    job[j].status = "RUNNING" /\ job'[j].status # "RUNNING" =>
       \E w \in Workers : /\ worker[w].job = j
                          /\ worker[w].claim = job[j].gen
                          /\ worker'[w] # worker[w]

LeaseStepOK == LeaseInv' /\ \A j \in Jobs : LeftByHolder(j)

\* A worker that is not at one of the unclaimed places has its claim.
LEMMA HasClaim ==
  ASSUME LeaseInv, NEW w \in Workers, ~Unclaimed(worker[w])
  PROVE  worker[w].claim # 0
  BY DEF LeaseInv

LEMMA EditCarries ==
  ASSUME NEW me \in Locals, NEW pc, NEW result, me.claim # 0
  PROVE  Carries(me, Goto(me, pc)) /\ Carries(me, GotoWith(me, pc, result))
  BY DEF Carries, Goto, GotoWith, Locals

LEMMA IdleCarries ==
  ASSUME NEW me
  PROVE  Carries(me, IdleWorker)
  BY DEF Carries, Unclaimed, IdleWorker

\* The locals change, the leases do not.
LEMMA LeaseKeptStep ==
  ASSUME TypeInv, LeaseInv, NEW w \in Workers, NEW n, Continue(w, n),
         Carries(worker[w], n), \A j \in Jobs : LeaseKept(j)
  PROVE  LeaseInv'
<1>1. worker'[w] = n /\ \A v \in Workers : v # w => worker'[v] = worker[v]
  BY DEF Continue, TypeInv, WorkersOK
<1> SUFFICES ASSUME NEW v \in Workers
             PROVE  IF worker'[v].claim = 0 THEN Unclaimed(worker'[v])
                                            ELSE ClaimStands(v)'
  BY DEF LeaseInv, Unclaimed
<1>2. CASE worker'[v].claim = 0
  BY <1>1, <1>2 DEF LeaseInv, Carries
<1>3. CASE worker'[v].claim # 0
  <2>1. /\ worker[v].claim = worker'[v].claim
        /\ worker[v].job = worker'[v].job
        /\ ClaimStands(v)
    BY <1>1, <1>3 DEF LeaseInv, Carries
  <2> QED
    BY <1>3, <2>1 DEF ClaimStands, LeaseKept
<1> QED
  BY <1>2, <1>3

\* Steps that change no row.
LEMMA LocalLease ==
  ASSUME TypeInv, LeaseInv, NEW w \in Workers, NEW n, Continue(w, n),
         Carries(worker[w], n), UNCHANGED job
  PROVE  LeaseStepOK
<1>1. \A j \in Jobs : LeaseKept(j) /\ LeftByHolder(j)
  BY DEF LeaseKept, LeftByHolder
<1> QED
  BY <1>1, LeaseKeptStep DEF LeaseStepOK

\* Steps that write one row and leave its lease alone, or take it from the
\* worker that holds it.
LEMMA RowLease ==
  ASSUME TypeInv, LeaseInv, NEW w \in Workers, NEW n, Continue(w, n),
         Carries(worker[w], n), NEW j \in Jobs, NEW r, Update(j, r),
         r.status = "RUNNING" =>
            /\ job[j].status = "RUNNING"
            /\ r.owner = job[j].owner
            /\ r.gen = job[j].gen,
         job[j].status = "RUNNING" /\ r.status # "RUNNING" =>
            /\ worker[w].job = j
            /\ worker[w].claim # 0
            /\ job[j].owner = WorkerId[w]
            /\ n # worker[w]
  PROVE  LeaseStepOK
<1>1. job'[j] = r /\ \A k \in Jobs : k # j => job'[k] = job[k]
  BY DEF Update, TypeInv, RowsOK
<1>2. worker'[w] = n
  BY DEF Continue, TypeInv, WorkersOK
<1>3. \A k \in Jobs : LeaseKept(k)
  BY <1>1 DEF LeaseKept
<1>4. \A k \in Jobs : LeftByHolder(k)
  BY <1>1, <1>2 DEF LeftByHolder, LeaseInv, ClaimStands
<1> QED
  BY <1>3, <1>4, LeaseKeptStep DEF LeaseStepOK

-----------------------------------------------------------------------------
LEMMA InitLease == Init => LeaseInv
  BY DEF Init, LeaseInv, Unclaimed, IdleWorker

LEMMA EnvironmentLease ==
  ASSUME TypeInv, LeaseInv, Environment
  PROVE  LeaseStepOK
<1>1. ASSUME NEW w \in Workers, Crash(w)
      PROVE  LeaseStepOK
  BY <1>1, IdleCarries, LocalLease DEF Crash, storeVars
<1>2. ASSUME UNCHANGED worker,
             \A j \in Jobs : LeaseKept(j) /\ LeftByHolder(j)
      PROVE  LeaseStepOK
  BY <1>2 DEF LeaseStepOK, LeaseInv, Unclaimed, ClaimStands, LeaseKept
<1>3. ASSUME UNCHANGED <<worker, job>>
      PROVE  LeaseStepOK
  BY <1>2, <1>3 DEF LeaseKept, LeftByHolder
<1>4. ASSUME NEW c \in Commands, SubmitCommand(c)
      PROVE  LeaseStepOK
  <2> DEFINE r == Enqueued("NOT_STARTED")
  <2>1. c \in Jobs /\ Update(c, r) /\ job[c].status = "ABSENT" /\ UNCHANGED worker
    BY <1>4 DEF SubmitCommand, EnqueueExecutionCommand, workerVars, Jobs
  <2>2. r.status = "QUEUED"
    BY EnqueuedRow, StatusFact
  <2> HIDE DEF r
  <2>3. job'[c] = r /\ \A k \in Jobs : k # c => job'[k] = job[k]
    BY <2>1 DEF Update, TypeInv, RowsOK
  <2> QED
    BY <1>2, <2>1, <2>2, <2>3 DEF LeaseKept, LeftByHolder
<1>5. ASSUME NEW j \in Jobs, ExpireLease(j)
      PROVE  LeaseStepOK
  <2> DEFINE r == WithExpiry(job[j], TRUE)
  <2>1. Update(j, r) /\ UNCHANGED worker /\ job[j] \in JobRow
    BY <1>5 DEF ExpireLease, LeaseExpires, TypeInv, RowsOK
  <2>2. r.status = job[j].status /\ r.owner = job[j].owner /\ r.gen = job[j].gen
    BY <2>1, ExpiryRow
  <2> HIDE DEF r
  <2>3. job'[j] = r /\ \A k \in Jobs : k # j => job'[k] = job[k]
    BY <2>1 DEF Update, TypeInv, RowsOK
  <2> QED
    BY <1>2, <2>1, <2>2, <2>3 DEF LeaseKept, LeftByHolder
<1> QED
  BY <1>1, <1>3, <1>4, <1>5
  DEF Environment, Prepare, AcceptReview, InvalidateReview, storeVars, workerVars

\* The claim gives the row a new generation and its worker a claim on it; no
\* other worker presents this worker's id.
LEMMA ClaimLease ==
  ASSUME DistinctIds, TypeInv, LeaseInv, NEW w \in Workers, NEW j \in Jobs,
         Claim(w, j)
  PROVE  LeaseStepOK
<1> DEFINE r == Leased(job[j], WorkerId[w])
           n == Claimed(j, job[j].gen + 1)
<1>1. Update(j, r) /\ Continue(w, n)
  BY DEF Claim, ClaimNextJob
<1>2. job[j] \in JobRow /\ job[j].gen + 1 \in Nat /\ job[j].gen + 1 # 0
  BY DEF TypeInv, RowsOK, JobRow
<1>3. /\ r.status = "RUNNING"
      /\ r.owner = WorkerId[w]
      /\ r.gen = job[j].gen + 1
  BY <1>2, OwnersFact, LeasedRow
<1>4. n.job = j /\ n.claim = job[j].gen + 1
  BY <1>2, ClaimedLocals
<1> HIDE DEF r, n
<1>5. job'[j] = r /\ \A k \in Jobs : k # j => job'[k] = job[k]
  BY <1>1 DEF Update, TypeInv, RowsOK
<1>6. worker'[w] = n /\ \A v \in Workers : v # w => worker'[v] = worker[v]
  BY <1>1 DEF Continue, TypeInv, WorkersOK
<1>7. worker'[w].claim # 0 /\ ClaimStands(w)'
  BY <1>2, <1>3, <1>4, <1>5, <1>6 DEF ClaimStands
<1>8. ASSUME NEW v \in Workers, v # w
      PROVE  IF worker'[v].claim = 0 THEN Unclaimed(worker'[v])
                                     ELSE ClaimStands(v)'
  <2>1. worker'[v] = worker[v] /\ WorkerId[v] # WorkerId[w]
    BY <1>6, <1>8 DEF DistinctIds
  <2> QED
    BY <1>3, <1>5, <2>1 DEF LeaseInv, ClaimStands
<1>9. LeaseInv'
  BY <1>7, <1>8 DEF LeaseInv, Unclaimed
<1>10. \A k \in Jobs : LeftByHolder(k)
  BY <1>3, <1>5 DEF LeftByHolder
<1> QED
  BY <1>9, <1>10 DEF LeaseStepOK

-----------------------------------------------------------------------------
(* The steps of a worker that holds a claim.                               *)

\* Steps that move the worker to another place and change no row.
MoveOn(w) ==
    \/ StartResume(w) \/ EndResume(w) \/ BeginExecution(w)
    \/ ReviewCheckpoint(w) \/ RefuseReplay(w)
    \/ HandlerReturns(w) \/ HandlerRaises(w) \/ ProbeCancellation(w)

LEMMA MoveOnLease ==
  ASSUME TypeInv, LeaseInv, NEW w \in Workers, MoveOn(w)
  PROVE  LeaseStepOK
<1>1. worker[w] \in Locals
  BY DEF TypeInv, WorkersOK
<1>2. worker[w].claim # 0
  <2>1. ~Unclaimed(worker[w])
    BY DEF MoveOn, StartResume, EndResume, BeginExecution, ReviewCheckpoint,
           RefuseReplay, HandlerReturns, HandlerRaises, ProbeCancellation,
           Proceeds, At, Unclaimed
  <2> QED
    BY <2>1, HasClaim
<1>3. UNCHANGED job
  BY DEF MoveOn, StartResume, EndResume, BeginExecution, ReviewCheckpoint,
         RefuseReplay, HandlerReturns, HandlerRaises, ProbeCancellation,
         storeVars
<1>4. \E pc, result : \/ Continue(w, Goto(worker[w], pc))
                      \/ Continue(w, GotoWith(worker[w], pc, result))
  BY Zenon
  DEF MoveOn, StartResume, EndResume, BeginExecution, ReviewCheckpoint,
      RefuseReplay, HandlerReturns, HandlerRaises, ProbeCancellation
<1> QED
  BY <1>1, <1>2, <1>3, <1>4, EditCarries, LocalLease

LEMMA ListJobsLease ==
  ASSUME TypeInv, LeaseInv, NEW w \in Workers, ListJobs(w)
  PROVE  LeaseStepOK
<1>1. PICK seen : Continue(w, Listed(worker[w], seen)) /\ UNCHANGED job
  BY Zenon DEF ListJobs, storeVars
<1>2. worker[w] \in Locals /\ worker[w].claim # 0
  BY HasClaim DEF ListJobs, At, Unclaimed, TypeInv, WorkersOK
<1>3. Carries(worker[w], Listed(worker[w], seen))
  BY <1>2 DEF Carries, Listed, Locals
<1> QED
  BY <1>1, <1>3, LocalLease

LEMMA RefreshJobLease ==
  ASSUME TypeInv, LeaseInv, NEW w \in Workers, RefreshJob(w)
  PROVE  LeaseStepOK
<1> DEFINE n == Refreshed(worker[w], job[worker[w].job])
<1>1. Continue(w, n) /\ UNCHANGED job
  BY DEF RefreshJob, storeVars
<1>2. worker[w] \in Locals /\ worker[w].claim # 0
  BY HasClaim DEF RefreshJob, At, Unclaimed, TypeInv, WorkersOK
<1>3. Carries(worker[w], n)
  BY <1>2 DEF Carries, Refreshed, Locals
<1> QED
  BY <1>1, <1>3, LocalLease

LEMMA ToFinalizeLease ==
  ASSUME TypeInv, LeaseInv, NEW w \in Workers,
         StopBeforeExecution(w) \/ UseDurableResult(w)
  PROVE  LeaseStepOK
<1>1. PICK then, result :
         Continue(w, ToFinalize(worker[w], worker[w].arev, then, result))
  BY Zenon DEF StopBeforeExecution, UseDurableResult
<1>2. worker[w] \in Locals /\ worker[w].claim # 0 /\ UNCHANGED job
  BY HasClaim DEF StopBeforeExecution, UseDurableResult, Proceeds, At,
                  Unclaimed, TypeInv, WorkersOK, storeVars
<1>3. Carries(worker[w], ToFinalize(worker[w], worker[w].arev, then, result))
  BY <1>2 DEF Carries, ToFinalize, Locals
<1> QED
  BY <1>1, <1>2, <1>3, LocalLease

\* Steps that end run_once without touching a row.
LEMMA LeaveLease ==
  ASSUME TypeInv, LeaseInv, NEW w \in Workers,
         Rejected(w) \/ SetRun(w) \/ CompleteRun(w)
  PROVE  LeaseStepOK
  BY IdleCarries, LocalLease DEF Rejected, SetRun, CompleteRun, storeVars

\* A cancellation leaves every lease in place: RUNNING rows are only marked.
LEMMA CancelLease ==
  ASSUME TypeInv, LeaseInv, NEW w \in Workers, CancelCommand(w)
  PROVE  LeaseStepOK
<1>1. Carries(worker[w], GotoWith(worker[w], "finish", "SUCCEEDED"))
  BY HasClaim, EditCarries DEF CancelCommand, At, Unclaimed, TypeInv, WorkersOK
<1>2. Continue(w, GotoWith(worker[w], "finish", "SUCCEEDED"))
  BY DEF CancelCommand
<1>3. ASSUME NEW j \in Jobs
      PROVE  LeaseKept(j) /\ LeftByHolder(j)
  <2>1. job[j] \in JobRow
    BY DEF TypeInv, RowsOK
  <2>2. job'[j] = IF job[j].status \in Waiting \cup {"RUNNING"}
                  THEN CancelRequested(job[j]) ELSE job[j]
    BY DEF CancelCommand, RequestRunCancellation
  <2>3. /\ CancelRequested(job[j]).status =
              IF job[j].status \in Waiting THEN "CANCELLED" ELSE job[j].status
        /\ CancelRequested(job[j]).owner = job[j].owner
        /\ CancelRequested(job[j]).gen = job[j].gen
    BY <2>1, CancelledRow
  <2> QED
    BY <2>2, <2>3 DEF LeaseKept, LeftByHolder, Waiting
<1> QED
  BY <1>1, <1>2, <1>3, LeaseKeptStep DEF LeaseStepOK

LEMMA ResumeCandidateLease ==
  ASSUME TypeInv, LeaseInv, NEW w \in Workers, NEW s \in Stages,
         ResumeCandidate(w, s)
  PROVE  LeaseStepOK
<1> DEFINE r == Requeued(job[s])
<1>1. worker[w] \in Locals /\ worker[w].claim # 0
  BY HasClaim DEF ResumeCandidate, At, Unclaimed, TypeInv, WorkersOK
<1>2. \A resumed \in BOOLEAN :
         Carries(worker[w], Examined(worker[w], s, resumed))
  BY <1>1 DEF Carries, Examined, Locals
<1>3. \/ /\ Resumable(s) /\ Update(s, r)
         /\ Continue(w, Examined(worker[w], s, TRUE))
      \/ Continue(w, IdleWorker) /\ UNCHANGED job
      \/ Continue(w, Examined(worker[w], s, FALSE)) /\ UNCHANGED job
  BY DEF ResumeCandidate, ResumeJob
<1>4. s \in Jobs /\ r.status = "QUEUED"
  BY RequeuedRow DEF TypeInv, RowsOK, Jobs
<1> HIDE DEF r
<1>5. Resumable(s) => job[s].status # "RUNNING"
  BY DEF Resumable
<1>6. CASE Resumable(s) /\ Update(s, r)
              /\ Continue(w, Examined(worker[w], s, TRUE))
  BY <1>2, <1>4, <1>5, <1>6, RowLease
<1>7. CASE UNCHANGED job
  BY <1>2, <1>3, <1>4, <1>6, <1>7, IdleCarries, LocalLease
<1> QED
  BY <1>3, <1>6, <1>7

LEMMA ScheduleStageLease ==
  ASSUME TypeInv, LeaseInv, NEW w \in Workers, NEW s \in Stages,
         ScheduleStage(w, s)
  PROVE  LeaseStepOK
<1> DEFINE new == DependenciesSucceeded(s) /\ job[s].status = "ABSENT"
           n == Visited(worker[w], s, new)
           r == Enqueued("ATTEMPT_CREATED")
<1>1. worker[w] \in Locals /\ worker[w].pc = "schedule"
  BY DEF ScheduleStage, At, TypeInv, WorkersOK
<1>2. n.claim = worker[w].claim /\ n.job = worker[w].job /\ n.pc = worker[w].pc
  BY <1>1 DEF Visited, Locals
<1>3. Continue(w, n)
         /\ ((job[s].status = "ABSENT" /\ Update(s, r)) \/ UNCHANGED job)
  BY DEF ScheduleStage, EnqueueStageJob
<1>4. s \in Jobs /\ r.status = "QUEUED"
  BY EnqueuedRow, StatusFact DEF Jobs
<1> HIDE DEF new, n, r
<1>5. Carries(worker[w], n)
  BY <1>1, <1>2 DEF Carries, LeaseInv, Unclaimed
<1>6. CASE job[s].status = "ABSENT" /\ Update(s, r)
  BY <1>3, <1>4, <1>5, <1>6, RowLease
<1>7. CASE UNCHANGED job
  BY <1>3, <1>5, <1>7, LocalLease
<1> QED
  BY <1>3, <1>6, <1>7

LEMMA EndScheduleLease ==
  ASSUME TypeInv, LeaseInv, NEW w \in Workers, EndSchedule(w)
  PROVE  LeaseStepOK
<1>1. worker[w] \in Locals /\ worker[w].pc = "schedule" /\ UNCHANGED job
  BY DEF EndSchedule, At, TypeInv, WorkersOK
<1>2. CASE worker[w].job \in Submits
  <2>1. worker[w].claim # 0 /\ worker[w].job \notin Stages
    BY <1>1, <1>2, HasClaim, JobsAssumption DEF Unclaimed, Commands
  <2>2. PICK result : Continue(w, GotoWith(worker[w], "finish", result))
    BY <2>1, Zenon DEF EndSchedule
  <2> QED
    BY <1>1, <2>1, <2>2, EditCarries, LocalLease
<1>3. CASE worker[w].job \notin Submits
  <2> DEFINE n == Goto(worker[w], "complete")
  <2>1. Continue(w, n)
    BY <1>3 DEF EndSchedule
  <2>2. n.pc = "complete" /\ n.claim = worker[w].claim /\ n.job = worker[w].job
    BY <1>1 DEF Goto, Locals
  <2> HIDE DEF n
  <2>3. Carries(worker[w], n)
    BY <2>2 DEF Carries, Unclaimed
  <2> QED
    BY <1>1, <2>1, <2>3, LocalLease
<1> QED
  BY <1>2, <1>3

-----------------------------------------------------------------------------
(* The transactions behind the fence.                                      *)

LEMMA EnsureAttemptLease ==
  ASSUME TypeInv, LeaseInv, NEW w \in Workers, EnsureAttempt(w)
  PROVE  LeaseStepOK
<1> DEFINE s == worker[w].job
           r == WithAttempt(job[s])
           n == Attempted(worker[w], job'[s])
<1>1. worker[w] \in Locals /\ s \in Stages
  BY DEF EnsureAttempt, At, TypeInv, WorkersOK, LocalsFit, StagePC
<1>2. worker[w].claim # 0
  BY HasClaim DEF EnsureAttempt, At, Unclaimed
<1>3. Carries(worker[w], n)
  BY <1>1, <1>2 DEF Carries, Attempted, Locals
<1>4. s \in Jobs /\ job[s] \in JobRow
  BY <1>1 DEF TypeInv, RowsOK, Jobs
<1>5. r.status = job[s].status /\ r.owner = job[s].owner /\ r.gen = job[s].gen
  BY <1>4, AttemptRow
<1>6. Continue(w, n) /\ (UNCHANGED job \/ Update(s, r))
  BY DEF EnsureAttempt, EnsureStageAttempt
<1> HIDE DEF s, r, n
<1> QED
  BY <1>3, <1>4, <1>5, <1>6, LocalLease, RowLease

LEMMA MarkedLease ==
  ASSUME TypeInv, LeaseInv, NEW w \in Workers, DeliverHandler(w), worker[w].claim = worker[w].gen
  PROVE  LeaseStepOK
<1> DEFINE s == worker[w].job
           r == Delivering(job[s])
           n == InHandler(worker[w], job'[s].arev)
<1>1. worker[w] \in Locals /\ s \in Stages
  BY DEF DeliverHandler, At, TypeInv, WorkersOK, LocalsFit, StagePC
<1>2. worker[w].claim # 0
  BY HasClaim DEF DeliverHandler, At, Unclaimed
<1>3. Carries(worker[w], n)
  BY <1>1, <1>2 DEF Carries, InHandler, Locals
<1>4. s \in Jobs /\ job[s] \in JobRow
  BY <1>1 DEF TypeInv, RowsOK, Jobs
<1>5. r.status = job[s].status /\ r.owner = job[s].owner /\ r.gen = job[s].gen
  BY <1>4, DeliveringRow
<1>6. Continue(w, n) /\ Update(s, r)
  BY DEF DeliverHandler, MarkHandlerDeliveryStarted
<1> HIDE DEF s, r, n
<1> QED
  BY <1>3, <1>4, <1>5, <1>6, RowLease

LEMMA RewoundLease ==
  ASSUME TypeInv, LeaseInv, NEW w \in Workers, DeliverHandler(w), worker[w].claim # worker[w].gen
  PROVE  LeaseStepOK
<1> DEFINE s == worker[w].job
           r == WithExpiry(job[s], TRUE)
<1>1. s \in Stages
  BY DEF DeliverHandler, At, TypeInv, WorkersOK, LocalsFit, StagePC
<1>2. s \in Jobs /\ job[s] \in JobRow
  BY <1>1 DEF TypeInv, RowsOK, Jobs
<1>3. r.status = job[s].status /\ r.owner = job[s].owner /\ r.gen = job[s].gen
  BY <1>2, ExpiryRow
<1>4. Continue(w, IdleWorker) /\ Update(s, r)
  BY DEF DeliverHandler
<1> HIDE DEF s, r
<1> QED
  BY <1>2, <1>3, <1>4, IdleCarries, RowLease

LEMMA DeliverHandlerLease ==
  ASSUME TypeInv, LeaseInv, NEW w \in Workers, DeliverHandler(w)
  PROVE  LeaseStepOK
  BY MarkedLease, RewoundLease

LEMMA RenewLeaseLease ==
  ASSUME TypeInv, LeaseInv, NEW w \in Workers, RenewLease(w)
  PROVE  LeaseStepOK
<1> DEFINE s == worker[w].job
           n == Goto(worker[w], "probe")
<1>1. worker[w] \in Locals /\ s \in Stages
  BY DEF RenewLease, At, TypeInv, WorkersOK, LocalsFit, StagePC
<1>2. Carries(worker[w], n)
  BY <1>1, HasClaim, EditCarries DEF RenewLease, At, Unclaimed
<1>3. s \in Jobs /\ job[s] \in JobRow
  BY <1>1 DEF TypeInv, RowsOK, Jobs
<1>4. job[s].expired \in BOOLEAN
  BY <1>3 DEF JobRow
<1>5. PICK late \in BOOLEAN : Update(s, WithExpiry(job[s], late))
  BY <1>4 DEF RenewLease, HeartbeatJob
<1> DEFINE r == WithExpiry(job[s], late)
<1>6. r.status = job[s].status /\ r.owner = job[s].owner /\ r.gen = job[s].gen
  BY <1>3, ExpiryRow
<1>7. Continue(w, n) /\ Update(s, r)
  BY <1>5 DEF RenewLease
<1> HIDE DEF s, r, n
<1> QED
  BY <1>2, <1>3, <1>6, <1>7, RowLease

LEMMA RecordResultLease ==
  ASSUME TypeInv, LeaseInv, NEW w \in Workers, RecordResult(w)
  PROVE  LeaseStepOK
<1> DEFINE s == worker[w].job
           r == Recorded(job[s], worker[w].result)
           n == ToFinalize(worker[w], job'[s].arev, "advance", worker[w].result)
<1>1. worker[w] \in Locals /\ s \in Stages /\ worker[w].result \in Result
  BY DEF RecordResult, At, TypeInv, WorkersOK, LocalsFit, StagePC, ResultPC
<1>2. worker[w].claim # 0
  BY HasClaim DEF RecordResult, At, Unclaimed
<1>3. Carries(worker[w], n)
  BY <1>1, <1>2 DEF Carries, ToFinalize, Locals
<1>4. s \in Jobs /\ job[s] \in JobRow
  BY <1>1 DEF TypeInv, RowsOK, Jobs
<1>5. r.status = job[s].status /\ r.owner = job[s].owner /\ r.gen = job[s].gen
  BY <1>1, <1>4, RecordedRow
<1>6. Continue(w, n) /\ Update(s, r)
  BY DEF RecordResult, RecordStageResult
<1> HIDE DEF s, r, n
<1> QED
  BY <1>3, <1>4, <1>5, <1>6, RowLease

\* The two steps that take a job out of RUNNING: their fence compares the
\* owner, and LeaseInv makes that the worker of the row's last claim.
LEMMA FinishCommandLease ==
  ASSUME TypeInv, LeaseInv, NEW w \in Workers, FinishCommand(w)
  PROVE  LeaseStepOK
<1> DEFINE c == worker[w].job
           r == Finished(job[c], worker[w].result)
<1>1. /\ worker[w].pc = "finish"
      /\ c \in Commands
      /\ worker[w].result \in {"SUCCEEDED", "BLOCKED"}
  BY DEF FinishCommand, At, TypeInv, WorkersOK, LocalsFit, CommandPC
<1>2. worker[w].claim # 0
  BY <1>1, HasClaim DEF Unclaimed
<1>3. c \in Jobs /\ job[c] \in JobRow
  BY <1>1 DEF TypeInv, RowsOK, Jobs
<1>4. r.status # "RUNNING"
  <2>1. worker[w].result \in JobStatus
    BY <1>1, StatusFact
  <2> QED
    BY <1>1, <1>3, <2>1, FinishedRow
<1>5. Continue(w, IdleWorker) /\ Update(c, r) /\ job[c].owner = WorkerId[w]
  BY DEF FinishCommand, FinalizeCommandJob, LeaseRow
<1>6. IdleWorker # worker[w] /\ Carries(worker[w], IdleWorker)
  <2>1. IdleWorker.pc = "idle"
    BY DEF IdleWorker
  <2> QED
    BY <1>1, <2>1, IdleCarries
<1>7. worker[w].job = c
  OBVIOUS
<1> HIDE DEF c, r
<1> QED
  BY <1>2, <1>3, <1>4, <1>5, <1>6, <1>7, RowLease

LEMMA FinalizeStageLease ==
  ASSUME TypeInv, LeaseInv, NEW w \in Workers, FinalizeStage(w)
  PROVE  LeaseStepOK
<1> DEFINE s == worker[w].job
           result == worker[w].result
           requested == RequestedStatus(result, worker[w].retry)
           retry == RequestedRetry(result, worker[w].retry)
           status == EffectiveStatus(s, requested)
           r == Finalized(job[s], status, result, retry)
           n == AfterFinalize(s, worker[w].then, status)
<1>1. /\ worker[w].pc = "finalize"
      /\ s \in Stages
      /\ result \in Result
      /\ worker[w].retry \in 0 .. MaxRetries
  BY DEF FinalizeStage, At, TypeInv, WorkersOK, LocalsFit, StagePC, ResultPC,
         Locals
<1>2. worker[w].claim # 0 /\ worker[w].job = s
  BY <1>1, HasClaim DEF Unclaimed
<1>3. s \in Jobs /\ job[s] \in JobRow
  BY <1>1 DEF TypeInv, RowsOK, Jobs
<1>4. Continue(w, n) /\ Update(s, r) /\ job[s].owner = WorkerId[w]
  BY DEF FinalizeStage, FinalizeStageJob, LeaseRow
<1>5. /\ requested \in {"SUCCEEDED", "NEEDS_REVIEW", "BLOCKED", "CANCELLED",
                        "FAILED", "RETRY_WAIT"}
      /\ retry \in 0 .. MaxRetries
  BY <1>1, RequestedFact
<1> HIDE DEF requested, retry
<1>6. status \in JobStatus /\ status # "RUNNING"
  BY <1>5, StatusFact DEF EffectiveStatus
<1> HIDE DEF status
<1>7. r.status # "RUNNING"
  BY <1>1, <1>3, <1>5, <1>6, FinalizedRow
<1>8. /\ n.pc \in {"idle", "setrun", "schedule"}
      /\ n.pc = "schedule" => n.job = s
      /\ n.claim = 0
  BY <1>1, <1>6, AfterFinalizeLocals
<1> HIDE DEF r, n
<1>9. n # worker[w] /\ Carries(worker[w], n)
  BY <1>1, <1>8 DEF Carries, Unclaimed
<1> HIDE DEF s
<1> QED
  BY <1>2, <1>3, <1>4, <1>7, <1>9, RowLease

-----------------------------------------------------------------------------
LEMMA NextLease ==
  ASSUME DistinctIds, TypeInv, LeaseInv, [Next]_vars
  PROVE  LeaseStepOK
<1>1. ASSUME NEW w \in Workers, RunOnce(w)
      PROVE  LeaseStepOK
  <2>1. ASSUME CommandStep(w)
        PROVE  LeaseStepOK
    BY <2>1, CancelLease, MoveOnLease, ListJobsLease, ResumeCandidateLease,
       ScheduleStageLease, EndScheduleLease, FinishCommandLease
    DEF CommandStep, MoveOn
  <2>2. ASSUME StageStep(w)
        PROVE  LeaseStepOK
    BY <2>2, EnsureAttemptLease, RefreshJobLease, ToFinalizeLease, MoveOnLease,
       DeliverHandlerLease, RenewLeaseLease, RecordResultLease,
       FinalizeStageLease, LeaveLease
    DEF StageStep, MoveOn
  <2> QED
    BY <1>1, <2>1, <2>2, ClaimLease, LeaveLease DEF RunOnce
<1>2. CASE UNCHANGED vars
  BY <1>2 DEF vars, storeVars, workerVars, LeaseStepOK, LeaseInv, Unclaimed,
              ClaimStands, LeftByHolder
<1> QED
  BY <1>1, <1>2, EnvironmentLease DEF Next

\* A job leaves RUNNING only by a step of the worker that made its last claim,
\* for every plan and any number of workers, crashes and expiries, provided no
\* two workers share a worker_id: _lease_row compares owner and generation,
\* and the generation a worker re-reads in _run_stage is its own claim's
\* whenever the owner is still itself.
THEOREM StaleWorkers ==
  ASSUME DistinctIds
  PROVE  Spec => StaleWorkerCannotFinalize
<1>1. TypeInv /\ LeaseInv /\ [Next]_vars => LeaseInv'
  BY NextLease DEF LeaseStepOK
<1>2. TypeInv /\ LeaseInv /\ [Next]_vars =>
         [\A j \in Jobs :
             job[j].status = "RUNNING" /\ job'[j].status # "RUNNING" =>
                \E w \in Workers : /\ worker[w].job = j
                                   /\ worker[w].claim = job[j].gen
                                   /\ worker'[w] # worker[w]]_vars
  BY NextLease DEF LeaseStepOK, LeftByHolder
<1>3. Init => LeaseInv
  BY InitLease
<1> QED
  BY <1>1, <1>2, <1>3, TypeInvariance, PTL DEF Spec, StaleWorkerCannotFinalize

-----------------------------------------------------------------------------
(* The delivery protocol.                                                  *)


\* Worker w is in run_once of a stage and the row is still leased to its id.
Owns(w) ==
    LET me == worker[w] IN
    /\ me.claim # 0
    /\ me.job \in Stages
    /\ job[me.job].status = "RUNNING"
    /\ job[me.job].owner = WorkerId[w]

Fresh(row) == row.phase \in {"NOT_STARTED", "ATTEMPT_CREATED"}

PhaseFits(row) ==
    /\ row.phase \in {"HANDLER_DELIVERY_STARTED", "RESULT_RECORDED"} =>
          row.status = "RUNNING"
    /\ row.phase = "FINALIZED" =>
          row.status \notin {"QUEUED", "RUNNING", "RETRY_WAIT"}

\* d calls of the handler were made for the attempt of the row: none as long
\* as the delivery marker is not set.
RowFits(s, row, d) ==
    /\ PhaseFits(row)
    /\ s \notin ReplaySafe =>
          /\ d <= 1
          /\ row.attempt # 0 /\ Fresh(row) => d = 0

\* What a worker that owns a row remembers of it.
DeliveryFits(me, row) ==
    /\ me.pc = "decide" => me.phase = row.phase /\ me.result = row.result
    /\ me.pc = "deliver" => me.job \in ReplaySafe \/ Fresh(row)
    /\ row.phase = "RESULT_RECORDED" =>
          /\ me.pc \in {"attempt", "refresh", "decide", "finalize"}
          /\ me.pc = "finalize" => me.result \in {row.result, "CANCELLED"}

DeliveryInv ==
    /\ \A s \in Stages : RowFits(s, job[s], delivered[s])
    /\ \A w \in Workers : Owns(w) => DeliveryFits(worker[w], job[worker[w].job])

\* What one step may do to a row with a recorded result.
ResultStep(row, new) ==
    row.phase = "RESULT_RECORDED" =>
       \/ new.phase = "RESULT_RECORDED" /\ new.result = row.result
       \/ new.status = "RETRY_WAIT" /\ row.result = "TRANSIENT"
       \/ new.phase = "FINALIZED" /\ new.result \in {row.result, "CANCELLED"}

DeliveryStepOK ==
    DeliveryInv' /\ \A s \in Stages : ResultStep(job[s], job'[s])

LEMMA RowsKnown ==
  ASSUME TypeInv, NEW s \in Stages
  PROVE  s \in Jobs /\ job[s] \in JobRow /\ job[s].phase \in DeliveryPhase
  BY DEF TypeInv, RowsOK, Jobs, JobRow

\* Steps that change no row: only the worker that moves has to be looked at.
LEMMA LocalDelivery ==
  ASSUME TypeInv, DeliveryInv, NEW w \in Workers, NEW n, Continue(w, n),
         UNCHANGED <<job, delivered>>,
         n.claim # 0 => /\ worker[w].claim # 0
                        /\ n.job = worker[w].job
                        /\ Owns(w) => DeliveryFits(n, job[n.job])
  PROVE  DeliveryStepOK
<1>1. worker'[w] = n /\ \A v \in Workers : v # w => worker'[v] = worker[v]
  BY DEF Continue, TypeInv, WorkersOK
<1>2. ASSUME NEW v \in Workers, Owns(v)'
      PROVE  DeliveryFits(worker'[v], job'[worker'[v].job])
  <2>1. CASE v = w
    <3>1. Owns(w) /\ DeliveryFits(n, job[n.job])
      BY <1>1, <1>2, <2>1 DEF Owns
    <3> QED
      BY <1>1, <2>1, <3>1
  <2>2. CASE v # w
    <3>1. Owns(v)
      BY <1>1, <1>2, <2>2 DEF Owns
    <3> QED
      BY <1>1, <2>2, <3>1 DEF DeliveryInv
  <2> QED
    BY <2>1, <2>2
<1>3. \A s \in Stages : RowFits(s, job'[s], delivered'[s])
  BY DEF DeliveryInv
<1>4. \A s \in Stages : ResultStep(job[s], job'[s])
  BY DEF ResultStep
<1> QED
  BY <1>2, <1>3, <1>4
  DEF DeliveryStepOK, DeliveryInv, RowFits, PhaseFits, Fresh, DeliveryFits

\* Steps that write one row: the other workers own nothing that changes,
\* because the row that stays RUNNING is this worker's or keeps its delivery.
LEMMA RowDelivery ==
  ASSUME DistinctIds, TypeInv, DeliveryInv, NEW w \in Workers, NEW n,
         Continue(w, n), NEW j \in Jobs, NEW r, Update(j, r),
         r.status = "RUNNING" => r.owner = WorkerId[w],
         \A s \in Stages : s # j => delivered'[s] = delivered[s],
         j \in Stages => /\ RowFits(j, r, delivered'[j])
                         /\ ResultStep(job[j], r),
         n.claim # 0 /\ n.job \in Stages =>
            IF n.job = j THEN r.status = "RUNNING" => DeliveryFits(n, r)
                         ELSE DeliveryFits(n, job[n.job]) \/ ~Owns(w)',
         n.claim = 0 \/ n.job \in Jobs
  PROVE  DeliveryStepOK
<1>1. worker'[w] = n /\ \A v \in Workers : v # w => worker'[v] = worker[v]
  BY DEF Continue, TypeInv, WorkersOK
<1>2. job'[j] = r /\ \A k \in Jobs : k # j => job'[k] = job[k]
  BY DEF Update, TypeInv, RowsOK
<1>3. ASSUME NEW v \in Workers, Owns(v)'
      PROVE  DeliveryFits(worker'[v], job'[worker'[v].job])
  <2>1. CASE v = w
    BY <1>1, <1>2, <1>3, <2>1 DEF Owns
  <2>2. CASE v # w
    <3>1. WorkerId[v] # WorkerId[w] /\ worker'[v] = worker[v]
      BY <1>1, <2>2 DEF DistinctIds
    <3>2. worker[v].job \in Jobs /\ worker[v].job # j
      BY <1>2, <1>3, <3>1 DEF Owns, Jobs
    <3>3. job'[worker[v].job] = job[worker[v].job] /\ Owns(v)
      BY <1>2, <1>3, <3>1, <3>2 DEF Owns
    <3> QED
      BY <3>1, <3>3 DEF DeliveryInv
  <2> QED
    BY <2>1, <2>2
<1>4. \A s \in Stages : /\ RowFits(s, job'[s], delivered'[s])
                        /\ ResultStep(job[s], job'[s])
  <2> SUFFICES ASSUME NEW s \in Stages
               PROVE  RowFits(s, job'[s], delivered'[s]) /\ ResultStep(job[s], job'[s])
    OBVIOUS
  <2>1. CASE s = j
    BY <1>2, <2>1
  <2>2. CASE s # j
    BY <1>2, <2>2 DEF DeliveryInv, ResultStep, Jobs
  <2> QED
    BY <2>1, <2>2
<1> QED
  BY <1>3, <1>4
  DEF DeliveryStepOK, DeliveryInv, RowFits, PhaseFits, Fresh, DeliveryFits

\* Steps that touch neither the workers nor the delivery of a RUNNING row.
SameDelivery(row, new) ==
    /\ new.attempt = row.attempt
    /\ new.phase = row.phase
    /\ new.result = row.result
    /\ new.owner = row.owner
    /\ new.status = "RUNNING" <=> row.status = "RUNNING"
    /\ new.status \in {"QUEUED", "RETRY_WAIT"} => new.status = row.status

LEMMA SameRow ==
  ASSUME NEW s, NEW row, NEW new, NEW d, SameDelivery(row, new),
         RowFits(s, row, d)
  PROVE  RowFits(s, new, d) /\ ResultStep(row, new)
  BY DEF SameDelivery, RowFits, PhaseFits, Fresh, ResultStep

-----------------------------------------------------------------------------
LEMMA InitDelivery == Init => DeliveryInv
<1> SUFFICES ASSUME Init PROVE DeliveryInv
  OBVIOUS
<1>1. \A s \in Stages : job[s] = AbsentRow /\ delivered[s] = 0
  BY DEF Init, StoreInit, Jobs
<1>2. \A s \in Stages : RowFits(s, job[s], delivered[s])
  BY <1>1 DEF RowFits, PhaseFits, Fresh, AbsentRow
<1>3. \A w \in Workers : ~Owns(w)
  BY DEF Init, Owns, IdleWorker
<1> QED
  BY <1>2, <1>3 DEF DeliveryInv

\* Every row keeps its delivery, and the worker that moves, if any, leaves
\* the stages alone.
LEMMA FrameDelivery ==
  ASSUME TypeInv, DeliveryInv, UNCHANGED delivered,
         \A v \in Workers : \/ worker'[v] = worker[v]
                            \/ worker'[v].job \notin Stages,
         \A s \in Stages : SameDelivery(job[s], job'[s])
  PROVE  DeliveryStepOK
<1>1. ASSUME NEW v \in Workers, Owns(v)'
      PROVE  DeliveryFits(worker'[v], job'[worker'[v].job])
  <2> DEFINE s == worker[v].job
  <2>1. worker'[v] = worker[v] /\ s \in Stages
    BY <1>1 DEF Owns
  <2>2. SameDelivery(job[s], job'[s])
    BY <2>1
  <2>3. Owns(v)
    BY <1>1, <2>1, <2>2 DEF Owns, SameDelivery
  <2>4. DeliveryFits(worker[v], job[s])
    BY <2>3 DEF DeliveryInv
  <2> HIDE DEF s
  <2>5. DeliveryFits(worker[v], job'[s])
    BY <2>2, <2>4 DEF DeliveryFits, SameDelivery, Fresh
  <2> QED
    BY <2>1, <2>5 DEF s
<1>2. \A s \in Stages : /\ RowFits(s, job'[s], delivered'[s])
                        /\ ResultStep(job[s], job'[s])
  BY SameRow DEF DeliveryInv
<1> QED
  BY <1>1, <1>2
  DEF DeliveryStepOK, DeliveryInv, RowFits, PhaseFits, Fresh, DeliveryFits

LEMMA EnvironmentDelivery ==
  ASSUME TypeInv, DeliveryInv, Environment
  PROVE  DeliveryStepOK
<1>1. ASSUME NEW w \in Workers, Crash(w)
      PROVE  DeliveryStepOK
  <2>1. IdleWorker.claim = 0
    BY DEF IdleWorker
  <2> QED
    BY <1>1, <2>1, LocalDelivery DEF Crash, storeVars
<1>2. ASSUME UNCHANGED <<worker, job, delivered>>
      PROVE  DeliveryStepOK
  BY <1>2, FrameDelivery DEF SameDelivery
<1>3. ASSUME NEW c \in Commands, SubmitCommand(c)
      PROVE  DeliveryStepOK
  <2>1. \A s \in Stages : job'[s] = job[s]
    BY <1>3, JobsAssumption
    DEF SubmitCommand, EnqueueExecutionCommand, Update, TypeInv, RowsOK, Jobs
  <2> QED
    BY <1>3, <2>1, FrameDelivery DEF SubmitCommand, workerVars, SameDelivery
<1>4. ASSUME NEW j \in Jobs, ExpireLease(j)
      PROVE  DeliveryStepOK
  <2>1. Update(j, WithExpiry(job[j], TRUE)) /\ job[j] \in JobRow
    BY <1>4 DEF ExpireLease, LeaseExpires, TypeInv, RowsOK
  <2>2. SameDelivery(job[j], WithExpiry(job[j], TRUE))
    BY <2>1, ExpiryRow DEF SameDelivery
  <2>3. \A s \in Stages : SameDelivery(job[s], job'[s])
    BY <2>1, <2>2 DEF Update, TypeInv, RowsOK, Jobs, SameDelivery
  <2> QED
    BY <1>4, <2>3, FrameDelivery DEF ExpireLease
<1> QED
  BY <1>1, <1>2, <1>3, <1>4
  DEF Environment, Prepare, RegisterExecutionPlan, AcceptReview, InvalidateReview, storeVars, workerVars

LEMMA CancelDelivery ==
  ASSUME TypeInv, DeliveryInv, NEW w \in Workers, CancelCommand(w)
  PROVE  DeliveryStepOK
<1> DEFINE n == GotoWith(worker[w], "finish", "SUCCEEDED")
<1>1. worker[w] \in Locals /\ worker[w].job \notin Stages
  BY JobsAssumption
  DEF CancelCommand, At, TypeInv, WorkersOK, LocalsFit, CommandPC
<1>2. n.job = worker[w].job
  BY <1>1 DEF GotoWith, Locals
<1>3. Continue(w, n) /\ UNCHANGED delivered
  BY DEF CancelCommand
<1> HIDE DEF n
<1>4. \A v \in Workers : worker'[v] = worker[v] \/ worker'[v].job \notin Stages
  BY <1>1, <1>2, <1>3 DEF Continue, TypeInv, WorkersOK
<1>5. ASSUME NEW s \in Stages
      PROVE  SameDelivery(job[s], job'[s])
  <2>1. s \in Jobs /\ job[s] \in JobRow
    BY RowsKnown
  <2>2. job'[s] = IF job[s].status \in Waiting \cup {"RUNNING"}
                  THEN CancelRequested(job[s]) ELSE job[s]
    BY <2>1 DEF CancelCommand, RequestRunCancellation
  <2> QED
    BY <2>1, <2>2, CancelledRow DEF SameDelivery, Waiting
<1> QED
  BY <1>3, <1>4, <1>5, FrameDelivery

\* The claim hands a row over as it is; its worker starts at the attempt.
LEMMA ClaimDelivery ==
  ASSUME DistinctIds, TypeInv, DeliveryInv, NEW w \in Workers, NEW j \in Jobs,
         Claim(w, j)
  PROVE  DeliveryStepOK
<1> DEFINE r == Leased(job[j], WorkerId[w])
           n == Claimed(j, job[j].gen + 1)
<1>1. Update(j, r) /\ Continue(w, n) /\ Claimable(j) /\ UNCHANGED delivered
  BY DEF Claim, ClaimNextJob
<1>2. job[j] \in JobRow /\ job[j].gen + 1 \in Nat
  BY DEF TypeInv, RowsOK, JobRow
<1>3. /\ r.status = "RUNNING"
      /\ r.owner = WorkerId[w]
      /\ r.phase = job[j].phase
      /\ r.result = job[j].result
      /\ r.attempt = job[j].attempt
  BY <1>2, OwnersFact, LeasedRow
<1>4. n.job = j /\ n.pc = FirstStep(j)
  BY <1>2, ClaimedLocals
<1> HIDE DEF r, n
<1>5. j \in Stages => n.pc = "attempt"
  BY <1>4, JobsAssumption DEF FirstStep, Commands
<1>6. j \in Stages => RowFits(j, r, delivered'[j]) /\ ResultStep(job[j], r)
  BY <1>1, <1>3
  DEF DeliveryInv, RowFits, PhaseFits, Fresh, ResultStep, Claimable
<1>7. j \in Stages => DeliveryFits(n, r)
  BY <1>5 DEF DeliveryFits
<1> QED
  BY <1>1, <1>3, <1>4, <1>6, <1>7, RowDelivery

-----------------------------------------------------------------------------
(* The steps of commands leave the stages a worker owns alone.             *)

LEMMA CommandMoveDelivery ==
  ASSUME TypeInv, DeliveryInv, NEW w \in Workers,
         StartResume(w) \/ ListJobs(w) \/ EndResume(w)
  PROVE  DeliveryStepOK
<1>1. worker[w] \in Locals /\ worker[w].job \notin Stages
  BY JobsAssumption
  DEF StartResume, ListJobs, EndResume, At, TypeInv, WorkersOK, LocalsFit,
      CommandPC
<1>2. UNCHANGED <<job, delivered>>
  BY DEF StartResume, ListJobs, EndResume, storeVars
<1>3. PICK n : Continue(w, n) /\ n.job = worker[w].job
  <2>1. \A pc, result, seen :
           /\ Goto(worker[w], pc).job = worker[w].job
           /\ GotoWith(worker[w], pc, result).job = worker[w].job
           /\ Listed(worker[w], seen).job = worker[w].job
    BY <1>1 DEF Goto, GotoWith, Listed, Locals
  <2> QED
    BY <2>1, Zenon DEF StartResume, ListJobs, EndResume
<1>4. \A v \in Workers : worker'[v] = worker[v] \/ worker'[v].job \notin Stages
  BY <1>1, <1>3 DEF Continue, TypeInv, WorkersOK
<1> QED
  BY <1>2, <1>4, FrameDelivery DEF SameDelivery

LEMMA ResumeCandidateDelivery ==
  ASSUME DistinctIds, TypeInv, DeliveryInv, NEW w \in Workers,
         NEW s \in Stages, ResumeCandidate(w, s)
  PROVE  DeliveryStepOK
<1> DEFINE r == Requeued(job[s])
<1>1. worker[w] \in Locals /\ worker[w].job \in Jobs \ Stages
  BY JobsAssumption
  DEF ResumeCandidate, At, TypeInv, WorkersOK, LocalsFit, CommandPC, Jobs
<1>2. PICK n : /\ Continue(w, n)
               /\ n.job \notin Stages
               /\ n.job \in Jobs \/ n.claim = 0
               /\ UNCHANGED job \/ (Resumable(s) /\ Update(s, r))
  <2> DEFINE Some(n) == /\ Continue(w, n)
                        /\ n.job \notin Stages
                        /\ n.job \in Jobs \/ n.claim = 0
                        /\ UNCHANGED job \/ (Resumable(s) /\ Update(s, r))
  <2>1. /\ Examined(worker[w], s, TRUE).job = worker[w].job
        /\ Examined(worker[w], s, FALSE).job = worker[w].job
    BY <1>1 DEF Examined, Locals
  <2>2. IdleWorker.claim = 0 /\ IdleWorker.job \notin Stages
    BY WorkerAssumption DEF IdleWorker, Jobs
  <2>3. \/ Some(Examined(worker[w], s, TRUE))
        \/ Some(Examined(worker[w], s, FALSE))
        \/ Some(IdleWorker)
    BY <1>1, <2>1, <2>2 DEF ResumeCandidate, ResumeJob
  <2> QED
    BY <2>3, Zenon
<1>3. s \in Jobs /\ r.status = "QUEUED" /\ r.attempt = 0 /\ r.phase = "ATTEMPT_CREATED"
  BY RowsKnown, RequeuedRow
<1>4. UNCHANGED delivered
  BY DEF ResumeCandidate
<1> HIDE DEF r
<1>5. CASE UNCHANGED job
  <2>1. \A v \in Workers : \/ worker'[v] = worker[v]
                            \/ worker'[v].job \notin Stages
    BY <1>1, <1>2 DEF Continue, TypeInv, WorkersOK
  <2> QED
    BY <1>4, <1>5, <2>1, FrameDelivery DEF SameDelivery
<1>6. CASE Resumable(s) /\ Update(s, r)
  <2>1. RowFits(s, r, delivered'[s]) /\ ResultStep(job[s], r)
    BY <1>3, <1>4, <1>6
    DEF DeliveryInv, RowFits, PhaseFits, Fresh, ResultStep, Resumable
  <2> QED
    BY <1>1, <1>2, <1>3, <1>4, <1>6, <2>1, RowDelivery
<1> QED
  BY <1>2, <1>5, <1>6

LEMMA ScheduleStageDelivery ==
  ASSUME DistinctIds, TypeInv, DeliveryInv, NEW w \in Workers,
         NEW s \in Stages, ScheduleStage(w, s)
  PROVE  DeliveryStepOK
<1> DEFINE new == DependenciesSucceeded(s) /\ job[s].status = "ABSENT"
           n == Visited(worker[w], s, new)
           r == Enqueued("ATTEMPT_CREATED")
<1>1. /\ worker[w] \in Locals
      /\ worker[w].pc = "schedule"
      /\ worker[w].job \in Submits \cup Stages
  BY DEF ScheduleStage, At, TypeInv, WorkersOK, LocalsFit
<1>2. n.claim = worker[w].claim /\ n.job = worker[w].job /\ n.pc = worker[w].pc
  BY <1>1 DEF Visited, Locals
<1>3. /\ Continue(w, n)
      /\ (job[s].status = "ABSENT" /\ Update(s, r)) \/ UNCHANGED job
      /\ UNCHANGED delivered
  BY DEF ScheduleStage, EnqueueStageJob
<1>4. /\ s \in Jobs
      /\ r.status = "QUEUED"
      /\ r.attempt = 0
      /\ r.phase = "ATTEMPT_CREATED"
  BY RowsKnown, EnqueuedRow, StatusFact
<1> HIDE DEF new, n, r
<1>5. n.job \in Jobs
  BY <1>1, <1>2 DEF Jobs, Commands
<1>6. Owns(w) => DeliveryFits(n, job[n.job])
  BY <1>1, <1>2 DEF DeliveryInv, DeliveryFits
<1>7. CASE UNCHANGED job
  BY <1>2, <1>3, <1>6, <1>7, LocalDelivery
<1>8. CASE job[s].status = "ABSENT" /\ Update(s, r)
  <2>1. RowFits(s, r, delivered'[s]) /\ ResultStep(job[s], r)
    BY <1>3, <1>4, <1>8
    DEF DeliveryInv, RowFits, PhaseFits, Fresh, ResultStep
  <2>2. n.job \in Stages /\ n.job # s => ~Owns(w)' \/ Owns(w) \/ n.claim = 0
    <3>1. worker'[w] = n
      BY <1>3 DEF Continue, TypeInv, WorkersOK
    <3>2. n.job \in Stages /\ n.job # s => job'[n.job] = job[n.job]
      BY <1>5, <1>8 DEF Update, TypeInv, RowsOK
    <3> QED
      BY <1>2, <3>1, <3>2 DEF Owns
  <2> QED
    BY <1>3, <1>4, <1>5, <1>6, <1>8, <2>1, <2>2, RowDelivery
<1> QED
  BY <1>3, <1>7, <1>8

LEMMA EndScheduleDelivery ==
  ASSUME TypeInv, DeliveryInv, NEW w \in Workers, EndSchedule(w)
  PROVE  DeliveryStepOK
<1>1. worker[w] \in Locals /\ worker[w].pc = "schedule"
  BY DEF EndSchedule, At, TypeInv, WorkersOK
<1>2. UNCHANGED <<job, delivered>>
  BY DEF EndSchedule
<1>3. CASE worker[w].job \in Submits
  <2>1. PICK result : Continue(w, GotoWith(worker[w], "finish", result))
    BY <1>3, JobsAssumption, Zenon DEF EndSchedule, Commands
  <2>2. /\ GotoWith(worker[w], "finish", result).job = worker[w].job
        /\ GotoWith(worker[w], "finish", result).claim = worker[w].claim
    BY <1>1 DEF GotoWith, Locals
  <2>3. ~Owns(w)
    BY <1>3, JobsAssumption DEF Owns, Commands
  <2> QED
    BY <1>2, <2>1, <2>2, <2>3, LocalDelivery
<1>4. CASE worker[w].job \notin Submits
  <2> DEFINE n == Goto(worker[w], "complete")
  <2>1. Continue(w, n)
    BY <1>4 DEF EndSchedule
  <2>2. n.pc = "complete" /\ n.claim = worker[w].claim /\ n.job = worker[w].job
    BY <1>1 DEF Goto, Locals
  <2> HIDE DEF n
  <2>3. Owns(w) => DeliveryFits(n, job[n.job])
    BY <1>1, <2>2 DEF DeliveryInv, DeliveryFits
  <2> QED
    BY <1>2, <2>1, <2>2, <2>3, LocalDelivery
<1> QED
  BY <1>3, <1>4

LEMMA FinishCommandDelivery ==
  ASSUME TypeInv, DeliveryInv, NEW w \in Workers, FinishCommand(w)
  PROVE  DeliveryStepOK
<1>1. worker[w].job \in Jobs \ Stages
  BY JobsAssumption
  DEF FinishCommand, At, TypeInv, WorkersOK, LocalsFit, CommandPC, Jobs
<1>2. \A s \in Stages : job'[s] = job[s]
  BY <1>1 DEF FinishCommand, FinalizeCommandJob, Update, TypeInv, RowsOK, Jobs
<1>3. NoJob \notin Stages /\ IdleWorker.job = NoJob
  BY WorkerAssumption DEF IdleWorker, Jobs
<1>4. \A v \in Workers : worker'[v] = worker[v] \/ worker'[v].job \notin Stages
  BY <1>3 DEF FinishCommand, Continue, TypeInv, WorkersOK
<1> QED
  BY <1>2, <1>4, FrameDelivery DEF FinishCommand, SameDelivery

LEMMA LeaveDelivery ==
  ASSUME TypeInv, DeliveryInv, NEW w \in Workers,
         Rejected(w) \/ SetRun(w) \/ CompleteRun(w)
  PROVE  DeliveryStepOK
<1>1. IdleWorker.claim = 0
  BY DEF IdleWorker
<1> QED
  BY <1>1, LocalDelivery DEF Rejected, SetRun, CompleteRun, storeVars

-----------------------------------------------------------------------------
(* The steps of a stage.                                                   *)

LEMMA RefreshJobDelivery ==
  ASSUME TypeInv, LeaseInv, DeliveryInv, NEW w \in Workers, RefreshJob(w)
  PROVE  DeliveryStepOK
<1> DEFINE r == job[worker[w].job]
           n == Refreshed(worker[w], r)
<1>1. worker[w] \in Locals /\ worker[w].job \in Stages /\ worker[w].claim # 0
  BY HasClaim
  DEF RefreshJob, At, Unclaimed, TypeInv, WorkersOK, LocalsFit, StagePC
<1>2. /\ n.pc = "decide"
      /\ n.phase = r.phase
      /\ n.result = r.result
      /\ n.job = worker[w].job
  BY <1>1, RowsKnown, RefreshedLocals
<1>3. Continue(w, n) /\ UNCHANGED <<job, delivered>>
  BY DEF RefreshJob, storeVars
<1> HIDE DEF n
<1>4. DeliveryFits(n, job[n.job])
  BY <1>2 DEF DeliveryFits
<1> QED
  BY <1>1, <1>2, <1>3, <1>4, LocalDelivery

\* The decisions taken at "decide".
LEMMA DecideDelivery ==
  ASSUME TypeInv, LeaseInv, DeliveryInv, PrerequisitesHold, NEW w \in Workers,
         \/ StopBeforeExecution(w) \/ UseDurableResult(w)
         \/ ReviewCheckpoint(w) \/ RefuseReplay(w) \/ BeginExecution(w)
  PROVE  DeliveryStepOK
<1> DEFINE s == worker[w].job
<1>1. /\ worker[w] \in Locals
      /\ s \in Stages
      /\ worker[w].claim # 0
      /\ worker[w].pc = "decide"
  BY HasClaim
  DEF StopBeforeExecution, UseDurableResult, ReviewCheckpoint, RefuseReplay,
      BeginExecution, Proceeds, At, Unclaimed, TypeInv, WorkersOK, LocalsFit,
      StagePC
<1>2. UNCHANGED <<job, delivered>>
  BY DEF StopBeforeExecution, UseDurableResult, ReviewCheckpoint, RefuseReplay,
         BeginExecution, storeVars
<1>3. Owns(w) => /\ worker[w].phase = job[s].phase
                 /\ worker[w].result = job[s].result
                 /\ DependenciesSucceeded(s)
                 /\ PhaseFits(job[s])
                 /\ job[s].status = "RUNNING"
                 /\ job[s].phase \in DeliveryPhase
  BY <1>1, RowsKnown
  DEF Owns, DeliveryInv, DeliveryFits, RowFits, PrerequisitesHold,
      DependenciesSucceeded
<1>4. CASE StopBeforeExecution(w)
  <2>1. PICK then, result :
           /\ Continue(w, ToFinalize(worker[w], worker[w].arev, then, result))
           /\ DependenciesSucceeded(s) => result = "CANCELLED"
    BY <1>4, Zenon DEF StopBeforeExecution
  <2> DEFINE n == ToFinalize(worker[w], worker[w].arev, then, result)
  <2>2. n.pc = "finalize" /\ n.job = s /\ n.result = result
    BY <1>1 DEF ToFinalize, Locals
  <2>3. Continue(w, n)
    BY <2>1
  <2> HIDE DEF n
  <2>4. Owns(w) => DeliveryFits(n, job[n.job])
    BY <1>3, <2>1, <2>2 DEF DeliveryFits
  <2> QED
    BY <1>1, <1>2, <2>2, <2>3, <2>4, LocalDelivery
<1>5. CASE UseDurableResult(w)
  <2> DEFINE n == ToFinalize(worker[w], worker[w].arev, "advance", worker[w].result)
  <2>1. n.pc = "finalize" /\ n.job = s /\ n.result = worker[w].result
    BY <1>1 DEF ToFinalize, Locals
  <2>2. Continue(w, n)
    BY <1>5 DEF UseDurableResult
  <2> HIDE DEF n
  <2>3. Owns(w) => DeliveryFits(n, job[n.job])
    BY <1>3, <2>1 DEF DeliveryFits
  <2> QED
    BY <1>1, <1>2, <2>1, <2>2, <2>3, LocalDelivery
<1>6. CASE ReviewCheckpoint(w) \/ RefuseReplay(w)
  <2>1. PICK result : Continue(w, GotoWith(worker[w], "record", result))
    BY <1>6, Zenon DEF ReviewCheckpoint, RefuseReplay
  <2> DEFINE n == GotoWith(worker[w], "record", result)
  <2>2. n.pc = "record" /\ n.job = s
    BY <1>1 DEF GotoWith, Locals
  <2>3. Continue(w, n)
    BY <2>1
  <2>4. worker[w].phase # "RESULT_RECORDED"
    BY <1>6 DEF ReviewCheckpoint, RefuseReplay, ReplayForbidden
  <2> HIDE DEF n
  <2>5. Owns(w) => DeliveryFits(n, job[n.job])
    BY <1>3, <2>2, <2>4 DEF DeliveryFits
  <2> QED
    BY <1>1, <1>2, <2>2, <2>3, <2>5, LocalDelivery
<1>7. CASE BeginExecution(w)
  <2> DEFINE n == Goto(worker[w], "deliver")
  <2>1. n.pc = "deliver" /\ n.job = s
    BY <1>1 DEF Goto, Locals
  <2>2. Continue(w, n)
    BY <1>7 DEF BeginExecution
  <2>3. /\ worker[w].phase # "RESULT_RECORDED"
        /\ s \in ReplaySafe \/ worker[w].phase # "HANDLER_DELIVERY_STARTED"
    BY <1>7 DEF BeginExecution, ReplayForbidden
  <2> HIDE DEF n
  <2>4. Owns(w) => DeliveryFits(n, job[n.job])
    BY <1>3, <2>1, <2>3 DEF DeliveryFits, Fresh, PhaseFits, DeliveryPhase
  <2> QED
    BY <1>1, <1>2, <2>1, <2>2, <2>4, LocalDelivery
<1> QED
  BY <1>4, <1>5, <1>6, <1>7

\* The handler has been called: its outcome is on the way to the record.
LEMMA OutcomeDelivery ==
  ASSUME TypeInv, LeaseInv, DeliveryInv, NEW w \in Workers,
         HandlerReturns(w) \/ HandlerRaises(w) \/ ProbeCancellation(w)
  PROVE  DeliveryStepOK
<1>1. /\ worker[w] \in Locals
      /\ worker[w].claim # 0
      /\ worker[w].pc \in {"handler", "probe"}
  BY HasClaim
  DEF HandlerReturns, HandlerRaises, ProbeCancellation, At, Unclaimed, TypeInv,
      WorkersOK
<1>2. UNCHANGED <<job, delivered>>
  BY DEF HandlerReturns, HandlerRaises, ProbeCancellation, storeVars
<1>3. PICK pc \in {"returned", "record"} :
         \E result : Continue(w, GotoWith(worker[w], pc, result))
  BY Zenon DEF HandlerReturns, HandlerRaises, ProbeCancellation
<1>4. PICK result : Continue(w, GotoWith(worker[w], pc, result))
  BY <1>3
<1> DEFINE n == GotoWith(worker[w], pc, result)
<1>5. n.pc = pc /\ n.job = worker[w].job
  BY <1>1 DEF GotoWith, Locals
<1>6. Continue(w, n)
  BY <1>4
<1> HIDE DEF n
<1>7. Owns(w) => DeliveryFits(n, job[n.job])
  BY <1>1, <1>5 DEF DeliveryInv, DeliveryFits
<1> QED
  BY <1>1, <1>2, <1>5, <1>6, <1>7, LocalDelivery

LEMMA EnsureAttemptDelivery ==
  ASSUME DistinctIds, TypeInv, LeaseInv, DeliveryInv, NEW w \in Workers,
         EnsureAttempt(w)
  PROVE  DeliveryStepOK
<1> DEFINE s == worker[w].job
           r == WithAttempt(job[s])
           n == Attempted(worker[w], job'[s])
<1>1. worker[w] \in Locals /\ s \in Stages /\ worker[w].claim # 0
  BY HasClaim
  DEF EnsureAttempt, At, Unclaimed, TypeInv, WorkersOK, LocalsFit, StagePC
<1>2. n.pc = "refresh" /\ n.job = s
  BY <1>1 DEF Attempted, Locals
<1>3. s \in Jobs /\ job[s] \in JobRow /\ delivered \in [Stages -> Nat]
  BY <1>1, RowsKnown DEF TypeInv, RestOK
<1>4. /\ r.status = job[s].status
      /\ r.owner = job[s].owner
      /\ r.phase = job[s].phase
      /\ r.result = job[s].result
  BY <1>3, AttemptRow
<1>5. /\ Continue(w, n)
      /\ job[s].status = "RUNNING"
      /\ job[s].owner = WorkerId[w]
      /\ IF job[s].attempt # 0
         THEN UNCHANGED <<job, delivered>>
         ELSE Update(s, r) /\ delivered' = [delivered EXCEPT ![s] = 0]
  BY DEF EnsureAttempt, EnsureStageAttempt, LeaseRow
<1> HIDE DEF s, r, n
<1>6. \A row : DeliveryFits(n, row)
  BY <1>2 DEF DeliveryFits
<1>7. CASE job[s].attempt # 0
  BY <1>1, <1>2, <1>5, <1>6, <1>7, LocalDelivery DEF s
<1>8. CASE job[s].attempt = 0
  <2>1. /\ delivered'[s] = 0
        /\ \A k \in Stages : k # s => delivered'[k] = delivered[k]
    BY <1>1, <1>3, <1>5, <1>8
  <2>2. RowFits(s, r, delivered'[s]) /\ ResultStep(job[s], r)
    BY <1>1, <1>4, <2>1
    DEF DeliveryInv, RowFits, PhaseFits, Fresh, ResultStep
  <2> QED
    BY <1>2, <1>3, <1>4, <1>5, <1>6, <1>8, <2>1, <2>2, RowDelivery
<1> QED
  BY <1>7, <1>8

\* The only step that counts a call: the marker was not set before it.
LEMMA MarkedDelivery ==
  ASSUME DistinctIds, TypeInv, LeaseInv, DeliveryInv, NEW w \in Workers,
         DeliverHandler(w), worker[w].claim = worker[w].gen
  PROVE  DeliveryStepOK
<1> DEFINE s == worker[w].job
           r == Delivering(job[s])
           n == InHandler(worker[w], job'[s].arev)
<1>1. /\ worker[w] \in Locals
      /\ s \in Stages
      /\ worker[w].claim # 0
      /\ worker[w].pc = "deliver"
  BY HasClaim
  DEF DeliverHandler, At, Unclaimed, TypeInv, WorkersOK, LocalsFit, StagePC
<1>2. n.pc = "handler" /\ n.job = s
  BY <1>1 DEF InHandler, Locals
<1>3. s \in Jobs /\ job[s] \in JobRow /\ delivered \in [Stages -> Nat]
  BY <1>1, RowsKnown DEF TypeInv, RestOK
<1>4. /\ r.status = job[s].status
      /\ r.owner = job[s].owner
      /\ r.phase = "HANDLER_DELIVERY_STARTED"
  BY <1>3, DeliveringRow
<1>5. /\ Continue(w, n)
      /\ Update(s, r)
      /\ job[s].status = "RUNNING"
      /\ job[s].owner = WorkerId[w]
      /\ job[s].attempt # 0
      /\ delivered' = [delivered EXCEPT ![s] = @ + 1]
  BY DEF DeliverHandler, MarkHandlerDeliveryStarted, LeaseRow
<1>6. DeliveryFits(worker[w], job[s])
  BY <1>1, <1>5 DEF DeliveryInv, Owns
<1>7. /\ s \in ReplaySafe \/ Fresh(job[s])
      /\ job[s].phase # "RESULT_RECORDED"
  BY <1>1, <1>6 DEF DeliveryFits
<1> HIDE DEF s, r, n
<1>8. /\ s \notin ReplaySafe => delivered'[s] = 1
      /\ \A k \in Stages : k # s => delivered'[k] = delivered[k]
  BY <1>1, <1>3, <1>5, <1>7 DEF DeliveryInv, RowFits
<1>9. RowFits(s, r, delivered'[s]) /\ ResultStep(job[s], r)
  BY <1>4, <1>5, <1>7, <1>8 DEF RowFits, PhaseFits, Fresh, ResultStep
<1>10. DeliveryFits(n, r)
  BY <1>2, <1>4 DEF DeliveryFits
<1> QED
  BY <1>2, <1>3, <1>4, <1>5, <1>8, <1>9, <1>10, RowDelivery

LEMMA RewoundDelivery ==
  ASSUME DistinctIds, TypeInv, LeaseInv, DeliveryInv, NEW w \in Workers,
         DeliverHandler(w), worker[w].claim # worker[w].gen
  PROVE  DeliveryStepOK
<1> DEFINE s == worker[w].job
           r == WithExpiry(job[s], TRUE)
<1>1. s \in Stages
  BY DEF DeliverHandler, At, TypeInv, WorkersOK, LocalsFit, StagePC
<1>2. s \in Jobs /\ job[s] \in JobRow
  BY <1>1, RowsKnown
<1>3. SameDelivery(job[s], r)
  BY <1>2, ExpiryRow DEF SameDelivery
<1>4. /\ Continue(w, IdleWorker)
      /\ Update(s, r)
      /\ job[s].owner = WorkerId[w]
      /\ UNCHANGED delivered
  BY DEF DeliverHandler, LeaseRow
<1> HIDE DEF s, r
<1>5. RowFits(s, r, delivered'[s]) /\ ResultStep(job[s], r)
  <2>1. RowFits(s, job[s], delivered[s])
    BY <1>1 DEF DeliveryInv
  <2> QED
    BY <1>3, <1>4, <2>1, SameRow
<1>6. r.owner = job[s].owner
  BY <1>3 DEF SameDelivery
<1>7. IdleWorker.claim = 0
  BY DEF IdleWorker
<1> QED
  BY <1>2, <1>4, <1>5, <1>6, <1>7, RowDelivery

LEMMA DeliverHandlerDelivery ==
  ASSUME DistinctIds, TypeInv, LeaseInv, DeliveryInv, NEW w \in Workers,
         DeliverHandler(w)
  PROVE  DeliveryStepOK
  BY MarkedDelivery, RewoundDelivery

LEMMA RenewLeaseDelivery ==
  ASSUME DistinctIds, TypeInv, LeaseInv, DeliveryInv, NEW w \in Workers,
         RenewLease(w)
  PROVE  DeliveryStepOK
<1> DEFINE s == worker[w].job
           n == Goto(worker[w], "probe")
<1>1. /\ worker[w] \in Locals
      /\ s \in Stages
      /\ worker[w].claim # 0
      /\ worker[w].pc = "returned"
  BY HasClaim
  DEF RenewLease, At, Unclaimed, TypeInv, WorkersOK, LocalsFit, StagePC
<1>2. n.pc = "probe" /\ n.job = s
  BY <1>1 DEF Goto, Locals
<1>3. s \in Jobs /\ job[s] \in JobRow /\ job[s].expired \in BOOLEAN
  BY <1>1, RowsKnown DEF JobRow
<1>4. PICK late \in BOOLEAN : Update(s, WithExpiry(job[s], late))
  BY <1>3 DEF RenewLease, HeartbeatJob
<1> DEFINE r == WithExpiry(job[s], late)
<1>5. SameDelivery(job[s], r)
  BY <1>3, ExpiryRow DEF SameDelivery
<1>6. /\ Continue(w, n)
      /\ Update(s, r)
      /\ job[s].owner = WorkerId[w]
      /\ job[s].status = "RUNNING"
      /\ UNCHANGED delivered
  BY <1>4 DEF RenewLease, HeartbeatJob, LeaseRow
<1>7. DeliveryFits(worker[w], job[s])
  BY <1>1, <1>6 DEF DeliveryInv, Owns
<1> HIDE DEF r, n
<1>8. DeliveryFits(n, r)
  BY <1>1, <1>2, <1>5, <1>7 DEF DeliveryFits, SameDelivery
<1> HIDE DEF s
<1>9. RowFits(s, r, delivered'[s]) /\ ResultStep(job[s], r)
  <2>1. RowFits(s, job[s], delivered[s])
    BY <1>1 DEF DeliveryInv
  <2> QED
    BY <1>5, <1>6, <2>1, SameRow
<1>10. r.owner = job[s].owner
  BY <1>5 DEF SameDelivery
<1> QED
  BY <1>2, <1>3, <1>6, <1>8, <1>9, <1>10, RowDelivery

LEMMA RecordResultDelivery ==
  ASSUME DistinctIds, TypeInv, LeaseInv, DeliveryInv, NEW w \in Workers,
         RecordResult(w)
  PROVE  DeliveryStepOK
<1> DEFINE s == worker[w].job
           r == Recorded(job[s], worker[w].result)
           n == ToFinalize(worker[w], job'[s].arev, "advance", worker[w].result)
<1>1. /\ worker[w] \in Locals
      /\ s \in Stages
      /\ worker[w].result \in Result
      /\ worker[w].claim # 0
      /\ worker[w].pc = "record"
  BY HasClaim
  DEF RecordResult, At, Unclaimed, TypeInv, WorkersOK, LocalsFit, StagePC,
      ResultPC
<1>2. n.pc = "finalize" /\ n.job = s /\ n.result = worker[w].result
  BY <1>1 DEF ToFinalize, Locals
<1>3. s \in Jobs /\ job[s] \in JobRow
  BY <1>1, RowsKnown
<1>4. /\ r.status = job[s].status
      /\ r.owner = job[s].owner
      /\ r.phase = "RESULT_RECORDED"
      /\ r.result = worker[w].result
  BY <1>1, <1>3, RecordedRow
<1>5. /\ Continue(w, n)
      /\ Update(s, r)
      /\ job[s].owner = WorkerId[w]
      /\ job[s].status = "RUNNING"
      /\ UNCHANGED delivered
  BY DEF RecordResult, RecordStageResult, LeaseRow
<1>6. job[s].phase # "RESULT_RECORDED"
  BY <1>1, <1>5 DEF DeliveryInv, Owns, DeliveryFits
<1> HIDE DEF r, n
<1>7. DeliveryFits(n, r)
  BY <1>2, <1>4 DEF DeliveryFits
<1> HIDE DEF s
<1>8. RowFits(s, r, delivered'[s]) /\ ResultStep(job[s], r)
  BY <1>1, <1>4, <1>5, <1>6
  DEF DeliveryInv, RowFits, PhaseFits, Fresh, ResultStep
<1> QED
  BY <1>2, <1>3, <1>4, <1>5, <1>7, <1>8, RowDelivery

LEMMA FinalizeStageDelivery ==
  ASSUME DistinctIds, TypeInv, LeaseInv, DeliveryInv, NEW w \in Workers,
         FinalizeStage(w)
  PROVE  DeliveryStepOK
<1> DEFINE s == worker[w].job
           result == worker[w].result
           requested == RequestedStatus(result, worker[w].retry)
           retry == RequestedRetry(result, worker[w].retry)
           status == EffectiveStatus(s, requested)
           r == Finalized(job[s], status, result, retry)
           n == AfterFinalize(s, worker[w].then, status)
<1>1. /\ worker[w].pc = "finalize"
      /\ s \in Stages
      /\ result \in Result
      /\ worker[w].retry \in 0 .. MaxRetries
      /\ worker[w].claim # 0
  BY HasClaim
  DEF FinalizeStage, At, Unclaimed, TypeInv, WorkersOK, LocalsFit, StagePC,
      ResultPC, Locals
<1>2. s \in Jobs /\ job[s] \in JobRow
  BY <1>1, RowsKnown
<1>3. /\ Continue(w, n)
      /\ Update(s, r)
      /\ job[s].owner = WorkerId[w]
      /\ job[s].status = "RUNNING"
      /\ UNCHANGED delivered
  BY DEF FinalizeStage, FinalizeStageJob, LeaseRow
<1>4. /\ requested \in {"SUCCEEDED", "NEEDS_REVIEW", "BLOCKED", "CANCELLED",
                        "FAILED", "RETRY_WAIT"}
      /\ requested = "RETRY_WAIT" => result = "TRANSIENT"
      /\ retry \in 0 .. MaxRetries
  BY <1>1, RequestedFact DEF RequestedStatus, Result, Failures
<1> HIDE DEF requested, retry
<1>5. /\ status \in JobStatus \ {"RUNNING", "QUEUED"}
      /\ status = "RETRY_WAIT" => result = "TRANSIENT"
  BY <1>4, StatusFact DEF EffectiveStatus
<1> HIDE DEF status
<1>6. /\ r.status = status
      /\ r.phase = IF status = "RETRY_WAIT" THEN "ATTEMPT_CREATED" ELSE "FINALIZED"
      /\ r.result = IF status = "RETRY_WAIT" THEN NoResult ELSE result
      /\ r.attempt = IF status = "RETRY_WAIT" THEN 0 ELSE job[s].attempt
  BY <1>1, <1>2, <1>4, <1>5, FinalizedRow
<1>7. n.claim = 0
  BY <1>1, <1>5, AfterFinalizeLocals
<1>8. job[s].phase = "RESULT_RECORDED" => result \in {job[s].result, "CANCELLED"}
  BY <1>1, <1>3 DEF DeliveryInv, Owns, DeliveryFits
<1> HIDE DEF r, n, s, result
<1>9. RowFits(s, r, delivered'[s]) /\ ResultStep(job[s], r)
  BY <1>1, <1>3, <1>5, <1>6, <1>8
  DEF DeliveryInv, RowFits, PhaseFits, Fresh, ResultStep
<1> QED
  BY <1>2, <1>3, <1>5, <1>6, <1>7, <1>9, RowDelivery

-----------------------------------------------------------------------------
LEMMA NextDelivery ==
  ASSUME DistinctIds, TypeInv, LeaseInv, PrerequisitesHold, DeliveryInv,
         [Next]_vars
  PROVE  DeliveryStepOK
<1>1. ASSUME NEW w \in Workers, RunOnce(w)
      PROVE  DeliveryStepOK
  <2>1. ASSUME CommandStep(w)
        PROVE  DeliveryStepOK
    BY <2>1, CancelDelivery, CommandMoveDelivery, ResumeCandidateDelivery,
       ScheduleStageDelivery, EndScheduleDelivery, FinishCommandDelivery
    DEF CommandStep
  <2>2. ASSUME StageStep(w)
        PROVE  DeliveryStepOK
    BY <2>2, EnsureAttemptDelivery, RefreshJobDelivery, DecideDelivery,
       DeliverHandlerDelivery, OutcomeDelivery, RenewLeaseDelivery,
       RecordResultDelivery, FinalizeStageDelivery, LeaveDelivery
    DEF StageStep
  <2> QED
    BY <1>1, <2>1, <2>2, ClaimDelivery, LeaveDelivery DEF RunOnce
<1>2. CASE UNCHANGED vars
  BY <1>2, FrameDelivery DEF vars, storeVars, workerVars, SameDelivery
<1> QED
  BY <1>1, <1>2, EnvironmentDelivery DEF Next

LEMMA DeliveryInvariance ==
  ASSUME DistinctIds
  PROVE  Spec => []DeliveryInv /\ []TypeInv /\ []LeaseInv /\ []PrerequisitesHold
<1>1. TypeInv /\ LeaseInv /\ [Next]_vars => LeaseInv'
  BY NextLease DEF LeaseStepOK
<1>2. TypeInv /\ LeaseInv /\ PrerequisitesHold /\ DeliveryInv /\ [Next]_vars =>
         DeliveryInv'
  BY NextDelivery DEF DeliveryStepOK
<1> QED
  BY <1>1, <1>2, InitLease, InitDelivery, TypeInvariance, Prerequisites, PTL
  DEF Spec

\* A handler that is not replay safe is called at most once for one attempt,
\* wherever the HANDLER_DELIVERY_STARTED marker of _run_stage is cut off by a
\* crash, an expiry or a reclaim, for every plan and any number of workers
\* with worker ids of their own.
THEOREM AtMostOnce ==
  ASSUME DistinctIds
  PROVE  Spec => []AtMostOneDelivery
<1>1. DeliveryInv => AtMostOneDelivery
  BY DEF DeliveryInv, RowFits, AtMostOneDelivery
<1> QED
  BY <1>1, DeliveryInvariance, PTL

\* Once record_stage_result has stored the outcome of an attempt, it is the
\* outcome: no redelivery replaces it, and finalize_stage_job stores it, or a
\* cancellation, or drops it for the retry it asks for.
THEOREM RecordedResult ==
  ASSUME DistinctIds
  PROVE  Spec => RecordedResultDecides
<1>1. TypeInv /\ LeaseInv /\ PrerequisitesHold /\ DeliveryInv /\ [Next]_vars =>
         [\A s \in Stages :
            job[s].phase = "RESULT_RECORDED" =>
               \/ job'[s].phase = "RESULT_RECORDED"
                     /\ job'[s].result = job[s].result
               \/ job'[s].status = "RETRY_WAIT" /\ job[s].result = "TRANSIENT"
               \/ job'[s].phase = "FINALIZED"
                     /\ job'[s].result \in {job[s].result, "CANCELLED"}]_vars
  BY NextDelivery DEF DeliveryStepOK, ResultStep
<1> QED
  BY <1>1, DeliveryInvariance, PTL DEF Spec, RecordedResultDecides

===============================================================================
