# A TLA+ model of Dirty-Data-to-OLAP

Dirty-Data-to-OLAP turns raw sources into a validated OLAP model by running a
plan of *stages* for a *run*. Two things about it are hard. One is the machinery
that runs the stages: durable jobs in an SQLite control store, worker threads
that claim them under expiring leases, an API whose requests are repeated, files
and rows that are deleted while others pin them, and a process that may stop
anywhere. The other is what the stages say: each is a long chain of checks whose
value lies in never calling a result complete, accepted or equal when it is not.

This project models both. TLC checks the machinery as interleavings of small
numbers of actors and the stages over enumerated inputs; TLAPS proves, for all
instances, the safety of all the machinery (jobs, leases, runtime, API, artifacts)
and the core of the product: source snapshots, the gate on a finished target, the
accounting of a star and the queries over it, canonical identities and
survivorship, the partitioned merge, what a review binds and what a graph view
shows.

Paths below are relative to `src/src/dirty_data_to_olap/`.

## 1. Inventory

| Component | State it keeps | Operations | What is hard |
|---|---|---|---|
| Control store (`adapters/platform/sqlite_control_store.py`) | `runs`, `jobs`, `stage_attempts`, `execution_plans`, idempotency records, reviews, artifacts, pins | enqueue, claim, heartbeat, delivery marker, result record, finalize, cancel, resume, reserve, bind, review, register, tombstone; each one `BEGIN IMMEDIATE` transaction | fencing by owner and lease generation; compare-and-swap on revisions read earlier |
| JobWorker (`application/jobs.py`) | the locals of one `run_once` | command and stage execution, scheduling, run completion | crash between any two transactions, reclaimed leases, listings that grow old, retries |
| Local runtime (`application/product_runtime.py`, `BoundedWorkerPool`) | thread handle, closed flag, shutdown event | submit, wake, pump, close | lost wake-ups, shutdown during a batch |
| Backend API (`application/backend.py`, `entrypoints/api.py`) | idempotency records, reviews, bindings | run creation, import, binding, planning, commands, reviews | a request repeated while the first is under way, or after it died half way |
| Execution plans (`application/execution_plan.py`, `planning_authority.py`) | the plan and its phase | prepare, advance | two workers revise one plan |
| Artifacts (`local_artifact_store.py`, `staging.py`, `application/platform.py`, `reliability.py`) | blobs, manifests, tombstones, pins, cache, gate evidence, backups | publish, register, clean up, cache, stage, back up, restore | shared bytes, deletion against publication and pins, restored rows without files |
| Order product (`application/product_*.py`, `canonical.py`, `analytical_planner.py`, `compiler.py`, `adapters/duckdb*`, `validation.py`) | the run's artifacts and the target file | 14 handlers, 4 checkpoints | reruns over what an earlier attempt published, edits between stages |
| Sources (`adapters/sources/`) | registry, files, staged batches | import, discover, extract | a file replaced while it is read; bounds; read-only access |
| Partitioned execution (`application/distributed.py`) | partition plans and results | plan, execute, merge | order, retries, stale results |
| Analyses (profiling, quality, dependencies, matching, entity resolution, fusion, semantic AI, applied ML, evaluation) | none that is shared | one call each | claims about data that was bounded, damaged or held out |
| Surfaces (semantic queries, visualization, privacy, telemetry, review subjects, release record) | none or buffers | projections and decisions | what is shown, hidden or counted |

Components interact through the control store and the artifact store: the API
enqueues a command job and wakes the runtime; a worker claims it, schedules stage
jobs and ends the command; workers claim stage jobs, call the registered handler
and report the outcome to the job row and to the run; handlers read what earlier
stages published and publish their own outputs; reviews are rows the workers and
the handlers read. `PROJECT.json` lists every component with its status, and
every hazard with the line where it bites and the properties that watch it.

## 2. Modules

### The machinery

| Module | Models |
|---|---|
| `ControlStore` | the rows of one run, one operator per transaction on jobs and attempts |
| `JobWorker` (extends it) | worker threads, environment, `FairSpec`, the properties of jobs and runs |
| `StageLifecycle` | what an observer is promised of a run: stages open in order, finish once, never come back |
| `LocalPump` | what drives `run_once` in the local product |
| `PlanPhases` | the execution plan as a value: which conditional stages it has decided and on what |
| `ApiCommands` (extends it) | the API's use cases as threads over idempotency records, runs, reviews, plans |
| `ArtifactPlatform` | files and rows of artifacts, cleanup, cache, gates, staging, backup |
| `MCPlatform` (extends the last four) | the API, the artifacts and the pump side by side: they share no variable, so a behaviour is one scene in which one of them moves |
| `MCJobWorker`, `MCLocalPump` | constants for TLC |
| `JobWorker_proofs`, `LocalPump_proofs`, `ApiCommands_proofs`, `ArtifactPlatform_proofs` | theorems, section 5 |

**ControlStore and JobWorker.** A row of `job` is a row of the `jobs` table with
the row of its current attempt folded in (`attempt`, `arev`, `phase`, `result`).
Every store method is one transaction and one operator with the same name; its
guard is the `WHERE` clause or the exception it raises. A worker is a record of
the locals of `run_once`; its `pc` names the next store transaction. Between any
two of them another worker may act, a lease may expire (`ExpireLease`) or the
worker may vanish (`Crash`). Reads that decide on something that can be undone
have a step of their own: `RefreshJob` (the re-read of the job in `_run_stage`,
which also replaces the lease generation the worker presents) and `ListJobs`
(the one listing a resume command works from). A read of dependencies is folded
into the step that follows it, because `SUCCEEDED` is never left, which
`TerminalJobsStay` checks.

| Code | Model |
|---|---|
| `run_once`, `claim_next_job` | `Claim`, `Claimable` |
| `_lease_row`, `ConcurrencyConflictError` | `LeaseRow`, `FenceHolds`, `Rejected` |
| `_run_command`, `_resume_command` | `CancelCommand`, `StartResume`, `ListJobs`, `ResumeCandidate`, `EndResume`, `FinishCommand` |
| `_schedule_ready` | `ScheduleStage`, `EndSchedule` |
| `_run_stage` | `EnsureAttempt`, `RefreshJob`, then one of `StopBeforeExecution`, `UseDurableResult`, `ReviewCheckpoint`, `RefuseReplay`, `BeginExecution`; then `DeliverHandler`, `HandlerReturns` or `HandlerRaises`, `RenewLease`, `ProbeCancellation`, `RecordResult` |
| `_finalize`, `_advance_after_stage` | `FinalizeStage`, `AfterFinalize`, `SetRun` |
| `_maybe_complete_run` | `MayComplete`, `CompleteRun` |
| API and reviewers | `Prepare`, `SubmitCommand`, `AcceptReview`, `InvalidateReview` |

Abstractions. Wall-clock time is one bit per lease, `expired`; calls that pass a
clock they have just read may be refused once it is set, calls that pass the time
of the claim are not. A handler is one step that reports any outcome of
`HandlerOutcomes`. The compare-and-swap on the run's revision is one step; a
worker that loses it raises out of `run_once`, which is a `Crash`. All jobs have
the same priority and `available_at` comes from clocks nobody synchronises, so a
claim takes any eligible row. `max_active_per_source` is left out (one source: it
coincides with `max_active_per_run`).

**StageLifecycle** has two variables, what is seen of each stage (pending, open,
held, done, cancelled) and of the run. `JobWorker!Lifecycle` instantiates it with
the views of the rows, and `ImplementsLifecycle` is that instance's `Spec`.

**LocalPump.** A command stands for its run, whose durable work is `due`,
`claimed`, `later` (a retry time or a lease has to pass first) or `done`. Every
`with self._lock` block of `LocalProductExecutionSubmission` is a step; the pump
reads the shutdown event and the rows outside the lock. `Restart` is the death of
the process and the construction of a new runtime over the same store.

**ApiCommands.** A thread takes a request and goes through reservation, effect
and stored answer as separate steps; it may die or meet a failing store between
any two. A scenario is a set of requests that meet. Workers appear as `advance`
requests, whose read and write of the plan are separate, so two of them race.

**ArtifactPlatform.** Callers share one `LocalArtifactStore` and its lock, which
covers the files and not the rows. Cleanup decides, deletes and marks in three
steps. Bytes may rot, a caller may stop, a backup may be restored.

### The product

| Module | Models |
|---|---|
| `StarSchema`, `G6Validation`, `OrderPipeline` | compiled tables and what DuckDB accepts; the checks of gate G6; the handlers from CSV to validated target, with breaks, resumes, withdrawn reviews and edits of source or target |
| `CanonicalIdentity`, `IdentityLifecycle` | hypothesis, proposal, finalization, survivorship; reruns of entity resolution around a review |
| `PartitionedScale` | partitions, a pool of threads, the merge barrier |
| `SourceSnapshots`, `SqlSources` | file sources while files are replaced; the guard, authorizer, catalog and bounded extraction of databases |
| `Profiling`, `QualityRules`, `Dependencies` | what is said of staged rows |
| `LocalGrants`, `Matching`, `EntityLinking`, `MultiSource` | grants of local analysis, schema matching, entity resolution, the multi-source product |
| `EvidenceFusion`, `ReviewSubjects` | candidates, scores and readiness; what a checkpoint asks and when an answer counts |
| `PlanningRequests` | requests of the order policy and the plan made of them |
| `SemanticQueries`, `VisualViews`, `PrivacyPolicy`, `Telemetry` | queries over the star; bounded views; what may be shown or deleted; signals |
| `SemanticAi`, `RankingModel`, `Evaluation` | suggestions of a local model, learned ranking, offline evaluation |
| `ReleaseGates` | the release record shared by the repository's validators (`tools/execution_state.py`) |
| `MCProduct` | one scene per component, its inputs, and the properties |
| `OrderPipeline_proofs`, `SourceRows_proofs`, `Surfaces_proofs`, `DataInduction` | theorems, section 5 |

`OrderPipeline`, `IdentityLifecycle`, `PartitionedScale` and `SourceSnapshots`
have state and actions; the others are operators over values, named after the
functions they translate. Hashes and digests are the things they are taken of.
Texts are the kinds a regular expression tells apart; ratios are percentages or
fractions; engines outside the repository (DuckDB, Splink, Valentine,
Desbordante, DataProfiler, Ollama, scikit-learn) are inputs that may answer,
fail, time out or be absent.

Two notes on `OrderPipeline`. A worker that dies inside a handler leaves an
`UNKNOWN_SIDE_EFFECT`, which is never resumed (`JobWorker`); a handler that raises
leaves a terminal failure, which a resume command runs again. `BreakOff` and
`Resume` are the second case. The order of ids is that of digests, so a second
artifact of a kind may become the "latest" or not: `first` chooses.

## 3. Runs

| Run | Instance | Shows | States |
|---|---|---|---|
| `core` | 2 workers, a review stage and a final stage in a chain, one submit, one resume, one cancel, 1 retry, 2 active jobs, 1 fault | the safety properties of jobs and runs, and the refinement | 571,000 |
| `platform` | scene `api`: 2 threads over 6 scenarios of requests that meet, 1 fault; scene `artifacts`: 2 callers over 7 scenarios on 3 artifacts, a budget of 2 blobs, 1 fault; scene `pump`: 2 callers, 2 threads, 2 workers, 3 jobs per pump, 1 restart; `PumpsRun` | one effect and one outcome per key, final bindings, plans that go forward; bytes behind every published row, pins, deletions that last; one pump, its limit, shutdown, rest | 638,000 |
| `product` | one scene per component of section 2 | the product's properties | 1,073,000 |
| `blind_replay`, `shared_id`, `lost_advance`, `redelivered_submit`, `cancel_after_success`, `lost_wakeup`, and `review`, `quality`, `linking` on the scenes of `product` | the smallest instance that shows it | a disagreement of the code with its documentation, section 6 | |

Why these bounds are enough to be interesting. Two workers and one fault give
every pair of "old holder, new holder" of one lease; two stages in a chain give a
dependency, an optional or required tail and a final stage; one retry reaches the
limit of the counter; three commands reach every pair of concurrent commands;
three jobs per pump with two workers make the last batch a cut one. In scene `api` a
scenario holds the pairs that conflict: one key for two bodies, a binding against
a set, two reviewers of one revision, two plans of different intent, two stages
that advance one plan. In scene `artifacts` two artifacts share bytes, one identity has
two contents, and the budget is one blob short.

In `product`, `MaxFaults = 2` allows a break and an edit, or two edits, of one
run, and as many resumes of a stage; `MaxReruns = 1` one rerun of entity
resolution around a review; `Counts = {2, 3}` with `MaxPartitionFaults = 1` and
`MaxExecutions = 2` give leftover results of another execution;
`MaxWrites = 3`, `MaxAttempts = 2` and `MaxStagingFaults = 1` let a file be
replaced, removed and put back around one extraction. A file of orders has every
combination of cells for one record and chosen pairs of records around the edges
(a repeated order, a missing cell, an amount between two ticks of the column). A
scene about a pure algorithm takes one step, `Pose`, that chooses an input, and
the invariant quantifies over the remaining parameters. Operators are cut into
small ones whose arguments carry the intermediate values, so that each is
evaluated once.

`core` and `product` switch deadlock checking off because the system really
stops there: when every command and stage is done there is nothing left to claim,
and a scene ends. `platform` checks it: a request or an operation always gets to
its end, and the runtime stops only where no call and no pump is under way, which
is the step `PumpRests`.

Bounds, each a constant: `MaxFaults` (crashes, failing calls, and leases that
expire under a live worker; leases of vanished workers expire freely),
`MaxApiFaults` (of the API's threads), `MaxRetries`, `MaxActive`, `MaxJobs`,
`Budget` (the code's own), `MaxRestarts`, `MaxRunRev`, `MaxPlanRev`, and those of `product` above.

Symmetry: worker identities in `core`, which has no liveness property.

## 4. Properties

Of jobs and runs (`core`): `AtMostOneDelivery` (a handler that is not replay safe
is called at most once per attempt), `StaleWorkerCannotFinalize` (a job leaves
`RUNNING` only by a step of the worker of its last claim), `RecordedResultDecides`
(a recorded result is not replaced by a redelivery), `TerminalJobsStay`,
`PrerequisitesHold`, `RunSuccessIsEarned`, `CancellationIsFinal`, and
`ImplementsLifecycle` (the whole of it refines `StageLifecycle`).

No liveness is claimed of jobs and runs. `FairSpec` describes the best host a pool
can have, one that pumps for ever; the local runtime pumps only when a command is
submitted and stops at the first idle batch, so a property that needs `FairSpec`
would say nothing of the product. It serves `lost_advance` alone: what fails under
the best host fails under every other.

Of the local runtime (`platform`): `OnePump`, `ShutdownAdmitsOneBatch`, the job
limit of a pump in `PumpTypeOK`, and the liveness property `PumpsComeToRest`: once
the callers have no more to submit, every pump thread ends, however much work the
jobs leave due. Its fairness is `PumpsRun`, weak fairness of the steps of a live
thread: `_pump` is a plain loop without a wait, so a thread that runs goes on to
its next statement as long as its handlers return. Nothing is assumed of callers,
of time, or that anybody starts a pump.

Of the API (`platform`): `AnswersAreTrue` (an answer a client got, or one kept for
replays, is true of the store then and ever after), `OneOutcome` (clients of one
request never get two different outcomes), `OneEffectPerKey` (one run, one
command, one history entry per key, revisions without a gap), `BindingIsFinal`
(no race or stale row replaces what a run is bound to), `PlanMovesForward` (a
plan keeps its intent, goes through its phases in order and revokes no decision).

Of artifacts (`platform`): `PublishedBytesExist` (deduplication, quota, deletion
of a sharer or a process that stops never leave a reference without its blob),
`PinsHold` (whatever names an artifact by hash, also in a backup, names the bytes
it was published with), `DeletedStaysDeleted` (nothing makes a deleted artifact
consumable again, and a row says deleted only after the store did it).

Of the product (`product`):

* `GateTellsTruth`: a run succeeds only on a target whose facts say exactly what
  the records of a snapshot of this run said.
* `CleanRunPasses`: a clean file that meets no fault gets through every stage.
* `NothingLost`: every row of a compiled star is loaded or quarantined, once,
  unless the plan itself has a column `source_record_refs`, in which case none is
  (`application/compiler.py:522-524`); the orders of several sources are loaded
  under the right customers; of values that disagree the one with the best claim survives and the others leave a conflict, and
  so does a choice of nothing (`MOST_COMPLETE` excepted when no value is present);
  the requests the policy builds for a clean header are valid and mean what they say.
* `QueryMatchesSource`: an accepted semantic query returns what the same question
  asked of the source rows returns.
* `OneIdentityEach`: a finalized model gives each record one entity and merges
  only on links in the very results the reviewer saw, where the family the
  membership names (or else its type's) requires resolution. A membership that names
  a family without that requirement merges on the reviewer's word.
* `MergedEqualsReference`: a merge that is accepted equals the computation over
  the undivided dataset, and one that is not has a named reason: repeated fact
  grains or warehouse keys, and stored results that do not verify, among them. Which
  stored results are damaged is chosen anew for each merge.
* `SnapshotIsFaithful`, `DatabaseReadAsGranted`: a snapshot holds, in order and
  once, rows of one version of the file, or of the tables a session was allowed
  to read; nothing is called fully observed that was cut; nothing is written. A
  connection goes to the host of the profile only where the profile names one, and
  the catalog of a provider knows no exclusions.
* `EvidenceMatchesRows`: profiles, rule verdicts and dependencies are true of the
  staged rows, and nothing unread or unfinished is called complete. What the
  summary says of rules that *failed* is the subject of the run `quality`.
* `MatchesAreEvidence`: matches and clusters are bounded evidence, read under the
  last grant for exactly these batches. Whether the agreements behind a strong
  link are of different fields is the subject of the run `linking`.
* `ReviewReadyIsSound`: what is offered for review is complete, and an accepted
  review counts only while its subject reads as it did, as long as a subject can be
  derived at all. The case where none can is the run `review`.
* `AdviceStaysAdvice`: a model's suggestion or ranking never becomes more; no group
  is on both sides of the split when label ids differ. That the verified model is
  the one installed is checked at the two listings around the chat, as the code does.
* `EvaluationIsHonest`: a report claims no more than its held-out rows show.
* `ViewTellsTruth`: views say what they cut, no protected value is displayed, no
  secret is logged, and exporters neither hinder each other nor grow without bound
  (section 7 says what telemetry does not keep to).
* `ReleaseRecordJudged`: all validators judge one release record alike.

Every property has at least one mutant in `PROJECT.json`: the code with a
plausible slip, under which TLC finds it violated. The `map` names the lines of
each definition; a helper whose lines lie inside those of the definition it helps
is not always listed on its own.

## 5. Proofs

Assumptions: the named `ASSUME`s of `ControlStore`, `JobWorker`, `LocalPump`,
`ApiCommands`, `ArtifactPlatform`, `IdentityLifecycle`, `PartitionedScale`,
`SourceSnapshots`, `OrderPipeline` and `StarSchema`, which TLC evaluates in the runs. They say that the constants are of the right
kind: dependencies are among the plan's stages, a final stage is required,
commands are of one action each, worker ids are not NULL, limits are positive;
the body of a request has the fields its use case reads; there are finitely many
hashes; a group of records is finite; a dataset is a finite set of rows with
references of their own and digests are numbers (`ScaleInputDataset` refuses two
rows of one reference); a chunk is positive, a limit is a natural number, and the
rows of a file are a sequence; an order file has finitely many records, which
differ in their reference, a quantity that parses is a number, and the mark of a
missing value is no reference and no date; `DECIMAL(38, 9)` has a smallest unit. Nothing is assumed about the
shape of the dependency graph, about which requests meet, or about the number of
workers, threads, requests, artifacts, rows, partitions and faults.

* `JobWorker_proofs`. `TypeOK` is not inductive: `RecordResult` stores what the
  worker's locals hold, and `RefreshJob` reads it back into them. `TypeInv` adds
  that a row marked `RESULT_RECORDED` has a result and that a worker's `pc` fits
  the kind of its job. Every action is shown to preserve it, and on the way to
  change a row only as `StatusStep` says and the run only as `RunStep` says. From
  these three: `TypeCorrect`, `TerminalJobs`, `Prerequisites`, `RunSuccess`,
  `Cancellation`.
* The same module, the refinement. `WorkersImplementLifecycle`: `Spec => ImplementsLifecycle`.
  `StatusStep` and `RunStep` say what may happen to each row and to the run; what
  the refinement needs beyond them is how many rows one step touches and whether
  the run changes with them. `Shape` says it: one row, or the run alone, or the
  cancellation that takes both. Each shape maps to one action of `StageLifecycle`
  or to a stutter.
* The same module, delivery. The fence compares the owner and a generation the
  worker may have re-read from the row, so what must be shown is that whenever the row is
  still leased to a worker's id, its generation is that of the worker's own claim
  (`LeaseInv`). That needs worker ids to differ (`DistinctIds`), a hypothesis of
  `StaleWorkers`; the run `shared_id` shows it is needed. On top of it
  `DeliveryInv` ties the number of handler calls to the marker (none while the row
  is fresh) and what the owner of a row remembers to the row. With
  `PrerequisitesHold`, which excludes the branch of `_run_stage` that overrides a
  recorded result: `AtMostOnce`, `RecordedResult`.
* `LocalPump_proofs`. `PumpInv`: a live thread holds the handle, the current batch
  fits in what the pump may still do, and the claims since the shutdown request
  are among the jobs of the current batch. From it `PumpTypeCorrect`,
  `SinglePump`, `ShutdownBound`.
* `ArtifactPlatform_proofs`. `PublishedBytesExist` alone is not inductive: that a
  publication may turn its reservation into a reference rests on the blob it saw
  or wrote some steps before. `PlatformInv` adds who holds the lock, what each
  caller has made sure of at the step that relies on it (`CallerOK`), and that
  the live tables and the backup are sound for the records (`TablesOK`). Records
  only move from nothing to a reservation, a reference and a tombstone, and keep
  their hash from the reference on (`RecordsKept`), so what a table or a caller
  without the lock relies on survives the steps of the others. Theorems:
  `PlatformTypes`, `BytesExist`, `Pinning`, `Deletion`.
* `ApiCommands_proofs`. An answer is true "then and ever after" because nothing
  durable is taken back (`StoreKept`), with one exception: "not queued" could
  become false. `Discipline` closes it: only the thread that has reserved a key
  changes the reserved record or queues its command, and no two threads own one
  key (`OwnersDiffer`). `ApiInv` says of every thread that what it is about to
  answer is `Justified` by the store, and of every record that it holds such an
  answer or none yet. Theorems: `ApiTypes`, `Truthful`, `Outcome`, `Effects`,
  `BindingFinal`, `PlanForward`.
* `OrderPipeline_proofs`, the pipeline. `GateTruth` (`GateTellsTruth`) has two
  halves. The state half, `PipeInv`: the artifacts a later stage builds on are
  published by their own stage only, from the snapshot at hand, and a run that has
  passed a stage never goes back behind it, so the rows, the design and the
  compiled tables the gate compares with belong together. The half about values
  says what a loaded fact is (`FactSays`), what the target holds (`TargetSays`),
  what the gate recomputes from the rows (`TruthExpects`), and that checks which
  all pass leave no other target (`GatePasses`, `GateTells`).
* The same module, clean files. `CleanRuns` (`CleanRunPasses`) is the converse of
  `GateTruth`: the gate asks no more than a clean file gives. Its invariant,
  `CleanInv`, says of every artifact published so far what a later stage reads in
  it (`CleanSays`: one artifact of each kind, made by its stage, with the rows,
  references and designs of this file) and of every checkpoint passed that its one
  review accepts the subject at hand (`CleanReviews`). One lemma for each handler shows
  that it accepts these inputs and publishes the next ones; `CleanCompiles` and
  `CleanLoads` say that every row of such a table is loaded and nothing is
  quarantined, and `CleanPasses` goes through all checks of G6, the sums included.
* The same module, the star. `StarAccounts`, for a well-posed design (`WellPosed`:
  rows have references of their own, foreign keys name dimensions of the plan,
  members and dates have keys) that the engine loads: a member named like the
  unknown member is refused by DuckDB's UNIQUE, hence the hypothesis
  `~LoadRejects`. `QueriesMatch`: each loaded fact has exactly one row
  beside it in each joined dimension (`JoinKey`, `PlainBeside`, `DateBeside`), so
  the join renames loaded rows one to one, and grouping and aggregation do not
  change under a renaming (`SumMoved`, `TableMoved`); what remains is the cut of
  `LIMIT`. `QueryPosed` says what
  planning and the semantic model hand to a query. Both theorems are about designs
  that leave the column `source_record_refs` to the compiler (`KeepsLineage`).
* The same module, identities. `IdentityInv` adds to `OneIdentityEach` that the
  groups of a proposal are disjoint and typed. The heart is that a group which the
  breadth-first walk of `validate_er_membership` covers cannot be cut in two
  without cutting a link (`WalkLinks`). `Identities` holds whatever runs of entity
  resolution, proposals and reviews came before; `Survivorship` holds for
  candidate and priority lists of any length.
* `SourceRows_proofs`, the snapshots. One pass over a file is a pair of recursive
  functions; that they are defined for every length, that the batches cut the
  accepted rows in order, that their concatenation is those rows and that ordinals
  differ is the half about values. `SnapshotInv` is the other half: until a write
  the file is the one discovery saw, to differ from it takes one write and to be
  equal again another, and the batches staged so far are a prefix of those of the
  pass and are on disk.
  Theorem: `SnapshotFaithful`.
* The same module, the merge. It adds, joins and compares what partitions
  report, so the algebra comes first: a sum over a finite set is the sum of the
  sums over the classes of any partition of it (`SumFibres`), least and greatest
  values of parts give those of the whole (`ExtremeOfParts`), every row is in one
  bucket for every strategy (`Partition`). From these, the merge of the outputs of
  all partitions is what one pass computes (`MergeIsReference`). `ScaleInv` then
  says what a caller can hand to the merge: results of plans of the policy at
  hand (`Genuine`), whole executions of them (`HeldWhole`), and an execution
  under way that accounts for every partition (`UnderWay`). It was checked by TLC
  on the scene of this component before the proof. A merge that is not refused has
  one valid result per partition (`MergeTrue`); one that has them all, from a plan
  that fits, is not refused but
  for a repeated grain or warehouse key and for results that do not verify (`MergeReasoned`). Theorem:
  `MergeCorrect`.
* `Surfaces_proofs`, reviews. The key of a question determines its context, and one
  context found in two worlds judges the same bodies; so only an undoubted
  acceptance of that very context satisfies a checkpoint (`ReviewEarned`), and while
  a subject can be derived only for artifacts that read as they did
  (`ReviewCurrent`): `ReviewsBind`, for any artifacts and any change to them. Where
  none can be derived the second half is false, which the run `review` shows. `SubjectsSound` needs `WorldPosed`: a readable
  artifact holds the contract of its kind under the contract's own id, as its
  publishers see to (section 7 says what happens otherwise).
* The same module, views. `GraphViewsTrue`: the layers of the breadth-first search
  are what walks of that length reach, by the induction described below; the cut by
  `max_nodes` keeps the focus because it comes first, and has room for it.
  `ViewPosed` states the bounds `VisualizationRequest` itself enforces.
* `DataInduction` holds what the last three modules reason with about recursive
  functions and folds. The library's induction rules take an operator as a
  parameter, which the provers cannot instantiate; instead a statement is proved
  by the least number, or the smallest finite set, at which it would fail
  (`LeastNatural`, `SmallestSet`), which needs only that the order of naturals, or
  of finite sets under inclusion, is well-founded. That a recursive function is
  defined at all is shown the same way (`BuildExists`).

The attempts found definitions that could not be reasoned about as written: `CASE`
arms that overlap, where TLC takes the first and the semantics of TLA+ leaves the
choice open. They are `IF`s now, in the order of the code.

So every safety property of `core` and `platform` is proved for
all values of the constants, and of `product` the five properties about runs and
states that several actors change: `GateTellsTruth`, `CleanRunPasses`,
`SnapshotIsFaithful`, `OneIdentityEach`, `MergedEqualsReference`. The theorems about operators
(`StarAccounts`, `Survivorship`, `QueriesMatch`, `ReviewsBind`, `SubjectsSound`,
`GraphViewsTrue`) are what `NothingLost`, `QueryMatchesSource`,
`ReviewReadyIsSound` and `ViewTellsTruth` check on the listed cases. Only
model-checked:

* the liveness property `PumpsComeToRest`, which is out of the prover's reach, and
  the violations;
* the other properties of `product`, and the parts of the four above that no
  operator theorem states. They are about pure algorithms over enumerated inputs
  (`Pose`) and quantify over texts, tables and engine answers that `MCProduct`
  lists; a theorem would have to say what each parser, projection and engine may
  answer in general, for every length of input.

## 6. Where code and documentation disagree

Each is a run that TLC must refute; `PROJECT.json` quotes the lines.

* `blind_replay`: `resume_job` is bound neither to the caller's lease nor to why
  the row failed, so a superseded resume command replays a stage whose newer
  attempt ended with an unknown side effect.
* `shared_id`: with the one `worker_id` of the local runtime in two processes, a
  worker superseded at a review checkpoint re-reads the other's lease generation and
  finalizes the other's job. (A handler stage is safe: the heartbeat before the
  handler carries the time of the claim, sets the lease back, and the marker is
  refused. After such a rewind the store would also refuse calls of the other worker
  that pass the time of their claim; the model lets them through.)
* `lost_advance`: a worker that stops between finalizing a stage and advancing
  the run leaves the run `RUNNING` for ever. The same happens without a crash when a
  stage that is not required stays blocked or failed and required ones depend on it.
* `redelivered_submit`: a redelivered submit command blocks a run whose stages it
  has already scheduled, also from `CREATED`.
* `cancel_after_success`: an optional stage that is cancelled late turns a
  `SUCCEEDED` run into a `CANCELLED` one.
* `lost_wakeup`: a command accepted while the pump is on its way out waits for
  somebody else's wake-up.
* `review`: the artifacts under review are damaged or withdrawn after an acceptance;
  the checkpoint runs again, derives nothing, and passes on the context the waiting
  job carries (`application/jobs.py:572-576`).
* `quality`: a dimension all of whose rules failed for want of evidence is
  `MEASURED` with nothing affected (`application/quality.py:402-411`).
* `linking`: the agreements behind a link are counted per binding of a field
  (`adapters/entity_resolution/splink.py:385-392`), and the specification of the
  multi-source product binds each field once per source, so one agreement passes the
  guard that asks for two.

## 7. Observations

Met while modelling. The models follow the code in each case; properties are
conditioned where one of these would break them, and say so in their comments.

Linking
* Multi-source resolution is authorized for all batches while the check compares
  the batches of the scope's tables; a duplicate order id within a source raises
  DuckDB's own exception; the private root of a specification is shared by
  concurrent runs.

Reviews
* Derived contexts never carry a skip authorization, so a `SKIPPED` decision never
  satisfies a checkpoint.
* An artifact whose content carries another id than its reference is neither a
  subject nor reported as unresolved (`application/review_subjects.py:76-80`,
  `127-131`, `177-181`); publishers never make one.
* `_accepted_review` goes on using an `ACCEPTED` entry after a later
  `INVALIDATED` one. The SQL hash does not cover quarantined records; evidence
  contexts bind assertion ids, not their content.

Order product
* A null `order_date` always fails compilation, a null quantity only at
  validation; amounts of more than nine decimals are rounded and fail G6.
* Ids are scoped by run, not by attempt: a stage resumed after it has published
  is refused by the store unless its input has changed.
* A header `Order_ID` passes the quality policy and is refused by planning; so is
  a column that is no SQL identifier.
* `CONSENSUS` survivorship may select an entry whose value is absent
  (`application/canonical.py:497-499`).

Scale, queries, views
* A row with several blocking keys is routed by one of them, and the merge then
  fails. Partition ids do not include the content hash; `LargeJoinFanoutError`
  escapes `execute`.
* A semantic `IN (NULL)` filter matches nothing; an additive measure without
  `SUM` makes `build_model` raise.
* A bounded focused view cuts nodes by the order of their references.

Sources and analyses
* A refused re-import deletes the file an earlier import of the same name wrote;
  discarding batches may delete those of a concurrent attempt; two fingerprints
  cannot see that a file was replaced and put back.
* A bound that is exactly the number of rows is reported as partially observed;
  an SQLite foreign key with an implicit parent key names the column `None`;
  discovery through a provider ignores excluded objects.
* Mixed zoned and unzoned times make a column accumulator raise; a
  leftover temporary directory makes dependency discovery raise.
* With two dependency evidences only the first by id is scored; an orphan ratio
  contradicts also at zero.

Advice and evaluation
* `evaluation/service.py` never passes reversed pairs to the leakage audit, so
  `REVIEW_ONLY_VALIDATED` is unreachable; two test groups with entity pairs raise
  before anything is written.
* The prompt is read, then read again for its hash; a model replaced and put back
  between the two digest checks goes unseen; a repeated label id can put one
  group on both sides of the split (`adapters/ml/dataset.py:98-99`), although
  `docs/execution/STEP15_APPLIED_ML_REVIEW.md:25-26` says that groups cannot cross.

Telemetry
* The API accepts request ids led by a punctuation mark, which
  `CorrelationContext` refuses with an exception that ends the request. The promise
  of `observability/telemetry.py:7-8` and `docs/observability/telemetry-spec.md:104-107`,
  that nothing is raised into the product operation, is made of failing sinks, and of
  these `ViewTellsTruth` checks it; a request id is outside of both.
* A posix path is redacted only beside a colon (`observability/telemetry.py:55`),
  although `telemetry-spec.md:90-97` says that a diagnostic bundle has no host paths
  and that path payloads are removed. `ViewTellsTruth` holds of secrets, canaries,
  addresses and paths with a drive letter or backslash only.

## 8. Not modelled

* Benchmarks, step drivers and the per-step validators under `tools/`: scripts
  that read documents, run the product and write reports. They are most of the
  lines no definition stands for. The predicates they share are in `ReleaseGates`.
* The web frontend, a client of the API without state the product relies on;
  `devx.py`, which starts and stops processes.
* The inside of external engines; floating-point fits, bootstrap intervals and
  threshold studies; the wording and layout of texts, SQL and JSON.
* Wall-clock values, and with them the bound on live leases across a late
  heartbeat (a hazard without a property). A second process over one blob
  directory: `PublishedBytesExist` is about one store instance and its lock.
* List and read projections, audit rows, the per-source claim limit.

## 9. Plan

1. *Done*: jobs, workers, runs and the local runtime with their proofs; the
   abstract lifecycle and its refinement, checked and proved; the API, plans and
   artifacts, checked and proved; the product's stages, analyses and surfaces,
   checked; snapshots, the order pipeline's gate, what a clean file becomes, the star
   and its queries, identities, survivorship, the partitioned merge, reviews and
   graph views, proved.
2. Theorems about the operators of the analyses (`Profiling`, `QualityRules`,
   `Dependencies`), with the arguments of `DataInduction`.
3. Two store instances over one blob directory, and clock values for the late
   heartbeat: each closes a hazard that has no property now.
