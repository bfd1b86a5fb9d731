------------------------------ MODULE Telemetry ------------------------------
(***************************************************************************)
(* Signals of the runtime (observability/telemetry.py) and the places that   *)
(* emit them (jobs.py, product_runtime.py, the API middleware).  A text is   *)
(* the set of its parts, an identifier one of "plain", "marked" (led by a    *)
(* punctuation mark) and "unsafe", Absent when not given.                   *)
(*   client : [enabled, sampled (traces kept), limit, sinks, failing (sink    *)
(*            |-> signals it fails at), events, metrics, spans, delivered,     *)
(*            failures, notes, raised]                                       *)
(***************************************************************************)
EXTENDS Integers, Sequences, FiniteSets, SequencesExt, FiniteSetsExt

Absent == "absent"

-----------------------------------------------------------------------------
(* Contracts                                                                *)

Sensitive == {"secret", "email", "url_credential", "canary", "windows_path"}
\* redact_value: a posix path only where the text has a colon, as a url has
Redact(text) ==
    LET hidden == Sensitive \cup (IF text \cap {"colon", "url_credential", "windows_path"} # {} THEN {"posix_path"} ELSE {})
    IN (text \ hidden) \cup (IF text \cap hidden # {} THEN {"redacted"} ELSE {})
RedactAll(details) == [key \in DOMAIN details |-> Redact(details[key])]

TokenSafe(id) == id \in {Absent, "plain"}
\* CorrelationContext.valid_context_ids
CorrelationValid(ids) == \A key \in DOMAIN ids : TokenSafe(ids[key])
\* a trace is named by the ids it was opened with, so it is the same after a restart
Trace(ids) == [key \in {k \in DOMAIN ids : ids[k] # Absent} |-> ids[key]]
Context(ids, run) == [ids |-> ids, run |-> run, trace |-> <<run, Trace(ids)>>, valid |-> CorrelationValid(ids)]

JobStatuses == {"QUEUED", "RUNNING", "RETRY_WAIT", "NEEDS_REVIEW", "BLOCKED", "FAILED", "CANCELLED", "SUCCEEDED"}
ErrorClasses == {"AUTHORIZATION", "SOURCE_CONNECTION", "SOURCE_TIMEOUT", "SOURCE_PERMISSION", "SOURCE_FORMAT", "PROVIDER_UNAVAILABLE", "PROVIDER_TIMEOUT",
                 "VALIDATION", "REVIEW_REQUIRED", "RETRY_EXHAUSTED", "LEASE_LOST", "STALE_WORKER", "CANCELLED", "MATERIALIZATION", "INTERNAL", "UNKNOWN"}
StageKinds == {"SOURCE_DISCOVERY", "SOURCE_SNAPSHOT_STAGE", "PROFILING", "DEPENDENCY_DISCOVERY", "QUALITY_ANALYSIS", "EVIDENCE_FUSION", "CANONICAL_HYPOTHESES",
               "CANONICAL_IDENTITY_PREPARATION", "CANONICAL_FINALIZATION", "ANALYTICAL_PLANNING", "COMPILATION", "MATERIALIZATION", "SEMANTIC_MODELING",
               "VALIDATION_RECONCILIATION"}
AdapterKinds == {"file_source", "dlt_sql_source", "dataprofiler", "desbordante", "valentine", "splink", "duckdb", "product_runtime"}
ResultClasses == {"SUCCEEDED", "FAILED", "BLOCKED", "CANCELLED", "NEEDS_REVIEW", "RETRY_WAIT", "OK", "ERROR"}
\* _METRIC_LABEL_VALUES
LabelValues ==
    [run_status |-> {"CREATED", "RUNNING", "NEEDS_REVIEW", "BLOCKED", "FAILED", "CANCELLED", "SUCCEEDED", "OTHER"},
     stage_kind |-> StageKinds \cup {"OTHER"}, job_kind |-> {"COMMAND", "STAGE", "OTHER"}, job_status |-> JobStatuses \cup {"OTHER"},
     queue_state |-> JobStatuses \cup {"OTHER"}, retry_reason_class |-> ErrorClasses, adapter_kind |-> AdapterKinds \cup {"other"},
     result_class |-> ResultClasses \cup {"ACCEPTED", "REJECTED", "DEFERRED", "SKIPPED", "INVALIDATED", "OTHER"},
     review_checkpoint |-> {"REVIEW_EVIDENCE_DECISIONS", "REVIEW_CANONICAL_IDENTITY", "REVIEW_ANALYTICAL_PLAN", "REVIEW_MATERIALIZATION_PLAN", "OTHER"},
     activity |-> {"idle", "claimed", "attempted", "finalized", "OTHER"}, signal |-> {"log", "metric", "trace", "OTHER"},
     exporter |-> {"external", "OTHER"}, observation |-> {"observed", "sampled", "OTHER"}]
\* METRIC_DEFINITIONS
MetricLabels ==
    [ddo_run_lifecycle_total |-> {"run_status"}, ddo_stage_duration_seconds |-> {"stage_kind", "result_class"},
     ddo_job_lifecycle_total |-> {"job_kind", "job_status"}, ddo_job_execution_duration_seconds |-> {"result_class"},
     ddo_job_retries_total |-> {"retry_reason_class"}, ddo_review_lifecycle_total |-> {"review_checkpoint", "result_class"},
     ddo_adapter_operation_duration_seconds |-> {"adapter_kind", "result_class"}, ddo_source_records_observed_total |-> {"observation"},
     ddo_validation_outcomes_total |-> {"result_class"}, ddo_queue_jobs |-> {"queue_state"}, ddo_queue_oldest_runnable_age_seconds |-> {},
     ddo_worker_activity_total |-> {"activity"}, ddo_telemetry_exporter_failures_total |-> {"signal", "exporter"}]
\* MetricSample.validate_metric_labels
SampleValid(sample) ==
    /\ sample.name \in DOMAIN MetricLabels /\ sample.value >= 0
    /\ DOMAIN sample.labels \subseteq MetricLabels[sample.name]
    /\ \A key \in DOMAIN sample.labels : sample.labels[key] \in LabelValues[key]

\* TelemetryClient.stage_kind, result_class, queue_state, adapter_kind
StageKind(stage) == IF stage \in StageKinds THEN stage ELSE "OTHER"
ResultClass(value) == IF value \in ResultClasses THEN value ELSE "OTHER"
QueueState(value) == IF value \in JobStatuses THEN value ELSE "OTHER"
AdapterKind(value) == IF value \in AdapterKinds THEN value ELSE "other"

\* classify_error over the words of a failure's code, class and error type
SourceWords == {"SOURCE", "CONNECTION", "ACCESS", "EXTRACTION"}
ErrorRules ==       \* <<one of these, one of these too unless empty, the class>>, the first that applies
    <<<<{"AUTH", "FORBIDDEN", "UNAUTH"}, {}, "AUTHORIZATION">>, <<{"CANCEL"}, {}, "CANCELLED">>, <<{"REVIEW"}, {}, "REVIEW_REQUIRED">>,
      <<{"LEASE", "FENCE"}, {}, "LEASE_LOST">>, <<{"CONCURRENCY", "STALE"}, {}, "STALE_WORKER">>,
      <<{"TIMEOUT"}, {"PROVIDER", "ENGINE"}, "PROVIDER_TIMEOUT">>, <<{"TIMEOUT"}, {}, "SOURCE_TIMEOUT">>,
      <<SourceWords, {"PERMISSION", "ACCESS"}, "SOURCE_PERMISSION">>, <<SourceWords, {"FORMAT", "PARSE"}, "SOURCE_FORMAT">>, <<SourceWords, {}, "SOURCE_CONNECTION">>,
      <<{"PROVIDER", "DESBORDANTE", "DATAPROFILER", "VALENTINE", "SPLINK"}, {}, "PROVIDER_UNAVAILABLE">>,
      <<{"VALIDATION", "RECONCILIATION", "G6"}, {}, "VALIDATION">>, <<{"MATERIAL", "DUCKDB", "TARGET"}, {}, "MATERIALIZATION">>, <<{"RETRY"}, {}, "RETRY_EXHAUSTED">>>>
ClassifyError(words, raised) ==
    LET applies(rule) == words \cap rule[1] # {} /\ (rule[2] = {} \/ words \cap rule[2] # {})
        hit == SelectInSeq(ErrorRules, applies)
    IN IF hit = 0 THEN (IF raised THEN "INTERNAL" ELSE "UNKNOWN") ELSE ErrorRules[hit][3]

-----------------------------------------------------------------------------
(* The client                                                               *)

Fresh(enabled, sampled, limit, failing) ==
    [enabled |-> enabled, sampled |-> sampled, limit |-> limit, failing |-> failing, events |-> <<>>, metrics |-> <<>>, spans |-> <<>>,
     delivered |-> [s \in DOMAIN failing |-> <<>>], failures |-> 0, notes |-> {}, raised |-> FALSE]
\* InMemoryTelemetrySink._append: the oldest records are dropped
LastOf(records, limit) == SubSeq(records, Max({1, Len(records) - limit + 1}), Len(records))
Keep(records, value, limit) == LastOf(Append(records, value), limit)
Sample(name, value, labels) == [name |-> name, value |-> value, labels |-> labels]
ExporterFailed(signal) == Sample("ddo_telemetry_exporter_failures_total", 1, [signal |-> signal, exporter |-> "external"])
\* Mutant: a failing exporter ends the export
ExportUntilFailure(client, signal, value) ==
    FoldLeft(LAMBDA c, s : IF \E earlier \in 1 .. s : signal \in c.failing[earlier] THEN [c EXCEPT !.failures = @ + 1, !.notes = @ \cup {signal}]
                           ELSE [c EXCEPT !.delivered[s] = Append(@, value)],
             client, [s \in DOMAIN client.failing |-> s])
\* TelemetryClient._export: a failure is counted, noted once and never exported
Export(client, signal, value) ==
    FoldLeft(LAMBDA c, s : IF signal \in c.failing[s]
                           THEN [c EXCEPT !.failures = @ + 1, !.notes = @ \cup {signal}, !.metrics = Keep(@, ExporterFailed(signal), c.limit)]
                           ELSE [c EXCEPT !.delivered[s] = Append(@, value)],
             client, [s \in DOMAIN client.failing |-> s])
Raise(client) == [client EXCEPT !.raised = TRUE]
LogEvent(client, event) == Export([client EXCEPT !.events = Keep(@, event, client.limit)], "log", event)
\* emit_event, operation: the record is validated whether or not it is kept
EmitEvent(client, name, context, status, details) ==
    IF client.raised \/ ~context.valid THEN Raise(client)
    ELSE IF ~client.enabled THEN client
    ELSE LogEvent(client, [name |-> name, context |-> context, status |-> status, details |-> RedactAll(details)])
\* metric
Metric(client, name, value, labels) ==
    LET sample == Sample(name, value, labels)
    IN IF client.raised \/ ~SampleValid(sample) THEN Raise(client)
       ELSE IF ~client.enabled THEN client
       ELSE Export([client EXCEPT !.metrics = Keep(@, sample, client.limit)], "metric", sample)
\* record_span: a trace is kept whole or not at all
RecordSpan(client, span) ==
    IF client.raised \/ ~client.enabled \/ span.context.trace \notin client.sampled THEN client
    ELSE Export([client EXCEPT !.spans = Keep(@, span, client.limit)], "trace", span)
\* A signal sent only where its condition holds
MetricIf(holds, client, name, value, labels) == IF holds THEN Metric(client, name, value, labels) ELSE client
EmitIf(holds, client, name, context, status) == IF holds THEN EmitEvent(client, name, context, status, <<>>) ELSE client
\* span, _SpanScope.__exit__: the error of the body is reported and not swallowed
CloseSpan(client, name, context, failed) ==
    EmitIf(failed, RecordSpan(client, [name |-> name, context |-> context, status |-> IF failed THEN "ERROR" ELSE "OK"]),
           "telemetry.operation_failed", context, "ERROR")

-----------------------------------------------------------------------------
(* Where signals are emitted                                                *)

\* observe_stage_result
ObserveStage(client, context, stage, status, rows, words) ==
    LET result == ResultClass(IF status \in {"FAILED", "BLOCKED"} THEN "FAILED" ELSE status)
        timed == Metric(client, "ddo_stage_duration_seconds", 1, [stage_kind |-> StageKind(stage), result_class |-> result])
        counted == MetricIf(stage = "SOURCE_SNAPSHOT_STAGE" /\ rows >= 0, timed, "ddo_source_records_observed_total", rows, [observation |-> "observed"])
        judged == MetricIf(stage = "VALIDATION_RECONCILIATION", counted, "ddo_validation_outcomes_total", 1, [result_class |-> result])
    IN EmitEvent(judged, "stage.finished", context, status, [error_class |-> {ClassifyError(words, FALSE)}, stage_kind |-> {StageKind(stage)}])
\* LocalProductStageHandlers._adapter_kind
AdapterOf(stage) ==
    CASE stage \in {"SOURCE_DISCOVERY", "SOURCE_SNAPSHOT_STAGE"} -> "file_source"
      [] stage = "PROFILING" -> "dataprofiler"
      [] stage = "DEPENDENCY_DISCOVERY" -> "desbordante"
      [] stage \in {"MATERIALIZATION", "VALIDATION_RECONCILIATION"} -> "duckdb"
      [] OTHER -> "product_runtime"
\* execute_with_context, adapter_operation, observe_adapter_operation: the
\* body's error is already a failed result when the span closes
ExecuteStage(client, context, stage, status, rows, words) ==
    LET spanned == CloseSpan(client, "adapter.operation", context, FALSE)
        timed == Metric(spanned, "ddo_adapter_operation_duration_seconds", 1, [adapter_kind |-> AdapterKind(AdapterOf(stage)), result_class |-> ResultClass(status)])
    IN IF status = "CANCELLED_BEFORE" THEN EmitEvent(client, "stage.cancelled", context, "CANCELLED", <<>>)
       ELSE ObserveStage(timed, context, stage, status, rows, words)
\* queue_snapshot: one gauge for each status, and the age of the oldest runnable job
QueueSnapshot(client, jobs) ==
    LET statuses == SetToSortSeq({j.status : j \in jobs}, LAMBDA a, b : Cardinality({j \in jobs : j.status = a}) > Cardinality({j \in jobs : j.status = b}))
        counted == FoldLeft(LAMBDA c, st : Metric(c, "ddo_queue_jobs", Cardinality({j \in jobs : j.status = st}), [queue_state |-> QueueState(st)]), client, statuses)
        runnable == {j.age : j \in {x \in jobs : x.status \in {"QUEUED", "RETRY_WAIT"}}}
    IN IF runnable = {} THEN counted ELSE Metric(counted, "ddo_queue_oldest_runnable_age_seconds", Max(runnable \cup {0}), <<>>)
\* JobWorker.run_once up to the fault point, and its idle return
Claimed(client, context, job, jobs) ==
    IF job = <<>> THEN Metric(client, "ddo_worker_activity_total", 1, [activity |-> "idle"])
    ELSE QueueSnapshot(Metric(EmitEvent(client, "job.claimed", context, job.status, <<>>), "ddo_job_lifecycle_total", 1,
                              [job_kind |-> job.kind, job_status |-> job.status]), jobs)
Reason(words) == IF words = {} THEN "UNKNOWN" ELSE ClassifyError(words, FALSE)
\* JobWorker._observe_finalization
ObserveFinalization(client, context, job, words, checkpoints) ==
    LET told == Metric(EmitEvent(client, "job.finalized", context, job.status, [error_class |-> {Reason(words)}]), "ddo_job_lifecycle_total", 1,
                       [job_kind |-> job.kind, job_status |-> job.status])
        timed == Metric(told, "ddo_job_execution_duration_seconds", 1, [result_class |-> ResultClass(job.status)])
        retried == EmitIf(job.status = "RETRY_WAIT",
                          MetricIf(job.status = "RETRY_WAIT", timed, "ddo_job_retries_total", 1, [retry_reason_class |-> Reason(words)]),
                          "job.retry_scheduled", context, job.status)
    IN FoldLeft(LAMBDA c, checkpoint : Metric(c, "ddo_review_lifecycle_total", 1, [review_checkpoint |-> checkpoint, result_class |-> "NEEDS_REVIEW"]),
                retried, IF job.status # "NEEDS_REVIEW" THEN <<>> ELSE IF checkpoints = <<>> THEN <<"OTHER">> ELSE checkpoints)
\* BackendService.record_review, after the decision is stored
ObserveReview(client, context, checkpoint, decision) ==
    Metric(EmitEvent(client, "review.recorded", context, decision, <<>>), "ddo_review_lifecycle_total", 1, [review_checkpoint |-> checkpoint, result_class |-> decision])
\* JobWorker._set_run_status, before the run is written
ObserveRunStatus(client, context, status) ==
    EmitEvent(Metric(client, "ddo_run_lifecycle_total", 1, [run_status |-> status]), "run.status_changed", context, status, <<>>)
\* _safe_request_id lets a leading mark through, the middleware's run id does not
RequestId(given) == IF given \in {"plain", "marked"} THEN given ELSE "plain"
\* telemetry_request around one request
ApiRequest(client, runId, requestId, failed) ==
    LET context == Context([run_id |-> IF TokenSafe(runId) THEN runId ELSE Absent, request_id |-> RequestId(requestId)], runId)
        closed == IF context.valid THEN CloseSpan(client, "api.request", context, failed) ELSE Raise(client)
    IN EmitEvent(closed, "api.request", context, IF failed THEN "500" ELSE "200", <<>>)

\* build_diagnostic_bundle: store is [status, jobs (in list order), artifacts
\* (artifact |-> what verify returns)]
DiagnosticBundle(client, run, store) ==
    LET ofRun(records) == SelectSeq(records, LAMBDA e : e.context.run = run)
        staged == {store.jobs[i].stage : i \in {j \in DOMAIN store.jobs : store.jobs[j].stage # ""}}
        last(stage) == Max({i \in DOMAIN store.jobs : store.jobs[i].stage = stage})
    IN [stages |-> [stage \in staged |-> store.jobs[last(stage)].status], jobs |-> Len(store.jobs), events |-> ofRun(client.events),
        integrity |-> [a \in DOMAIN store.artifacts |-> IF store.artifacts[a] = "raises" THEN "NOT_CHECKED" ELSE store.artifacts[a]],
        traces |-> {e.name : e \in Range(ofRun(client.spans))}, metrics |-> {s.name : s \in Range(client.metrics)},
        degraded |-> client.failures > 0, notes |-> client.notes]

-----------------------------------------------------------------------------
(* What signals may and may not do                                          *)

\* whether exporters fail, are absent, or telemetry is off, the operation ends the same
Isolated(client, silent) == client.raised = silent.raised /\ silent.events = <<>> /\ silent.metrics = <<>> /\ silent.spans = <<>>
\* a healthy sink gets every signal in order whatever the other sinks do; a
\* failure is reported to the memory alone
ExportsIndependent(client, healthy) ==
    \A s \in DOMAIN client.failing :
        /\ client.failing[s] = {} => client.delivered[s] = healthy.delivered[s]
        /\ \A i \in DOMAIN client.delivered[s] : client.delivered[s][i] \notin {ExporterFailed(x) : x \in {"log", "metric", "trace"}}
MemoryBounded(client) == \A records \in {client.events, client.metrics, client.spans} : Len(records) <= client.limit
DegradationTold(client, bundle) ==
    /\ bundle.degraded <=> (client.failures > 0)
    /\ (client.notes = {}) <=> (client.failures = 0)
    /\ client.failures > 0 /\ Len(client.metrics) < client.limit =>
           Cardinality({i \in DOMAIN client.metrics : client.metrics[i].name = "ddo_telemetry_exporter_failures_total"}) = client.failures
\* no recorded detail keeps a part of the shapes redact_value hides wherever they
\* stand: secrets, credentials in a url, e-mail addresses, canaries and paths
\* with a drive letter or backslash.  A posix path is hidden only beside a colon
\* and is not among them.
NothingSecret(client) == \A e \in Range(client.events) : \A key \in DOMAIN e.details : e.details[key] \cap Sensitive = {}
=============================================================================
