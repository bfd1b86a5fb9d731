----------------------------- MODULE ApiCommands -----------------------------
(***************************************************************************)
(* BackendService (application/backend.py): the use cases of the API that  *)
(* change durable state, as threads that serve requests.  A client may     *)
(* send a request any number of times, two threads may serve the same      *)
(* request, and a thread may die between any two transactions of the       *)
(* control store: the Idempotency-Key is what keeps the effects single.    *)
(*                                                                         *)
(* One run is in sight (the runs a create request makes are only           *)
(* remembered by their identity).  Workers appear as the requests of kind  *)
(* "advance" (JobWorker._advance_after_stage) and as WorkerTouchesRun.     *)
(***************************************************************************)
EXTENDS PlanPhases, Sequences, FiniteSets

CONSTANTS
    Threads,
    ApiScenarios,    \* sets of requests that clients send side by side
    Owner,        \* the principal the run belongs to
    Nothing,
    MaxApiFaults,    \* bound: threads that die, store calls that raise
    MaxRunRev,    \* bound: updates of the run row by workers
    MaxPlanRev    \* bound: revisions of the plan

\* kind, principal, Idempotency-Key, and what the fingerprint covers: a
\* record whose fields depend on the kind.
Request(kind, who, key, body) ==
    [kind |-> kind, who |-> who, key |-> key, body |-> body]

Requests == UNION ApiScenarios
Executions == {"submit", "resume", "cancel"}
Binds == {"bind", "bind_set"}
Reviews == {"review", "invalidate"}

\* The shape of a request, as the API's models check it before a use case runs.
ASSUME ApiAssumption ==
    /\ NoPlan \notin Plan
    /\ MaxApiFaults \in Nat
    /\ \A r \in Requests :
          /\ r = Request(r.kind, r.who, r.key, r.body)
          /\ r.kind \in {"create", "import", "prepare", "advance"}
                           \cup Binds \cup Reviews \cup Executions
          /\ r.kind \in Reviews => r.body.expected \in Nat
          /\ r.kind = "prepare" => r.body.intent \in Intent

\* The scope of an idempotency record names the use case and the principal.
Scope(r) == <<r.kind, r.who, r.key>>
Scopes == {Scope(r) : r \in Requests}

\* stable_id over scope, key and request: the identity of what r creates.
ResourceId(r) == <<r.who, r.key, r.body>>
SelectionId(r) == <<r.kind, r.body>>
CommandId(r) == <<Scope(r), r.body>>

VARIABLES
    sent,       \* the scenario
    idem,       \* api_idempotency
    runs,       \* identities of the runs created
    roots,      \* root_artifact_refs of the run
    runRev,     \* its revision
    selections, \* SourceSelection artifacts registered for the run
    imports,    \* managed imports on disk
    registry,   \* the durable source registry
    review,     \* review_current of the one subject: revision and decision
    history,    \* review_history, each entry with the request behind it
    plan,       \* execution_plans
    truth,      \* the trusted planning inputs
    scheduled,  \* conditional stages scheduled so far
    queue,      \* command jobs, by command identity
    thread,     \* what each thread is doing
    answers,    \* history: the outcomes clients were told, by request
    apiFaults

storeVars == <<idem, runs, roots, runRev, selections, imports, registry,
               review, history, plan, truth, scheduled, queue>>
apiVars == <<sent, storeVars, thread, answers, apiFaults>>

\* Answers: a code, and what the answer is about.
Answer(code, about) == [code |-> code, about |-> about]
Error(code) == Answer(code, Nothing)
Unknown(r) == Answer("DELIVERY_UNKNOWN", CommandId(r))

\* Codes that tell the client the outcome, as opposed to "try again".
Definite == {"RUN", "SOURCE", "BOUND", "REVIEW", "READY", "BLOCKED", "ACCEPTED"}

NoIdem == [state |-> "ABSENT", fp |-> Nothing, answer |-> Nothing]
Record(state, r, answer) == [state |-> state, fp |-> r.body, answer |-> answer]

\* A thread that has taken up r and read nothing yet.
Started(r, pc, answer) ==
    [pc |-> pc, req |-> r, rev |-> 0, roots |-> {}, plan |-> NoPlan,
     answer |-> answer]
IdleThread == Started(Nothing, "idle", Nothing)

\* What a run will discover matters only where its plan advances.
Plans(requests) == \E r \in requests : r.kind = "advance"
SimplestTruth ==
    [sources |-> 1, erRequired |-> FALSE, readable |-> TRUE, done |-> {}]

ApiInit ==
    /\ sent \in ApiScenarios
    /\ idem = [k \in Scopes |-> NoIdem]
    /\ runs = {} /\ roots = {} /\ runRev = 0 /\ selections = {}
    /\ imports = {} /\ registry = {}
    /\ review = [rev |-> 0, decision |-> "NONE"]
    /\ history = <<>>
    /\ plan = NoPlan
    /\ truth \in [sources : 1 .. 2, erRequired : BOOLEAN, readable : BOOLEAN,
                  done : {{}}]
    /\ ~Plans(sent) => truth = SimplestTruth
    /\ scheduled = {} /\ queue = {}
    /\ thread = [t \in Threads |-> IdleThread]
    /\ answers = [r \in Requests |-> {}]
    /\ apiFaults = 0

-----------------------------------------------------------------------------
ThreadAt(t, pc) == thread[t].pc = pc
Req(t) == thread[t].req
ThreadBecomes(t, me) == thread' = [thread EXCEPT ![t] = me]
ThreadGoto(t, pc) == ThreadBecomes(t, [thread[t] EXCEPT !.pc = pc])
Answering(t, answer) ==
    ThreadBecomes(t, [thread[t] EXCEPT !.pc = "reply", !.answer = answer])

Stored(r) == idem[Scope(r)]
Fresh(r) == Stored(r).state = "ABSENT"
Conflicts(r) == ~Fresh(r) /\ Stored(r).fp # r.body
Replays(r) == ~Fresh(r) /\ Stored(r).fp = r.body
Reused == Error("IDEMPOTENCY_KEY_REUSED")
Keep(r, state, answer) ==
    idem' = [idem EXCEPT ![Scope(r)] = Record(state, r, answer)]

\* record_idempotency: the first answer under a key is the one that stays.
RecordIdempotency(r, answer) ==
    IF Fresh(r) THEN Keep(r, "COMPLETED", answer) ELSE UNCHANGED idem

FirstStep(r) ==
    CASE r.kind = "create" -> "create"
      [] r.kind = "import" -> "import_lookup"
      [] r.kind \in Binds -> "bind_read"
      [] r.kind \in Reviews -> "review_read"
      [] r.kind = "advance" -> "advance_read"
      [] OTHER -> "reserve"

\* The scope and ownership checks come first in every use case of a run.
Authorized(r) == r.kind \in {"create", "import"} \/ r.who = Owner

Serve(t, r) ==
    /\ ThreadAt(t, "idle")
    /\ r \in sent
    /\ r.kind = "advance" => r.body.stage \in truth.done /\ plan.rev < MaxPlanRev
    /\ ThreadBecomes(t, IF Authorized(r) THEN Started(r, FirstStep(r), Nothing)
                        ELSE Started(r, "reply", Error("FORBIDDEN")))
    /\ UNCHANGED <<sent, storeVars, answers, apiFaults>>

Reply(t) ==
    /\ ThreadAt(t, "reply")
    /\ answers' = IF thread[t].answer.code \in Definite
                  THEN [answers EXCEPT ![Req(t)] = @ \cup {thread[t].answer}]
                  ELSE answers
    /\ ThreadBecomes(t, IdleThread)
    /\ UNCHANGED <<sent, storeVars, apiFaults>>

\* A process stops, or a store call raises out of a use case with no handler.
Die(t) ==
    /\ ~ThreadAt(t, "idle")
    /\ apiFaults < MaxApiFaults
    /\ apiFaults' = apiFaults + 1
    /\ ThreadBecomes(t, IdleThread)
    /\ UNCHANGED <<sent, storeVars, answers>>

-----------------------------------------------------------------------------
(* create_run: the run and its idempotency record in one transaction.      *)

CreateRunWithIdempotency(r) ==
    IF Fresh(r) THEN /\ runs' = runs \cup {ResourceId(r)}
                     /\ Keep(r, "COMPLETED", Answer("RUN", ResourceId(r)))
                ELSE UNCHANGED <<idem, runs>>

CreateRun(t) ==
    LET r == Req(t) IN
    /\ ThreadAt(t, "create")
    /\ CreateRunWithIdempotency(r)
    /\ Answering(t, IF Fresh(r) THEN Answer("RUN", ResourceId(r))
                    ELSE IF Conflicts(r) THEN Reused ELSE Stored(r).answer)
    /\ UNCHANGED <<sent, roots, runRev, selections, imports, registry, review,
                   history, plan, truth, scheduled, queue, answers, apiFaults>>

-----------------------------------------------------------------------------
(* import_product_source: nothing is reserved; the identity of the source  *)
(* is a function of the request, which makes a repetition harmless.        *)

ImportLookup(t) ==
    LET r == Req(t)
        id == ResourceId(r)
    IN
    /\ ThreadAt(t, "import_lookup")
    /\ IF Fresh(r) THEN ThreadGoto(t, "import_file")
       ELSE Answering(t, IF Conflicts(r) THEN Reused
                         ELSE IF id \in registry THEN Answer("SOURCE", id)
                         ELSE Error("SOURCE_IMPORT_REPLAY_INVALID"))
    /\ UNCHANGED <<sent, storeVars, answers, apiFaults>>

\* _validate_csv: what is no bounded, rectangular UTF-8 table is refused.
Acceptable(r) == r.body.csv # "malformed"

\* The checked payload moves into place by os.replace.
ImportFile(t) ==
    /\ ThreadAt(t, "import_file")
    /\ IF Acceptable(Req(t))
       THEN /\ imports' = imports \cup {ResourceId(Req(t))}
            /\ ThreadGoto(t, "import_register")
       ELSE /\ Answering(t, Error("SOURCE_IMPORT_REJECTED"))
            /\ UNCHANGED imports
    /\ UNCHANGED <<sent, idem, runs, roots, runRev, selections, registry,
                   review, history, plan, truth, scheduled, queue, answers,
                   apiFaults>>

\* DurableSourceRegistry.register: an identity that is known stays as it is.
RegisterSource(id) == registry' = registry \cup {id}

ImportRegister(t) ==
    /\ ThreadAt(t, "import_register")
    /\ RegisterSource(ResourceId(Req(t)))
    /\ ThreadGoto(t, "import_record")
    /\ UNCHANGED <<sent, idem, runs, roots, runRev, selections, imports, review,
                   history, plan, truth, scheduled, queue, answers, apiFaults>>

ImportRecord(t) ==
    LET r == Req(t)
        done == Answer("SOURCE", ResourceId(r))
    IN
    /\ ThreadAt(t, "import_record")
    /\ RecordIdempotency(r, done)
    /\ Answering(t, IF Conflicts(r) THEN Reused ELSE done)
    /\ UNCHANGED <<sent, runs, roots, runRev, selections, imports, registry,
                   review, history, plan, truth, scheduled, queue, answers,
                   apiFaults>>

-----------------------------------------------------------------------------
(* bind_product_source and bind_product_source_set.                        *)

\* The run is read first, the key second, the registry third.
BindRead(t) ==
    /\ ThreadAt(t, "bind_read")
    /\ ThreadBecomes(t, [thread[t] EXCEPT !.pc = "bind_lookup", !.rev = runRev,
                                   !.roots = roots])
    /\ UNCHANGED <<sent, storeVars, answers, apiFaults>>

\* get: a source of another owner is not found.
OwnSource(who, id) == id \in registry /\ id[1] = who

Selectable(r) ==
    /\ \A id \in r.body.sources : OwnSource(r.who, id)
    /\ r.kind = "bind_set" => Cardinality(r.body.sources) > 1

\* Mutant of BindLookup: an existing binding does not stop another one.
BindLookupUnbound(t) ==
    LET r == Req(t) IN
    /\ ThreadAt(t, "bind_lookup")
    /\ IF ~Fresh(r)
       THEN Answering(t, IF Conflicts(r) THEN Reused ELSE Stored(r).answer)
       ELSE IF ~Selectable(r)
       THEN Answering(t, Error("SOURCE_SELECTION_REJECTED"))
       ELSE ThreadGoto(t, "bind_publish")
    /\ UNCHANGED <<sent, storeVars, answers, apiFaults>>

BindLookup(t) ==
    LET r == Req(t) IN
    /\ ThreadAt(t, "bind_lookup")
    /\ IF ~Fresh(r)
       THEN Answering(t, IF Conflicts(r) THEN Reused ELSE Stored(r).answer)
       ELSE IF ~Selectable(r)
       THEN Answering(t, Error("SOURCE_SELECTION_REJECTED"))
       ELSE IF thread[t].roots # {} /\ SelectionId(r) \notin thread[t].roots
       THEN Answering(t, Error("SOURCE_ALREADY_BOUND"))
       ELSE ThreadGoto(t, "bind_publish")
    /\ UNCHANGED <<sent, storeVars, answers, apiFaults>>

BindPublish(t) ==
    /\ ThreadAt(t, "bind_publish")
    /\ selections' = selections \cup {SelectionId(Req(t))}
    /\ ThreadGoto(t, "bind_run")
    /\ UNCHANGED <<sent, idem, runs, roots, runRev, imports, registry, review,
                   history, plan, truth, scheduled, queue, answers, apiFaults>>

\* Mutant of BindRun: the run is written without comparing its revision.
BindRunBlindly(t) ==
    LET id == SelectionId(Req(t)) IN
    /\ ThreadAt(t, "bind_run")
    /\ roots' = thread[t].roots \cup {id}
    /\ runRev' = runRev + 1
    /\ ThreadGoto(t, "bind_record")
    /\ UNCHANGED <<sent, idem, runs, selections, imports, registry, review,
                   history, plan, truth, scheduled, queue, answers, apiFaults>>

\* update_run: the whole row as it was read, if nobody has written it since.
UpdateRun(rev, rows) ==
    /\ runRev = rev
    /\ roots' = rows
    /\ runRev' = runRev + 1

BindRun(t) ==
    LET id == SelectionId(Req(t))
        me == thread[t]
    IN
    /\ ThreadAt(t, "bind_run")
    /\ \/ /\ id \in me.roots
          /\ ThreadGoto(t, "bind_record")
          /\ UNCHANGED <<roots, runRev>>
       \/ /\ id \notin me.roots
          /\ UpdateRun(me.rev, me.roots \cup {id})
          /\ ThreadGoto(t, "bind_record")
       \/ /\ id \notin me.roots
          /\ runRev # me.rev
          /\ Answering(t, Error("SOURCE_BINDING_CONFLICT"))
          /\ UNCHANGED <<roots, runRev>>
    /\ UNCHANGED <<sent, idem, runs, selections, imports, registry, review,
                   history, plan, truth, scheduled, queue, answers, apiFaults>>

BindRecord(t) ==
    LET r == Req(t)
        done == Answer("BOUND", SelectionId(r))
    IN
    /\ ThreadAt(t, "bind_record")
    /\ RecordIdempotency(r, done)
    /\ Answering(t, IF Conflicts(r) THEN Error("SOURCE_BINDING_REJECTED")
                    ELSE done)
    /\ UNCHANGED <<sent, runs, roots, runRev, selections, imports, registry,
                   review, history, plan, truth, scheduled, queue, answers,
                   apiFaults>>

\* _set_run_status of some worker: the revision moves, the roots do not.  Only
\* a thread that holds a copy of the row can tell.
WorkerTouchesRun ==
    /\ \E t \in Threads :
          thread[t].pc \in {"bind_lookup", "bind_publish", "bind_run"}
    /\ runRev < MaxRunRev
    /\ runRev' = runRev + 1
    /\ UNCHANGED <<sent, idem, runs, roots, selections, imports, registry,
                   review, history, plan, truth, scheduled, queue, thread,
                   answers, apiFaults>>

-----------------------------------------------------------------------------
(* review and invalidate_review.  body.expected is expected_revision,      *)
(* body.decision the decision asked for.                                   *)

\* A stale revision is let through only for a key that is already recorded.
ReviewRead(t) ==
    LET r == Req(t)
        stale == review.rev # r.body.expected
        missing == r.kind = "invalidate" /\ review.rev = 0
    IN
    /\ ThreadAt(t, "review_read")
    /\ IF (stale \/ missing) /\ Fresh(r)
       THEN Answering(t, IF missing THEN Error("REVIEW_NOT_FOUND")
                         ELSE Error("REVIEW_REVISION_CONFLICT"))
       ELSE IF (stale \/ missing) /\ Conflicts(r)
       THEN Answering(t, Reused)
       ELSE ThreadGoto(t, "review_record")
    /\ UNCHANGED <<sent, storeVars, answers, apiFaults>>

\* Mutant of ReviewRecord: the key is not looked up again in the transaction
\* that writes, and the revision is the one found there.
ReviewRecordUnkeyed(t) ==
    LET r == Req(t)
        done == Answer("REVIEW", <<review.rev + 1, r.body.decision>>)
    IN
    /\ ThreadAt(t, "review_record")
    /\ review' = [rev |-> review.rev + 1, decision |-> r.body.decision]
    /\ history' = Append(history, [rev |-> review.rev + 1, by |-> Scope(r),
                                   decision |-> r.body.decision])
    /\ Keep(r, "COMPLETED", done)
    /\ Answering(t, done)
    /\ Len(history) < 4
    /\ UNCHANGED <<sent, runs, roots, runRev, selections, imports, registry,
                   plan, truth, scheduled, queue, answers, apiFaults>>

\* record_review: the next revision becomes current and joins the history, if
\* the current one is still the one the reviewer saw.
RecordReview(r) ==
    LET next == r.body.expected + 1 IN
    /\ review.rev = r.body.expected
    /\ review' = [rev |-> next, decision |-> r.body.decision]
    /\ history' = Append(history, [rev |-> next, by |-> Scope(r),
                                   decision |-> r.body.decision])

\* record_review_with_idempotency: replay, conflict, or compare-and-swap,
\* history and key in one transaction.
ReviewRecord(t) ==
    LET r == Req(t)
        done == Answer("REVIEW", <<r.body.expected + 1, r.body.decision>>)
    IN
    /\ ThreadAt(t, "review_record")
    /\ \/ /\ ~Fresh(r)
          /\ Answering(t, IF Conflicts(r) THEN Reused ELSE Stored(r).answer)
          /\ UNCHANGED <<idem, review, history>>
       \/ /\ Fresh(r)
          /\ RecordReview(r)
          /\ Keep(r, "COMPLETED", done)
          /\ Answering(t, done)
       \/ /\ Fresh(r)
          /\ review.rev # r.body.expected
          /\ Answering(t, Error("REVIEW_REVISION_CONFLICT"))
          /\ UNCHANGED <<idem, review, history>>
    /\ UNCHANGED <<sent, runs, roots, runRev, selections, imports, registry,
                   plan, truth, scheduled, queue, answers, apiFaults>>

-----------------------------------------------------------------------------
(* reserve_idempotency, for plan preparation and execution commands.       *)

\* Mutant of ReserveKey: whoever finds the key of its own request goes on.
ReserveAgain(t) ==
    LET r == Req(t)
        first == IF r.kind = "prepare" THEN Nothing ELSE Unknown(r)
    IN
    /\ ThreadAt(t, "reserve")
    /\ Keep(r, "RESERVED", first)
    /\ ThreadGoto(t, IF r.kind = "prepare" THEN "plan_read" ELSE "submit")
    /\ UNCHANGED <<sent, runs, roots, runRev, selections, imports, registry,
                   review, history, plan, truth, scheduled, queue, answers,
                   apiFaults>>

ReserveKey(t) ==
    LET r == Req(t)
        first == IF r.kind = "prepare" THEN Nothing ELSE Unknown(r)
    IN
    /\ ThreadAt(t, "reserve")
    /\ \/ /\ Fresh(r)
          /\ Keep(r, "RESERVED", first)
          /\ ThreadGoto(t, IF r.kind = "prepare" THEN "plan_read" ELSE "submit")
       \/ /\ ~Fresh(r)
          /\ Answering(t,
                IF Conflicts(r) THEN Reused
                ELSE IF Stored(r).answer = Nothing
                THEN Error("PLAN_PREPARATION_REPLAY_INVALID")
                ELSE Stored(r).answer)
          /\ UNCHANGED idem
    /\ UNCHANGED <<sent, runs, roots, runRev, selections, imports, registry,
                   review, history, plan, truth, scheduled, queue, answers,
                   apiFaults>>

\* A thread goes on to complete_idempotency with its answer.
Completing(t, answer) ==
    ThreadBecomes(t, [thread[t] EXCEPT !.pc = "complete", !.answer = answer])

CompleteKey(t) ==
    /\ ThreadAt(t, "complete")
    /\ Keep(Req(t), "COMPLETED", thread[t].answer)
    /\ ThreadGoto(t, "reply")
    /\ UNCHANGED <<sent, runs, roots, runRev, selections, imports, registry,
                   review, history, plan, truth, scheduled, queue, answers,
                   apiFaults>>

\* A submission whose outcome cannot be stored is UNKNOWN, here and in every
\* replay; if that cannot be stored either, the reservation says the same.
MarkUnknown(t) ==
    LET r == Req(t) IN
    /\ thread[t].pc \in {"submit", "complete"}
    /\ r.kind \in Executions
    /\ apiFaults < MaxApiFaults
    /\ apiFaults' = apiFaults + 1
    /\ \/ Keep(r, "UNKNOWN", Unknown(r))
       \/ UNCHANGED idem
    /\ Answering(t, Unknown(r))
    /\ UNCHANGED <<sent, runs, roots, runRev, selections, imports, registry,
                   review, history, plan, truth, scheduled, queue, answers>>

-----------------------------------------------------------------------------
(* ExecutionPlanService.prepare.                                           *)

\* The answer for a run that already has the plan `found'.
Prepared(found, intent) ==
    IF found.intent = intent THEN Answer("READY", <<intent>>)
                             ELSE Answer("BLOCKED", <<"EXISTING_PLAN">>)

PlanRead(t) ==
    LET r == Req(t) IN
    /\ ThreadAt(t, "plan_read")
    /\ IF plan # NoPlan
       THEN Completing(t, Prepared(plan, r.body.intent))
       ELSE ThreadBecomes(t, [thread[t] EXCEPT !.pc = "plan_register",
                                        !.plan = PreparedPlan(truth, r.body.intent)])
    /\ UNCHANGED <<sent, storeVars, answers, apiFaults>>

\* register_execution_plan: one plan per run.
RegisterPlan(mine) == plan = NoPlan /\ plan' = mine

\* A plan registered meanwhile is accepted when its content is the same.
PlanRegister(t) ==
    LET r == Req(t)
        mine == thread[t].plan
    IN
    /\ ThreadAt(t, "plan_register")
    /\ \/ /\ RegisterPlan(mine)
          /\ Completing(t, Answer("READY", <<r.body.intent>>))
       \/ /\ plan # NoPlan
          /\ Completing(t, IF plan = mine THEN Answer("READY", <<r.body.intent>>)
                           ELSE Answer("BLOCKED", <<"EXISTING_PLAN">>))
          /\ UNCHANGED plan
    /\ UNCHANGED <<sent, idem, runs, roots, runRev, selections, imports,
                   registry, review, history, truth, scheduled, queue,
                   answers, apiFaults>>

-----------------------------------------------------------------------------
(* _submission.                                                            *)

\* Mutant of Submit: the command is accepted before it is durable.
SubmitEarly(t) ==
    LET r == Req(t) IN
    /\ ThreadAt(t, "submit")
    /\ Completing(t, Answer("ACCEPTED", CommandId(r)))
    /\ UNCHANGED <<sent, storeVars, answers, apiFaults>>

Submit(t) ==
    LET r == Req(t) IN
    /\ ThreadAt(t, "submit")
    /\ IF r.kind = "submit" /\ plan = NoPlan
       THEN /\ Completing(t, Answer("BLOCKED", CommandId(r)))
            /\ UNCHANGED queue
       ELSE /\ queue' = queue \cup {CommandId(r)}
            /\ Completing(t, Answer("ACCEPTED", CommandId(r)))
    /\ UNCHANGED <<sent, idem, runs, roots, runRev, selections, imports,
                   registry, review, history, plan, truth, scheduled, answers,
                   apiFaults>>

-----------------------------------------------------------------------------
(* The stages that own planning truth, and the advance that follows them.  *)

\* A stage of the current plan succeeds and its artifact is trusted.
StageSucceeds(s) ==
    /\ plan # NoPlan
    /\ s \notin truth.done
    /\ s = "CANONICAL_HYPOTHESES" => /\ "SOURCE_DISCOVERY" \in truth.done
                                     /\ plan.phase = "SOURCE_RESOLVED"
    /\ truth' = [truth EXCEPT !.done = @ \cup {s}]
    /\ UNCHANGED <<sent, idem, runs, roots, runRev, selections, imports,
                   registry, review, history, plan, scheduled, queue, thread,
                   answers, apiFaults>>

AdvanceRead(t) ==
    /\ ThreadAt(t, "advance_read")
    /\ ThreadBecomes(t, [thread[t] EXCEPT !.pc = "advance_write", !.plan = plan])
    /\ UNCHANGED <<sent, storeVars, answers, apiFaults>>

\* advance_execution_plan: compare-and-swap on the content read.
AdvanceStoredPlan(seen, candidate) == IF plan = seen THEN candidate ELSE plan

\* A loser goes on with the winner's plan.  Then the run stops, or the selected
\* stages of the plan are scheduled.
AdvanceWrite(t) ==
    LET stage == Req(t).body.stage
        mine == thread[t].plan
        candidate == AdvancedPlan(mine, truth, stage)
        active == AdvanceStoredPlan(mine, candidate)
    IN
    /\ ThreadAt(t, "advance_write")
    /\ plan' = active
    /\ IF BlocksAfter(active, stage)
       THEN Answering(t, Error("RUN_BLOCKED")) /\ UNCHANGED scheduled
       ELSE /\ scheduled' = scheduled \cup Selected(active)
            /\ Answering(t, Error("SCHEDULED"))
    /\ UNCHANGED <<sent, idem, runs, roots, runRev, selections, imports,
                   registry, review, history, truth, queue, answers, apiFaults>>

-----------------------------------------------------------------------------
UseCase(t) ==
    \/ CreateRun(t)
    \/ ImportLookup(t) \/ ImportFile(t) \/ ImportRegister(t) \/ ImportRecord(t)
    \/ BindRead(t) \/ BindLookup(t) \/ BindPublish(t) \/ BindRun(t)
    \/ BindRecord(t)
    \/ ReviewRead(t) \/ ReviewRecord(t)
    \/ ReserveKey(t) \/ CompleteKey(t) \/ MarkUnknown(t)
    \/ PlanRead(t) \/ PlanRegister(t)
    \/ Submit(t)
    \/ AdvanceRead(t) \/ AdvanceWrite(t)

ApiNext ==
    \/ \E t \in Threads :
          \/ \E r \in Requests : Serve(t, r)
          \/ UseCase(t)
          \/ Reply(t)
          \/ Die(t)
    \/ \E s \in {"SOURCE_DISCOVERY", "CANONICAL_HYPOTHESES"} : StageSucceeds(s)
    \/ WorkerTouchesRun

ApiSpec == ApiInit /\ [][ApiNext]_apiVars
-----------------------------------------------------------------------------
(* Properties.                                                             *)

ApiTypeOK ==
    /\ sent \in ApiScenarios
    /\ \A k \in Scopes :
          idem[k].state \in {"ABSENT", "RESERVED", "COMPLETED", "UNKNOWN"}
    /\ Cardinality(roots) <= 1
    /\ plan = NoPlan \/ plan \in Plan
    /\ truth \in Truth
    /\ apiFaults \in 0 .. MaxApiFaults

\* What an answer to r claims about the durable state.
Holds(r, a) ==
    CASE a.code = "RUN"      -> a.about \in runs
      [] a.code = "SOURCE"   -> a.about \in registry \cap imports
      [] a.code = "BOUND"    -> a.about \in roots \cap selections
      [] a.code = "REVIEW"   -> /\ a.about[1] <= Len(history)
                                /\ history[a.about[1]] =
                                     [rev |-> a.about[1], by |-> Scope(r),
                                      decision |-> a.about[2]]
      [] a.code = "READY"    -> plan # NoPlan /\ plan.intent = a.about[1]
      [] a.code = "ACCEPTED" -> a.about \in queue
      [] a.code = "BLOCKED"  -> a.about \notin queue
      [] OTHER               -> TRUE

\* Every answer a client got, and every answer kept under a key for replays,
\* is true of the store then and ever after: no use case of backend.py
\* answers, or records its answer, before its effect is durable, whatever
\* threads die and whichever requests race.
AnswersAreTrue ==
    \A r \in Requests :
       /\ \A a \in answers[r] : Holds(r, a)
       /\ Replays(r) /\ Stored(r).answer # Nothing => Holds(r, Stored(r).answer)

\* However often a request is sent and by however many threads it is served,
\* its clients never get two different outcomes; errors that invite a retry
\* and DELIVERY_UNKNOWN are not outcomes.
OneOutcome ==
    \A r \in Requests :
       Cardinality({a \in answers[r] : a.code \in Definite}) <= 1

\* One key, one effect: a repeated review leaves one history entry, and the
\* revisions of the history are the ones the reviewers expected, without gap;
\* a key creates one run and one command.
OneEffectPerKey ==
    /\ \A i, j \in DOMAIN history : history[i].by = history[j].by => i = j
    /\ \A i \in DOMAIN history : history[i].rev = i
    /\ review.rev = Len(history)
    /\ \A a, b \in runs : a[1] = b[1] /\ a[2] = b[2] => a = b
    /\ \A a, b \in queue : a[1] = b[1] => a = b

\* Once a run has a source binding no request, no race of a single binding
\* with a source set and no stale copy of the run row replaces it.
BindingIsFinal == [][roots # {} => roots' = roots]_apiVars

\* A plan keeps its intent, goes through its phases in order, gets a new
\* revision with every change, and never revokes a decision: a conditional
\* stage that a worker has scheduled stays selected.
PlanMovesForward ==
    [][plan # NoPlan =>
          /\ plan' # NoPlan
          /\ plan'.intent = plan.intent
          /\ PhaseRank[plan'.phase] >= PhaseRank[plan.phase]
          /\ plan' # plan => plan'.rev > plan.rev
          /\ plan.matching # "pending" => plan'.matching = plan.matching
          /\ plan.er # "pending" => plan'.er = plan.er
          /\ scheduled' \subseteq Selected(plan')]_apiVars
=============================================================================
