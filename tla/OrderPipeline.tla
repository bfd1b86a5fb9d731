---------------------------- MODULE OrderPipeline ----------------------------
(***************************************************************************)
(* The stages of the local order product (application/product_runtime.py), *)
(* from a CSV file to a validated star schema: which artifacts each handler *)
(* reads, what it publishes and in which order, where it fails, and what    *)
(* becomes of a stage that breaks off between two publications and is       *)
(* resumed.  The scheduling of stages is JobWorker's; here they run one     *)
(* after the other.                                                         *)
(***************************************************************************)
EXTENDS G6Validation

Identity == INSTANCE CanonicalIdentity

CONSTANTS
    Contents,     \* the contents a source file may have: sets of records
    Faulty,       \* the contents whose runs meet faults
    MaxFaults     \* bound: breaks, edits of the file or the target, second thoughts

\* A file has finitely many records, each with a reference of its own
\* (SourceRecordReference); a quantity that parses is a number, and neither a
\* reference nor a date is mistaken for a missing value.
ASSUME ContentsAssumption ==
    \A content \in Contents \cup Faulty :
        /\ IsFiniteSet(content)
        /\ \A r, s \in content : r.ref = s.ref => r = s
        /\ \A r \in content :
              /\ r.qty \in Int \cup {Null, Bad}
              /\ NoKey \notin {r.ref, r.date} /\ {r.ref} # Null

VARIABLES
    file,       \* the source file's present content
    art,        \* kind -> published artifacts, in the order of their ids
    at,         \* the position in Stages
    attempt,    \* the number of the current attempt
    status,     \* "READY", "FAILED", "SUCCEEDED"
    reviews,    \* review_history
    target,     \* the DuckDB file
    faults

pipeVars == <<file, art, at, attempt, status, reviews, target, faults>>

Stages == <<"SOURCE_DISCOVERY", "SOURCE_SNAPSHOT_STAGE", "PROFILING", "DEPENDENCY_DISCOVERY",
            "QUALITY_ANALYSIS", "EVIDENCE_FUSION", "EVIDENCE", "CANONICAL_HYPOTHESES",
            "CANONICAL_IDENTITY_PREPARATION", "IDENTITY", "CANONICAL_FINALIZATION",
            "ANALYTICAL_PLANNING", "PLAN", "COMPILATION", "MATERIALIZATION_PLAN",
            "MATERIALIZATION", "SEMANTIC_MODELING", "VALIDATION_RECONCILIATION">>
Checkpoints == {"EVIDENCE", "IDENTITY", "PLAN", "MATERIALIZATION_PLAN"}
Stage == Stages[at]

Kinds == {"SourceCatalog", "SourceSnapshotResult", "ProfileResult", "DependencyResult",
          "QualityResult", "DomainAssertion", "EvidenceFusionResult", "RelationshipDecision",
          "CanonicalModelHypothesis", "CanonicalIdentityProposal", "CanonicalModel",
          "AnalyticalInputDataset", "AnalyticalInputBinding", "AnalyticalPlan", "Specs",
          "CompiledPlan", "GeneratedSQL", "MaterializationArtifact", "SemanticModel",
          "SemanticValidationResult", "SourceTruthManifest", "RecordAccountingArtifact",
          "ValidationReport", "ReconciliationResult"}

PipelineInit ==
    /\ file \in Contents
    /\ art = [k \in Kinds |-> <<>>]
    /\ at = 1 /\ attempt = 1 /\ status = "READY"
    /\ reviews = <<>>
    /\ target = Raised
    /\ faults = 0

PipelineIdle ==
    /\ file = {}
    /\ art = [k \in Kinds |-> <<>>]
    /\ at = 1 /\ attempt = 1 /\ status = "SUCCEEDED"
    /\ reviews = <<>>
    /\ target = Raised
    /\ faults = 0

-----------------------------------------------------------------------------
(* Reading and publishing.                                                 *)

\* _typed_from_run: of the artifacts of a kind, the last in the order of ids
Has(kind) == art[kind] # <<>>
Latest(kind) == Last(art[kind])
\* _all_typed
All(kind) == ToSet(art[kind])

Out(kind, id, fields) ==
    [kind |-> kind, id |-> id,
     value |-> [f \in DOMAIN fields \cup {"ref"} |->
                  IF f = "ref" THEN <<kind, id, attempt>> ELSE fields[f]]]
Done(outputs) == [ok |-> TRUE, outputs |-> outputs, target |-> target]
Failing(outputs) == [ok |-> FALSE, outputs |-> outputs, target |-> target]

\* _publish: an id names one artifact of one attempt.
Taken(arts, out) ==
    \E v \in ToSet(arts[out.kind]) : v.ref[2] = out.id /\ v.ref # out.value.ref
\* An id is a digest: a new artifact sorts before or after the others.
Publish(published, value, first) ==
    IF value \in ToSet(published) THEN published
    ELSE IF first THEN <<value>> \o published ELSE Append(published, value)

\* The outputs published before one is refused.
Accepted(arts, outputs) ==
    LET refused == {i \in DOMAIN outputs : Taken(arts, outputs[i])}
    IN {i \in DOMAIN outputs : \A j \in refused : i < j}
\* One after the other; a handler has at most one output of a kind.
PublishAll(arts, outputs, upto, first) ==
    [k \in Kinds |->
        LET mine == {i \in 1 .. upto : outputs[i].kind = k}
        IN IF mine = {} THEN arts[k]
           ELSE Publish(arts[k], outputs[CHOOSE i \in mine : TRUE].value, first)]

\* _accepted_review: the last accepted entry of the history, whatever came
\* after it.
AcceptedReviews(checkpoint) ==
    {i \in DOMAIN reviews : reviews[i].checkpoint = checkpoint /\ reviews[i].decision = "ACCEPTED"}
LastAccepted(checkpoint) == reviews[Max(AcceptedReviews(checkpoint))]
Reviewed(checkpoint, subject) ==
    /\ AcceptedReviews(checkpoint) # {}
    /\ Identity!Compatible(LastAccepted(checkpoint), checkpoint, subject)

-----------------------------------------------------------------------------
(* The handlers.  complete says whether an engine outside the repository   *)
(* finished its work.                                                      *)

SourceDiscovery == Done(<<Out("SourceCatalog", "schema", [columns |-> "orders"])>>)

SourceSnapshot ==
    Done(<<Out("SourceSnapshotResult", file, [snap |-> file, rows |-> file])>>)

Snapshot == Latest("SourceSnapshotResult")

Engine(kind, complete) ==
    LET out == <<Out(kind, Snapshot.snap, [snap |-> Snapshot.snap])>>
    IN IF complete THEN Done(out) ELSE Failing(out)

\* bind_source_local_identity_candidate: a candidate exists if the engine found
\* the order column unique.
IdentityCandidate(rows) == Cardinality({r.order : r \in rows}) = Cardinality(rows)

DependencyDiscovery ==
    LET found == IdentityCandidate(Snapshot.rows)
        out == <<Out("DependencyResult", Snapshot.snap, [snap |-> Snapshot.snap, found |-> found])>>
    IN IF found THEN Done(out) ELSE Failing(out)

EvidenceFusion(complete) ==
    LET s == Snapshot.snap
        out == <<Out("DomainAssertion", s, [snap |-> s]), Out("EvidenceFusionResult", s, [snap |-> s]),
                 Out("RelationshipDecision", s, [snap |-> s])>>
    IN IF ~Latest("DependencyResult").found THEN Failing(<<>>)
       ELSE IF complete THEN Done(out) ELSE Failing(out)

CanonicalHypotheses ==
    LET decision == Latest("RelationshipDecision").ref
        given == {reviews[i] : i \in AcceptedReviews("EVIDENCE")}
        link == [decision |-> decision, review |-> LastAccepted("EVIDENCE")]
        h == [kind |-> [order |-> "EVENT"], family |-> [order |-> "order_event"],
              required |-> [order_event |-> FALSE], specs |-> <<>>, relationships |-> {decision}]
    IN IF given # {} /\ Identity!HypothesisBuilds(given, {decision}, {link}, {}, <<>>)
       THEN Done(<<Out("CanonicalModelHypothesis", Snapshot.snap, [snap |-> Snapshot.snap, h |-> h])>>)
       ELSE Failing(<<>>)

\* One membership of its own for every record of the snapshot.
IdentityProposal ==
    LET h == Latest("CanonicalModelHypothesis").h
        member(r) == [type |-> "order", family |-> h.family["order"], refs |-> {r.ref}, basis |-> "SOURCE_LOCAL", edges |-> {}]
        members == SetToSeq({member(r) : r \in Snapshot.rows})
    IN IF Identity!ProposalBuilds(h, members, <<>>)
       THEN Done(<<Out("CanonicalIdentityProposal", Snapshot.snap,
                       [snap |-> Snapshot.snap, p |-> Identity!Proposal(h, members, <<>>)])>>)
       ELSE Failing(<<>>)

CanonicalFinalization ==
    LET h == Latest("CanonicalModelHypothesis").h
        p == Latest("CanonicalIdentityProposal").p
        metadata == [r \in {x.ref : x \in Snapshot.rows} |-> Snapshot.snap]
        final == Identity!Finalized(h, p, metadata)
    IN IF /\ AcceptedReviews("IDENTITY") # {}
          /\ Identity!FinalizeAllowed(h, p, LastAccepted("IDENTITY"), <<>>, metadata)
       THEN Done(<<Out("CanonicalModel", Snapshot.snap,
                       [snap |-> Snapshot.snap, relationships |-> final.relationships,
                        instances |-> final.instances, maps |-> final.maps])>>)
       ELSE Failing(<<>>)

-----------------------------------------------------------------------------
(* Planning, compilation, materialization.                                 *)

EntityFor(model, ref) == {m.entity : m \in {x \in model.maps : x.ref = ref}}

\* build_order_dataset: an unmapped record and a value its column type cannot
\* hold are refused.
DatasetBuilds(model, rows) ==
    \A r \in rows : EntityFor(model, r.ref) # {} /\ r.date # Bad /\ r.qty # Bad
DatasetRow(model, r) ==
    LET entity == CHOOSE e \in EntityFor(model, r.ref) : TRUE
    IN [ref |-> r.ref, entity |-> entity,
        cells |-> [order |-> r.order, date |-> r.date, qty |-> r.qty, cust |-> r.cust,
                   canonical_entity_id |-> entity]]

\* OrderProductPolicy.analytical_request
OrderDesign(rows) ==
    [dims |-> [dim_order |-> [role |-> "CONFORMED", refs |-> "canonical_entity_id",
                              attrs |-> {"order", "cust"}, nullable |-> {}, alternate |-> {"order"},
                              policy |-> "QUARANTINE_FACT", range |-> {},
                              key |-> [e \in {r.entity : r \in rows} |-> CHOOSE x \in e : TRUE]],
               dim_date |-> [role |-> "DATE", refs |-> "canonical_entity_id",
                             attrs |-> {}, nullable |-> {}, alternate |-> {},
                             policy |-> "EXPLICIT_UNKNOWN_MEMBER", range |-> {},
                             key |-> [t \in {r.cells.date : r \in rows} |-> t]]],
     grain |-> [columns |-> {"order"}, nulls |-> "REJECT_NULLS"],
     fks |-> <<[column |-> "canonical_entity_id", target |-> "order_key", dim |-> "dim_order", required |-> TRUE],
               [column |-> "date", target |-> "order_date_key", dim |-> "dim_date", required |-> TRUE]>>,
     plain |-> {"cust"}, measure |-> "qty"]

\* The relationships a request accepts must be finalized ones.
PlanAccepted(model, decision) == decision \in model.relationships

\* The four kinds of specification are published one by one, after the plan
\* and with nothing in between that can refuse: "Specs" is all of them.
AnalyticalPlanning ==
    LET model == Latest("CanonicalModel")
        s == Snapshot
        rows == {DatasetRow(model, r) : r \in s.rows}
        dataset == Out("AnalyticalInputDataset", s.snap,
                       [snap |-> s.snap, canonical |-> model.ref, rows |-> rows])
        binding == Out("AnalyticalInputBinding", s.snap,
                       [snap |-> s.snap, canonical |-> model.ref, dataset |-> dataset.value.ref])
        design == OrderDesign(rows)
        plan == Out("AnalyticalPlan", s.snap, [snap |-> s.snap, canonical |-> model.ref,
                       binding |-> binding.value.ref, design |-> design])
        specs == Out("Specs", s.snap, [plan |-> plan.value.ref, design |-> design])
    IN IF ~DatasetBuilds(model, s.rows) THEN Failing(<<>>)
       ELSE IF /\ PlanAccepted(model, Latest("RelationshipDecision").ref)
               /\ GrainValidates(design, rows)
       THEN Done(<<dataset, binding, plan, specs>>)
       ELSE Failing(<<dataset, binding>>)

Tables(dataset) == [dim_order |-> dataset.rows, dim_date |-> {}]

\* _validate_plan_and_review and _validate_dataset_binding
PlanCurrent(plan, binding, dataset) ==
    /\ Reviewed("PLAN", plan.ref)
    /\ binding.ref = plan.binding
    /\ dataset.canonical = plan.canonical
    /\ {v.design : v \in All("Specs")} = {plan.design}
    /\ Cardinality(All("Specs")) = 1
    /\ binding.dataset = dataset.ref /\ dataset.canonical = binding.canonical

\* The TargetConfig published beside them is one and the same in every run.
CompiledOutputs(plan, binding, sql) ==
    <<Out("CompiledPlan", plan.snap,
          [snap |-> plan.snap, plan |-> plan.ref, binding |-> binding.ref,
           canonical |-> plan.canonical, design |-> plan.design, sql |-> sql.value.ref]), sql>>

CompileStar(plan, dataset, binding, star) ==
    IF PlanCurrent(plan, binding, dataset) /\ star.ok
    THEN Done(CompiledOutputs(plan, binding, Out("GeneratedSQL", plan.snap,
                  [snap |-> plan.snap, quarantine |-> star.quarantine])))
    ELSE Failing(<<>>)

Compilation ==
    LET plan == Latest("AnalyticalPlan")
        dataset == Latest("AnalyticalInputDataset")
    IN CompileStar(plan, dataset, Latest("AnalyticalInputBinding"),
                   Compile(plan.design, Tables(dataset), dataset.rows))

\* MaterializationService.materialize; the adapter compiles the rows again
\* from the dataset, and replaces the target before the artifact is published.
Build(design, star) == IF star.ok THEN Materialize(design, star) ELSE Raised

MaterializeInto(compiled, sql, dataset, binding, built) ==
    LET out == <<Out("MaterializationArtifact", compiled.snap,
                     [snap |-> compiled.snap, ok |-> built.ok, file |-> built, compiled |-> compiled.ref,
                      quarantine |-> sql.quarantine])>>
    IN IF ~(/\ compiled.sql = sql.ref
            /\ binding.ref = compiled.binding
            /\ dataset.ref = binding.dataset
            /\ dataset.canonical = compiled.canonical
            /\ Reviewed("MATERIALIZATION_PLAN", <<compiled.ref, sql.ref>>))
       THEN Failing(<<>>)
       ELSE IF built.ok THEN [Done(out) EXCEPT !.target = built] ELSE Failing(out)

Materialization ==
    LET compiled == Latest("CompiledPlan")
        dataset == Latest("AnalyticalInputDataset")
    IN MaterializeInto(compiled, Latest("GeneratedSQL"), dataset, Latest("AnalyticalInputBinding"),
                       Build(compiled.design, Compile(compiled.design, Tables(dataset), dataset.rows)))

\* SemanticLayerService.build_model, as far as the stage is concerned
SemanticModeling ==
    LET plan == Latest("AnalyticalPlan")
        compiled == Latest("CompiledPlan")
        mat == Latest("MaterializationArtifact")
        model == Out("SemanticModel", plan.snap, [snap |-> plan.snap, plan |-> plan.ref,
                     compiled |-> compiled.ref, mat |-> mat.ref, measure |-> compiled.design.measure])
    IN IF /\ Reviewed("PLAN", plan.ref)
          /\ compiled.plan = plan.ref /\ mat.compiled = compiled.ref /\ mat.ok
          /\ Latest("CanonicalModel").ref = plan.canonical
       THEN Done(<<model, Out("SemanticValidationResult", plan.snap,
                              [model |-> model.value.ref, status |-> "PASS"])>>)
       ELSE Failing(<<>>)

-----------------------------------------------------------------------------
(* Truth, accounting and the gate.                                         *)

SumBy(rows, Pick(_)) == SumFunctionOnSet([r \in rows |-> Pick(r)], rows)

\* build_order_truth_and_accounting
TruthWith(snap, dataset, model, Amount(_)) ==
    LET rows == dataset.rows
        quantity(r) == Amount(r.cells.qty)
        direct(out) == [disposition |-> "EMITTED_DIRECT", output |-> out]
        days == {r.cells.date : r \in rows}
    IN [snap |-> snap,
        records |-> {[ref |-> r.ref, snap |-> snap, entity |-> r.entity] : r \in rows},
        entities |-> {[entity |-> r.entity, refs |-> {r.ref}] : r \in rows},
        duplicates |-> {},
        links |-> {[relationship |-> l, ref |-> r.ref, entity |-> r.entity]
                   : r \in rows, l \in {Latest("RelationshipDecision").ref}},
        facts |-> {[grain |-> [order |-> r.cells.order], event |-> r.entity, measure |-> quantity(r),
                    dims |-> [dim_order |-> r.entity], date |-> r.cells.date, refs |-> {r.ref}]
                   : r \in rows},
        expected |-> [SOURCE_TO_CANONICAL |-> [x \in {r.ref : r \in rows} |->
                          direct(CHOOSE e \in EntityFor(model, x) : TRUE)],
                      CANONICAL_TO_ANALYTICAL |-> [e \in {r.entity : r \in rows} |-> direct(e)]],
        aggregates |-> {[by |-> "global", expected |-> [global |-> SumBy(rows, quantity)]],
                        [by |-> "dim_date", expected |-> [t \in days |->
                            SumBy({r \in rows : r.cells.date = t}, quantity)]]}]
\* Mutant: the truth is what the warehouse stores, not what the source says.
TruthAsStored(snap, dataset, model) == TruthWith(snap, dataset, model, Stored)
Truth(snap, dataset, model) == TruthWith(snap, dataset, model, LAMBDA amount : amount)
Accounting(truth) == truth.expected

GateInputs(truth, dataset, model, mat) ==
    LET binding == Latest("AnalyticalInputBinding")
        plan == Latest("AnalyticalPlan")
        compiled == Latest("CompiledPlan")
        semantic == Latest("SemanticModel")
        semval == Latest("SemanticValidationResult")
    IN [truth |-> truth, accounting |-> Accounting(truth), canonical |-> model, dataset |-> dataset,
        binding |-> binding, plan |-> plan, compiled |-> compiled, mat |-> mat,
        semantic |-> semantic, semval |-> semval, target |-> ReadTarget(target, mat),
        bindings |-> <<truth, Accounting(truth), model.ref, plan.ref, dataset.ref, binding.ref,
                       compiled.ref, mat.ref, semantic.ref, semval.ref>>]

Reported(snap, mat, gate) ==
    LET out == <<Out("SourceTruthManifest", snap, [snap |-> snap]),
                 Out("RecordAccountingArtifact", snap, [snap |-> snap]),
                 Out("ValidationReport", <<snap, gate>>, [snap |-> snap, g6 |-> gate, mat |-> mat.ref]),
                 Out("ReconciliationResult", <<snap, gate>>, [snap |-> snap])>>
    IN IF gate = "PASS" THEN Done(out) ELSE Failing(out)

ValidationStage ==
    LET dataset == Latest("AnalyticalInputDataset")
        model == Latest("CanonicalModel")
        mat == Latest("MaterializationArtifact")
    IN IF \E r \in dataset.rows : r.cells.qty = Null THEN Failing(<<>>)
       ELSE Reported(Snapshot.snap, mat,
                     Gate(GateInputs(Truth(Snapshot.snap, dataset, model), dataset, model, mat)))

Handler(complete) ==
    CASE Stage = "SOURCE_DISCOVERY" -> SourceDiscovery
      [] Stage = "SOURCE_SNAPSHOT_STAGE" -> SourceSnapshot
      [] Stage = "PROFILING" -> Engine("ProfileResult", complete)
      [] Stage = "DEPENDENCY_DISCOVERY" -> DependencyDiscovery
      [] Stage = "QUALITY_ANALYSIS" -> Engine("QualityResult", complete)
      [] Stage = "EVIDENCE_FUSION" -> EvidenceFusion(complete)
      [] Stage = "CANONICAL_HYPOTHESES" -> CanonicalHypotheses
      [] Stage = "CANONICAL_IDENTITY_PREPARATION" -> IdentityProposal
      [] Stage = "CANONICAL_FINALIZATION" -> CanonicalFinalization
      [] Stage = "ANALYTICAL_PLANNING" -> AnalyticalPlanning
      [] Stage = "COMPILATION" -> Compilation
      [] Stage = "MATERIALIZATION" -> Materialization
      [] Stage = "SEMANTIC_MODELING" -> SemanticModeling
      [] Stage = "VALIDATION_RECONCILIATION" -> ValidationStage

-----------------------------------------------------------------------------
Exposed == file \in Faulty /\ faults < MaxFaults

Advance ==
    IF at = Len(Stages) THEN status' = "SUCCEEDED" /\ UNCHANGED <<at, attempt>>
    ELSE at' = at + 1 /\ attempt' = 1 /\ UNCHANGED status

\* execute_with_context: whatever is raised, a refused publication included,
\* fails the stage.
SettleStage(h, first) ==
    LET accepted == Accepted(art, h.outputs)
    IN /\ art' = PublishAll(art, h.outputs, Cardinality(accepted), first)
       /\ target' = h.target
       /\ IF h.ok /\ accepted = DOMAIN h.outputs THEN Advance
          ELSE status' = "FAILED" /\ UNCHANGED <<at, attempt>>

Execute(complete, first) ==
    /\ status = "READY" /\ Stage \notin Checkpoints
    /\ complete \/ (Exposed /\ Stage \in {"PROFILING", "QUALITY_ANALYSIS", "EVIDENCE_FUSION"})
    /\ SettleStage(Handler(complete), first)
    /\ faults' = IF complete THEN faults ELSE faults + 1
    /\ UNCHANGED <<file, reviews>>

\* The store or the disk fails after some of the outputs are published:
\* execute_with_context turns the exception into a terminal failure.
LeaveOff(h, upto, first) ==
    /\ upto \in 0 .. Cardinality(Accepted(art, h.outputs))
    /\ art' = PublishAll(art, h.outputs, upto, first)
    /\ target' = h.target

BreakOff(upto, first) ==
    /\ status = "READY" /\ Stage \notin Checkpoints /\ Exposed
    /\ LeaveOff(Handler(TRUE), upto, first)
    /\ status' = "FAILED"
    /\ faults' = faults + 1
    /\ UNCHANGED <<file, at, attempt, reviews>>

\* _resume_command runs a failed stage again, as a new attempt.  (A worker
\* that dies inside a handler leaves an UNKNOWN_SIDE_EFFECT, which is never
\* resumed: that is JobWorker's.)
Resume ==
    /\ status = "FAILED" /\ attempt <= MaxFaults
    /\ status' = "READY" /\ attempt' = attempt + 1
    /\ UNCHANGED <<file, art, at, reviews, target, faults>>

ReviewSubject(checkpoint) ==
    CASE checkpoint = "EVIDENCE" -> Latest("RelationshipDecision").ref
      [] checkpoint = "IDENTITY" -> <<Latest("CanonicalIdentityProposal").p, <<>>>>
      [] checkpoint = "PLAN" -> Latest("AnalyticalPlan").ref
      [] checkpoint = "MATERIALIZATION_PLAN" -> <<Latest("CompiledPlan").ref, Latest("GeneratedSQL").ref>>

\* A decision on the subject of the checkpoint the run waits at; only an
\* acceptance lets the run pass it.
Review(decision) ==
    /\ status = "READY" /\ Stage \in Checkpoints
    /\ decision = "ACCEPTED" \/ Exposed
    /\ reviews' = Append(reviews, [checkpoint |-> Stage, subject |-> ReviewSubject(Stage),
                                   decision |-> decision])
    /\ faults' = IF decision = "ACCEPTED" THEN faults ELSE faults + 1
    /\ IF decision = "ACCEPTED" THEN at' = at + 1 ELSE UNCHANGED at
    /\ UNCHANGED <<file, art, attempt, status, target>>

\* A passed checkpoint's review is withdrawn; the history keeps both entries.
Withdraw(i) ==
    /\ status = "READY" /\ Exposed
    /\ i \in DOMAIN reviews /\ reviews[i].decision = "ACCEPTED"
    /\ reviews' = Append(reviews, [reviews[i] EXCEPT !.decision = "INVALIDATED"])
    /\ faults' = faults + 1
    /\ UNCHANGED <<file, art, at, attempt, status, target>>

\* The source file is edited while the run is under way.
EditSource(content) ==
    /\ Exposed /\ content \in Faulty \ {file}
    /\ file' = content
    /\ faults' = faults + 1
    /\ UNCHANGED <<art, at, attempt, status, reviews, target>>

\* The target file is changed behind the product's back.
EditTarget(f) ==
    /\ Exposed /\ target.ok /\ f \in target.facts
    /\ target' = [target EXCEPT !.facts = @ \ {f}]
    /\ faults' = faults + 1
    /\ UNCHANGED <<file, art, at, attempt, status, reviews>>

PipelineNext ==
    \/ \E complete, first \in BOOLEAN : Execute(complete, first)
    \/ \E upto \in 0 .. 4, first \in BOOLEAN : BreakOff(upto, first)
    \/ Resume
    \/ \E decision \in {"ACCEPTED", "REJECTED"} : Review(decision)
    \/ \E i \in DOMAIN reviews : Withdraw(i)
    \/ \E content \in Faulty : EditSource(content)
    \/ target.ok /\ \E f \in target.facts : EditTarget(f)

PipelineSpec == PipelineInit /\ [][PipelineNext]_pipeVars

-----------------------------------------------------------------------------
\* What the records of a file say, and what the rows of a star schema say.
Told(rows) == {<<r.ref, r.order, r.date, r.qty>> : r \in rows}
DateOf(star, f) == CHOOSE t \in {m.entity : m \in star.dims.dim_date} :
                       \E m \in star.dims.dim_date : m.entity = t /\ m.key = f.keys[2]
Loaded(star) == {<<CHOOSE r \in f.refs : TRUE, f.grain.order, DateOf(star, f), f.measure>> : f \in star.facts}

\* A run succeeds only on a target whose facts say, order by order, exactly
\* what the records of a snapshot of this run said, even when a stage
\* broke off between publications and was resumed, the file was edited in between, or somebody
\* changed the target (ValidationService.validate, _validation).
GateTellsTruth ==
    [][status' = "SUCCEEDED" /\ status # "SUCCEEDED" =>
         target'.ok /\ \E s \in All("SourceSnapshotResult") : Loaded(target') = Told(s.rows)]_status

\* Every cell is there and parses, orders are unique, amounts fit the column.
Clean(rows) ==
    /\ rows # {}
    /\ IdentityCandidate(rows)
    /\ \A r \in rows : {r.order, r.date, r.qty, r.cust} \cap {Null, Bad} = {} /\ Stored(r.qty) = r.qty

\* A clean file that meets no fault gets through every stage and the gate: no
\* guard between discovery and G6 refuses what another guarantees
\* (product_runtime, ValidationService.validate).
CleanRunPasses ==
    faults = 0 /\ Clean(file) => status # "FAILED"

=============================================================================
