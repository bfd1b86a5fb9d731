----------------------------- MODULE Evaluation -----------------------------
(***************************************************************************)
(* Offline evaluation of the inference stages (evaluation/service.py,       *)
(* metrics.py, splitting.py, provider_binding.py, contracts.py).  Scores    *)
(* are integers in percent, NoScore when absent; a metric is                *)
(* [value, reason], the value a fraction <<numerator, denominator>>.        *)
(*   query   : [id, group, slices, conflict, incomplete, candidates], each   *)
(*             candidate [id, score, raw, alt, conflict, incomplete], the     *)
(*             marks {} when it has none of its own                         *)
(*   record  : [ref, group, email, phone], the tokens anonymised            *)
(*   truth   : [relationship, schema (query |-> candidates), positive,       *)
(*             negative (sets of pairs), clusters (entity |-> records)]     *)
(* Bucket(group) is the split a group's hash falls in.                      *)
(***************************************************************************)
EXTENDS Integers, Sequences, FiniteSets, SequencesExt, FiniteSetsExt

CONSTANT Bucket(_)

NoScore == -1
Unit == 60          \* 1/1 .. 1/6 are whole multiples of 1/Unit
Splits == {"DEVELOPMENT", "CALIBRATION", "TEST"}
RequiredProviders == {"dependency_discovery", "schema_matching", "entity_resolution"}

-----------------------------------------------------------------------------
(* Examples                                                                 *)

InTruth(truth, query) == IF query \in DOMAIN truth THEN truth[query] ELSE {}
\* InferenceEvaluationExample
Example(task, group, query, candidate, score, label) ==
    [task |-> task, id |-> candidate, group |-> group, query |-> query, score |-> score, label |-> label,
     conflict |-> FALSE, incomplete |-> FALSE, slices |-> {}, raw |-> NoScore]
Flatten(seqs) == FoldLeft(LAMBDA done, s : done \o s, <<>>, seqs)
Own(marks, inherited) == IF marks = {} THEN inherited ELSE TRUE \in marks
\* _relationship_examples
RelationshipExamples(queries, truth) ==
    Flatten([q \in DOMAIN queries |-> [c \in DOMAIN queries[q].candidates |->
        LET query == queries[q]  candidate == query.candidates[c]
            row == Example("RELATIONSHIP_FUSION", query.group, query.id, candidate.id, candidate.score,
                           IF candidate.id \in InTruth(truth, query.id) THEN 1 ELSE 0)
        IN [row EXCEPT !.conflict = Own(candidate.conflict, query.conflict), !.incomplete = Own(candidate.incomplete, query.incomplete),
                       !.slices = query.slices, !.raw = candidate.raw]]])
\* _schema_examples: conflict and completeness are not carried over
SchemaExamples(queries, truth) ==
    Flatten([q \in DOMAIN queries |-> [c \in DOMAIN queries[q].candidates |->
        LET query == queries[q]  candidate == query.candidates[c]
        IN [Example("SCHEMA_MATCHING", query.group, query.id, candidate.id, candidate.score,
                    IF candidate.id \in InTruth(truth, query.id) THEN 1 ELSE 0) EXCEPT !.slices = query.slices]]])
SharedAnchor(left, right) ==
    \E field \in {"email", "phone"} : left[field] = right[field] /\ left[field] \notin {"", "missing", "placeholder"}
Pairs(refs) == {pair \in SUBSET refs : Cardinality(pair) = 2}
\* _entity_rows: pairs of one group whose truth is known, scored by a shared anchor
EntityRows(records, truth) ==
    {[Example("ENTITY_RESOLUTION_PAIRWISE", l.group, l.group, {l.ref, r.ref}, IF SharedAnchor(l, r) THEN 100 ELSE 0,
              IF {l.ref, r.ref} \in truth.positive THEN 1 ELSE 0) EXCEPT !.slices = {l.group}] :
        <<l, r>> \in {p \in records \X records : p[1].ref < p[2].ref /\ p[1].group = p[2].group
                                                 /\ {p[1].ref, p[2].ref} \in truth.positive \cup truth.negative}}

-----------------------------------------------------------------------------
(* Splits                                                                   *)

\* Mutant: a frozen role is ignored
AssignGroupsByBucket(groups, roles) == [g \in groups |-> Bucket(g)]
\* assign_groups: a frozen role first, the bucket otherwise
AssignGroups(groups, roles) == [g \in groups |-> IF g \in DOMAIN roles THEN roles[g] ELSE Bucket(g)]
RolesKnown(assigned) == \A g \in DOMAIN assigned : assigned[g] \in Splits
\* build_split_manifest: reversed is the pairing of groups that hold the same
\* pair of tables in both directions, Unpaired when no pairing is given
LeakageAudit(assigned, reversed) ==
    LET groups(role) == {g \in DOMAIN assigned : assigned[g] = role}
        role(g) == IF g \in DOMAIN assigned THEN assigned[g] ELSE "none"
    IN [intersections |-> UNION {groups(a) \cap groups(b) : <<a, b>> \in {p \in Splits \X Splits : p[1] # p[2]}},
        kept |-> IF reversed = {} THEN "none" ELSE IF \A p \in reversed : role(p[1]) = role(p[2]) THEN "kept" ELSE "apart"]
\* the audit value is None, hence false, when no pairing was given
LeakagePass(audit) == audit.intersections = {} /\ audit.kept = "kept"
\* SplitManifest.groups_are_disjoint
ManifestValid(audit) == audit.intersections = {}
SplitRows(rows, assigned, split) == SelectSeq(rows, LAMBDA row : assigned[row.group] = split)

-----------------------------------------------------------------------------
(* Metrics                                                                  *)

Defined(n, d) == [value |-> <<n, d>>, reason |-> ""]
Undefined(why) == [value |-> <<>>, reason |-> why]
\* MetricValue.explicit_undefined
MetricValid(metric) == metric.value = <<>> => metric.reason # ""
SafeRatio(n, d, why) == IF d # 0 THEN Defined(n, d) ELSE Undefined(why)
Count(rows, Test(_)) == Len(SelectSeq(rows, Test))
\* by falling score, then by id; an absent score ranks last
Ordered(rows) ==
    SortSeq(rows, LAMBDA a, b : \/ a.score > b.score
                                \/ a.score = b.score /\ a.id < b.id)
\* average_precision
HitsIn(order, i) == Cardinality({j \in 1 .. i : order[j].label = 1})
PrecisionOver(order, positives) ==
    IF positives = 0 THEN Undefined("NO_POSITIVE_LABELS")
    ELSE Defined(FoldLeft(LAMBDA total, i : total + IF order[i].label = 1 THEN (Unit * HitsIn(order, i)) \div i ELSE 0, 0, [i \in DOMAIN order |-> i]),
                 Unit * positives)
AveragePrecision(rows) == PrecisionOver(Ordered(rows), Cardinality({i \in DOMAIN rows : rows[i].label = 1}))
\* binary_classification_metrics over rows and a prediction for each
Confusion(rows, universe, tp, fp, fn) ==
    [tp |-> tp, fp |-> fp, fn |-> fn, tn |-> universe - tp - fp - fn,
     precision |-> SafeRatio(tp, tp + fp, "NO_PREDICTED_POSITIVES"), recall |-> SafeRatio(tp, tp + fn, "NO_TRUTH_POSITIVES"),
     f1 |-> SafeRatio(2 * tp, 2 * tp + fp + fn, "NO_POSITIVE_OR_PREDICTED_POSITIVES"),
     ap |-> AveragePrecision(rows), evaluated |-> Len(rows), positives |-> tp + fn]
Classification(rows, predicted, universe) ==
    LET counted(label, answer) == Cardinality({i \in DOMAIN rows : rows[i].label = label /\ predicted[i] = answer})
    IN Confusion(rows, universe, counted(1, TRUE), counted(0, TRUE), counted(1, FALSE))
Confident(row) == row.score >= 50
\* the prediction of the relationship task and of the error list
Predicts(row) == Confident(row) /\ ~row.conflict /\ ~row.incomplete

\* _ndcg with 1 / log2(position + 1) in thousandths
Discount == <<1000, 631, 500, 431, 387, 356>>
Gain(labels, k) == FoldLeft(LAMBDA total, i : total + labels[i] * Discount[i], 0, [i \in 1 .. Min({k, Len(labels)}) |-> i])
Ndcg(labels, k) == <<Gain(labels, k), Gain(SortSeq(labels, LAMBDA a, b : a > b), k)>>
\* ranking_metrics: queries without a truth or with one candidate are not ranked
\* ranked gives the rows of each query in order, hits the places of its truths
RankingOver(truth, ranked, hits, positive, eligible) ==
    [eligible |-> eligible, single |-> positive \ eligible, noPositive |-> DOMAIN ranked \ positive,
     reciprocal |-> [q \in eligible |-> IF hits[q] = {} THEN 0 ELSE Unit \div Min(hits[q])],
     recall |-> [q \in eligible |-> [k \in {1, 3, 5} |-> <<Cardinality({i \in hits[q] : i <= k}), Cardinality(truth[q])>>]],
     ndcg |-> [q \in {r \in eligible : hits[r] # {}} |->
                  [k \in {1, 3, 5} |-> Ndcg([i \in DOMAIN ranked[q] |-> IF i \in hits[q] THEN 1 ELSE 0], k)]],
     hardNegatives |-> MapThenSumSet(LAMBDA q : Cardinality({i \in DOMAIN ranked[q] \ hits[q] : ranked[q][i].label = 0}), DOMAIN ranked)]
RankingOf(truth, ranked, positive) ==
    RankingOver(truth, ranked, [q \in DOMAIN ranked |-> {i \in DOMAIN ranked[q] : ranked[q][i].id \in InTruth(truth, q)}], positive,
                {q \in positive : Len(ranked[q]) >= 2})
RankingMetrics(rows, truth) ==
    LET queries == {r.query : r \in {x \in Range(rows) : x.score # NoScore}}
    IN RankingOf(truth, [q \in queries |-> Ordered(SelectSeq(rows, LAMBDA r : r.query = q /\ r.score # NoScore))],
                 {q \in queries : InTruth(truth, q) # {}})

\* _entity_clusters: connected records over the pairs that scored
EntityClusters(rows) ==
    LET refs == UNION {r.id : r \in rows}
        links == {r.id : r \in {q \in rows : q.score = 100}}
        Reach[k \in 0 .. Cardinality(refs), v \in refs] ==
            IF k = 0 THEN {v} ELSE Reach[k - 1, v] \cup UNION {l \in links : l \cap Reach[k - 1, v] # {}}
    IN {c \in {Reach[Cardinality(refs), v] : v \in refs} : Cardinality(c) > 1}
\* entity_resolution_metrics: "ValueError" unless the pairs are all the pairs
\* of the records and the clusters, with singletons for the rest, a partition
EntityMetrics(predicted, truthPairs, clusters, found, universe) ==
    LET truth == {clusters[e] : e \in DOMAIN clusters}
        records == UNION universe \cup UNION truth
        inFound == UNION found
        partition == found \cup {{r} : r \in records \ inFound}
        falseMerges == predicted \ truthPairs
        contaminated == {c \in found : \/ Cardinality({e \in DOMAIN clusters : c \cap clusters[e] # {}}) > 1
                                       \/ Pairs(c) \cap falseMerges # {}}
        largest(sets, s) == Max({0} \cup {Cardinality(s \cap t) : t \in sets})
        tp == Cardinality(predicted \cap truthPairs)
        fn == Cardinality(truthPairs \ predicted)
    IN IF \/ universe # Pairs(records)
          \/ ~inFound \subseteq records
          \/ MapThenSumSet(Cardinality, found) # Cardinality(inFound)
          \/ ~predicted \subseteq universe \/ ~truthPairs \subseteq universe
       THEN [raised |-> TRUE]
       ELSE [raised |-> FALSE, tp |-> tp, fp |-> Cardinality(falseMerges), fn |-> fn, tn |-> Cardinality(universe) - tp - Cardinality(falseMerges) - fn,
             falseMergeRate |-> SafeRatio(Cardinality(falseMerges), Cardinality(predicted), "NO_PREDICTED_LINKS"),
             contaminated |-> contaminated, largestFalseMerge |-> Max({0} \cup {Cardinality(c) : c \in contaminated}),
             split |-> {e \in DOMAIN clusters : Cardinality({c \in partition : c \cap clusters[e] # {}}) > 1},
             purity |-> [c \in found |-> <<largest(truth, c), Cardinality(c)>>],
             completeness |-> [e \in DOMAIN clusters |-> <<largest(partition, clusters[e]), Cardinality(clusters[e])>>],
             partition |-> partition, records |-> records]

-----------------------------------------------------------------------------
(* Studies of the relationship rows                                         *)

ThresholdPoints == [i \in 1 .. 9 |-> 10 * i]
\* _threshold_study: no threshold is ever selected
\* the rows accepted by a threshold, and those of one tag among them
AcceptedHits(rows) == Count(rows, LAMBDA r : r.label = 1)
OfSlice(rows, tag) == SelectSeq(rows, LAMBDA r : tag \in r.slices)
ThresholdPoint(scored, eligible, accepted, hits) ==
    [accepted |-> Len(accepted), tp |-> hits, fp |-> Len(accepted) - hits, reviewed |-> Len(scored) - Len(accepted),
     abstained |-> Len(scored) - Len(eligible), total |-> Len(scored),
     precision |-> SafeRatio(hits, Len(accepted), "NO_AUTO_ACCEPTED_EXAMPLES"),
     recall |-> SafeRatio(hits, AcceptedHits(scored), "NO_TRUTH_POSITIVES"),
     slices |-> [tag \in UNION {r.slices : r \in Range(accepted)} |-> <<AcceptedHits(OfSlice(accepted, tag)), Len(OfSlice(accepted, tag))>>]]
PointAt(scored, eligible, accepted) == ThresholdPoint(scored, eligible, accepted, AcceptedHits(accepted))
StudyOf(scored, eligible) ==
    [i \in DOMAIN ThresholdPoints |-> PointAt(scored, eligible, SelectSeq(eligible, LAMBDA r : r.score >= ThresholdPoints[i]))]
StudyScored(scored) == StudyOf(scored, SelectSeq(scored, LAMBDA r : ~r.conflict /\ ~r.incomplete))
ThresholdStudy(rows) == StudyScored(SelectSeq(rows, LAMBDA r : r.score # NoScore))
\* _band_counts
Band(row) ==
    CASE row.incomplete -> "INSUFFICIENT"
      [] ~row.incomplete /\ row.conflict -> "CONFLICTED"
      [] ~row.incomplete /\ ~row.conflict -> IF row.score >= 75 THEN "HIGH" ELSE IF row.score >= 40 THEN "MEDIUM" ELSE "LOW"
BandCounts(rows) == [b \in {"HIGH", "MEDIUM", "LOW", "CONFLICTED", "INSUFFICIENT"} |-> Count(rows, LAMBDA r : Band(r) = b)]
\* _relationship_baselines: the fused score against the raw one and against type compatibility
Baselines(rows) ==
    LET raw(r) == IF r.raw = NoScore THEN r.score >= 50 ELSE r.raw >= 50
    IN [fusion |-> Classification(rows, [i \in DOMAIN rows |-> Confident(rows[i])], Len(rows)),
        raw |-> Classification(rows, [i \in DOMAIN rows |-> raw(rows[i])], Len(rows)),
        typed |-> Classification(rows, [i \in DOMAIN rows |-> "type_mismatch" \notin rows[i].slices], Len(rows))]
\* _slice_metrics
SliceMetrics(rows) ==
    [tag \in UNION {rows[i].slices : i \in DOMAIN rows} |->
        [count |-> Count(rows, LAMBDA r : tag \in r.slices), positive |-> Count(rows, LAMBDA r : tag \in r.slices /\ r.label = 1)]]
\* _errors
ErrorCategory(row) == IF row.incomplete THEN "MISSING_EVIDENCE" ELSE IF row.conflict THEN "CONFLICT_DEFERRED" ELSE "RANKING_ERROR"
Errors(rows) ==
    LET wrong == SelectSeq(rows, LAMBDA r : Predicts(r) # (r.label = 1)) IN [i \in DOMAIN wrong |-> [id |-> wrong[i].id, category |-> ErrorCategory(wrong[i])]]

-----------------------------------------------------------------------------
(* The learned ranker's part: one candidate and one label of each query row *)

\* _applied_ml_candidates, _applied_ml_labels: alternates end in the second table
MlCandidates(queries) ==
    UNION {{[id |-> c.id, from |-> q.id, to |-> IF c.alt THEN "clients" ELSE "customers", unique |-> IF c.raw = NoScore THEN c.score ELSE c.raw,
             typed |-> "type_mismatch" \notin q.slices, low |-> "low_cardinality_trap" \in q.slices] : c \in Range(q.candidates)} : q \in Range(queries)}
MlLabels(queries, truth) ==
    UNION {{[candidate |-> c.id, pair |-> {q.id, IF c.alt THEN "clients" ELSE "customers"}, group |-> q.group,
             label |-> IF c.id \in InTruth(truth, q.id) THEN 1 ELSE 0] : c \in Range(q.candidates)} : q \in Range(queries)}

-----------------------------------------------------------------------------
(* Provider output                                                          *)

\* bind_provider_output.  receipt: [state, fields, sealed, complete, hash,
\* post, fixtures, population]; output is the hash on disk, "" when absent.
\* A receipt that is not an object raises.
Binding(receipt, output, fixtures, population) ==
    LET readable == receipt.state = "object"
        named(f) == readable /\ f \in receipt.fields
        located == named("output_artifact")
        reasons ==
            (IF receipt.state = "missing" THEN {"RECEIPT_MISSING"} ELSE {})
            \cup (IF receipt.state = "unreadable" \/ (readable /\ ~(located /\ named("output_hash"))) THEN {"RECEIPT_INVALID"} ELSE {})
            \cup (IF located /\ named("output_hash") /\ ~named("all") THEN {"RECEIPT_REQUIRED_FIELD_MISSING"} ELSE {})
            \cup (IF located /\ named("output_hash") /\ named("all") /\ ~receipt.sealed THEN {"RECEIPT_CONTENT_HASH_MISMATCH"} ELSE {})
            \cup (IF located /\ named("output_hash") /\ ~receipt.complete THEN {"EXECUTION_RESULT_NOT_COMPLETE"} ELSE {})
            \cup (IF located /\ output # "" /\ (~named("output_hash") \/ output # receipt.hash) THEN {"OUTPUT_HASH_MISMATCH"} ELSE {})
            \cup (IF ~located \/ output = "" THEN {"NORMALIZED_OUTPUT_MISSING"} ELSE {})
            \cup (IF readable /\ receipt.post THEN {"RECEIPT_CONTAINS_POST_EXECUTION_BINDING"} ELSE {})
            \cup (IF fixtures # {} /\ (~readable \/ receipt.fixtures # fixtures) THEN {"SCENARIO_FIXTURE_HASH_MISMATCH"} ELSE {})
            \cup (IF population # "" /\ (~readable \/ receipt.population # population) THEN {"PROVIDER_TRUTH_POPULATION_MISMATCH"} ELSE {})
    IN IF receipt.state = "list" THEN [status |-> "raised", reasons |-> {}]
       ELSE [status |-> IF reasons = {} THEN "EXECUTED" ELSE "INSUFFICIENT_EVIDENCE", reasons |-> reasons]

-----------------------------------------------------------------------------
(* InferenceEvaluationService.run                                           *)

\* InferenceValidityAssessment.safe_automation_boundary
AssessmentValid(a) ==
    /\ a.automation = "NOT_AUTHORIZED"
    /\ a.status = "REVIEW_ONLY_VALIDATED" => a.heldOut = "EXECUTED_UNTOUCHED_BY_TUNING"
Written == <<"split_manifest", "relationship", "schema_matching", "entity_resolution", "applied_ml", "semantic_ai", "thresholds", "bootstrap", "errors">>
\* the report, or nothing written when a role is unknown or the entity pairs
\* are not a complete universe; a failing ranker is contained
Assessment(leakage, providers) ==
    [status |-> IF leakage /\ \A p \in RequiredProviders : p \in DOMAIN providers /\ providers[p] = "EXECUTED"
                THEN "REVIEW_ONLY_VALIDATED" ELSE "INSUFFICIENT_EVIDENCE",
     automation |-> "NOT_AUTHORIZED", heldOut |-> "EXECUTED_UNTOUCHED_BY_TUNING", leakage |-> IF leakage THEN "PASS" ELSE "FAIL"]
\* rows and schema are the held-out ones, calibration those thresholds are studied on
Report(truth, assigned, audit, rows, schema, calibration, entityRows, tested, found, providers, ml) ==
    [raised |-> FALSE, written |-> Written \o <<"assessment", "report">>, assigned |-> assigned, audit |-> audit,
     rows |-> rows, schemaRows |-> schema, calibration |-> calibration,
     relationship |-> Classification(rows, [i \in DOMAIN rows |-> Predicts(rows[i])], Len(rows)),
     schema |-> Classification(schema, [i \in DOMAIN schema |-> Confident(schema[i])], Len(schema)),
     ranking |-> RankingMetrics(rows, truth.relationship), schemaRanking |-> RankingMetrics(schema, truth.schema),
     entity |-> found, tested |-> tested, entityRows |-> entityRows, thresholds |-> ThresholdStudy(calibration),
     bands |-> BandCounts(rows), baselines |-> Baselines(rows), slices |-> SliceMetrics(rows), errors |-> Errors(rows \o schema),
     \* candidate generation: queries with a truth, and those whose truth was proposed
     asked |-> {q \in {r.query : r \in Range(rows)} : InTruth(truth.relationship, q) # {}},
     proposed |-> {r.query : r \in {x \in Range(rows) : x.id \in InTruth(truth.relationship, x.query)}},
     tasks |-> {"RELATIONSHIP", "SCHEMA_MATCHING", "ENTITY_RESOLUTION"} \cup (IF ml = "EXECUTED_EXPERIMENTAL" THEN {"APPLIED_ML_RANKING"} ELSE {}),
     assessment |-> Assessment(LeakagePass(audit), providers)]
ReportOn(truth, assigned, relationship, schema, entityRows, tested, found, providers, ml) ==
    IF ~RolesKnown(assigned) \/ found.raised THEN [raised |-> TRUE, written |-> <<>>]
    ELSE Report(truth, assigned, LeakageAudit(assigned, {}), SplitRows(relationship, assigned, "TEST"), SplitRows(schema, assigned, "TEST"),
                SplitRows(relationship, assigned, "CALIBRATION"), entityRows, tested, found, providers, ml)
RunTested(truth, assigned, relationship, schema, entityRows, universe, tested, providers, ml) ==
    ReportOn(truth, assigned, relationship, schema, entityRows, tested,
             EntityMetrics({r.id : r \in {x \in entityRows : x.score = 100}}, truth.positive \cap universe, tested,
                           EntityClusters(entityRows), universe), providers, ml)
RunEntities(truth, assigned, relationship, schema, entityRows, universe, providers, ml) ==
    RunTested(truth, assigned, relationship, schema, entityRows, universe,
              [e \in {x \in DOMAIN truth.clusters : truth.clusters[x] \subseteq UNION universe} |-> truth.clusters[e]], providers, ml)
RunHeldOut(truth, assigned, relationship, schema, entityRows, providers, ml) ==
    RunEntities(truth, assigned, relationship, schema, entityRows, {r.id : r \in entityRows}, providers, ml)
RunAssigned(truth, assigned, relationship, schema, entity, providers, ml) ==
    RunHeldOut(truth, assigned, relationship, schema, {r \in entity : assigned[r.group] = "TEST"}, providers, ml)
RunRows(truth, roles, relationship, schema, entity, providers, ml) ==
    RunAssigned(truth, AssignGroups({r.group : r \in Range(relationship) \cup Range(schema)} \cup {r.group : r \in entity}, roles),
                relationship, schema, entity, providers, ml)
Run(world, truth, roles, providers, ml) ==
    RunRows(truth, roles, RelationshipExamples(world.relationship, truth.relationship), SchemaExamples(world.schema, truth.schema),
            EntityRows(world.records, truth), providers, ml)

-----------------------------------------------------------------------------
(* The relationship scenarios (step18_scenarios.py)                         *)

\* relationship_tables: each order's key and the customers' keys; orphans is
\* round(count * rate), 0 unless the kind is "orphan"
Key(kind, n) == [kind |-> kind, n |-> n]
ScenarioTables(kind, count, orphans) ==
    LET key(i) == CASE kind = "orphan" /\ i >= count - orphans -> Key("orphan", i)
                    [] kind = "null_heavy" /\ i < (count * 85) \div 100 -> Key("null", 0)
                    [] kind = "missing_candidate" -> Key("hidden", i)
                    [] OTHER -> Key("customer", i)
        customers == [i \in 1 .. count |-> Key("customer", i - 1)]
    IN [orders |-> [i \in 1 .. count |-> key(i - 1)],
        customers |-> IF kind = "duplicate_target" THEN Append(customers, customers[1]) ELSE customers,
        tables |-> {"orders", "customers"} \cup (IF kind = "multiple_target" THEN {"legacy_customers"} ELSE {}),
        columns |-> IF kind \in {"composite", "partial_composite"} THEN {"tenant_id", "customer_id"}
                    ELSE {"tenant_id", "customer_id", "region_code"} \cup (IF kind = "type_mismatch" THEN {"customer_id_numeric"} ELSE {})
                                                                   \cup (IF kind = "same_domain" THEN {"order_ref"} ELSE {})]
\* observed_orphan_rate
ObservedOrphans(tables) == Count(tables.orders, LAMBDA k : k.kind = "orphan")

-----------------------------------------------------------------------------
(* What a report may claim                                                  *)

Whole(fraction) == fraction[1] = fraction[2]
CountsAddUp(c) ==
    /\ c.tp + c.fp + c.fn + c.tn = c.evaluated /\ c.tn >= 0
    /\ \A metric \in {c.precision, c.recall, c.f1, c.ap} : MetricValid(metric) /\ (metric.value # <<>> => metric.value[1] \in 0 .. metric.value[2])
\* the errors listed are the wrong predictions counted, and a deferred one is
\* never a false claim
ErrorsMatch(r) ==
    /\ Len(r.errors) = r.relationship.fp + r.relationship.fn + r.schema.fp + r.schema.fn
    /\ \A e \in Range(r.errors) : e.category # "RANKING_ERROR" => \E row \in Range(r.rows) : row.id = e.id /\ row.label = 1
\* pairs and clusters tell the same story when every tested record has a truth
ClustersMatchPairs(m, clusters) ==
    UNION {clusters[e] : e \in DOMAIN clusters} = m.records =>
        /\ (m.contaminated = {}) <=> (m.fp = 0)
        /\ (m.contaminated = {}) <=> \A c \in DOMAIN m.purity : Whole(m.purity[c])
        /\ (m.split = {}) <=> \A e \in DOMAIN clusters : Whole(m.completeness[e])
        /\ (m.contaminated = {} /\ m.split = {}) <=> (m.partition = {clusters[e] : e \in DOMAIN clusters})
\* a stricter threshold accepts less, and nothing conflicting or incomplete is accepted
StricterAcceptsLess(points) ==
    \A i \in DOMAIN points :
        /\ points[i].accepted + points[i].reviewed = points[i].total /\ points[i].reviewed >= points[i].abstained
        /\ \A j \in DOMAIN points : i < j => points[j].accepted <= points[i].accepted /\ points[j].tp <= points[i].tp /\ points[j].fp <= points[i].fp
RankingSound(m) ==
    \A q \in m.eligible :
        /\ (m.reciprocal[q] = Unit) <=> (m.recall[q][1][1] = 1)
        /\ (m.reciprocal[q] = 0) <=> q \notin DOMAIN m.ndcg
        /\ q \in DOMAIN m.ndcg => (Whole(m.ndcg[q][1]) <=> m.reciprocal[q] = Unit) /\ m.ndcg[q][5][1] <= m.ndcg[q][5][2]
\* the metrics of a report, without the order of the rows they came from
Scores(r) == [relationship |-> r.relationship, schema |-> r.schema, ranking |-> r.ranking, entity |-> r.entity, bands |-> r.bands,
              thresholds |-> r.thresholds, slices |-> r.slices, errors |-> Range(r.errors), assessment |-> r.assessment]
ReversedWorld(world) ==
    LET turned(queries) == Reverse([i \in DOMAIN queries |-> [queries[i] EXCEPT !.candidates = Reverse(@)]])
    IN [world EXCEPT !.relationship = turned(@), !.schema = turned(@)]
\* the pairs the entity metrics may be computed over: one group, every pair labelled
EntityPairsComplete(world, truth, assigned) ==
    LET tested == {x \in world.records : x.group \in DOMAIN assigned /\ assigned[x.group] = "TEST"}
        pairs == {p \in Pairs({x.ref : x \in tested}) : p \in truth.positive \cup truth.negative /\ Cardinality({x.group : x \in {y \in tested : y.ref \in p}}) = 1}
    IN pairs = Pairs(UNION pairs)
ClaimsTrue(r, assigned, providers) ==
    /\ ManifestValid(r.audit) /\ AssessmentValid(r.assessment)
    /\ \A row \in Range(r.rows) \cup Range(r.schemaRows) : assigned[row.group] = "TEST"
    /\ \A row \in Range(r.calibration) : assigned[row.group] = "CALIBRATION"
    /\ \A row \in r.entityRows : assigned[row.group] = "TEST"
    /\ CountsAddUp(r.relationship) /\ CountsAddUp(r.schema) /\ \A b \in DOMAIN r.baselines : CountsAddUp(r.baselines[b])
    /\ ErrorsMatch(r) /\ ClustersMatchPairs(r.entity, r.tested) /\ StricterAcceptsLess(r.thresholds)
    /\ RankingSound(r.ranking) /\ RankingSound(r.schemaRanking)
    /\ MapThenSumSet(LAMBDA b : r.bands[b], DOMAIN r.bands) = Len(r.rows)
    /\ r.relationship.tp + r.relationship.fp <= r.bands["HIGH"] + r.bands["MEDIUM"]
    /\ {q \in r.asked : q \notin r.proposed} = {q \in r.asked : \A row \in Range(r.rows) : row.query = q => row.label = 0}
    /\ r.assessment.status = "REVIEW_ONLY_VALIDATED" => r.audit.kept = "kept" /\ \A p \in RequiredProviders : providers[p] = "EXECUTED"
ReportOf(world, truth, assigned, providers, r, reversed) ==
    /\ r.raised => r.written = <<>> /\ (~RolesKnown(assigned) \/ ~EntityPairsComplete(world, truth, assigned))
    /\ ~r.raised => ClaimsTrue(r, assigned, providers) /\ Scores(r) = Scores(reversed)
GroupsOf(world) == {q.group : q \in Range(world.relationship) \cup Range(world.schema)} \cup {x.group : x \in world.records}
ReportTrue(world, truth, roles, providers, ml) ==
    ReportOf(world, truth, [g \in GroupsOf(world) |-> IF g \in DOMAIN roles THEN roles[g] ELSE Bucket(g)], providers,
             Run(world, truth, roles, providers, ml), Run(ReversedWorld(world), truth, roles, providers, ml))
=============================================================================
