---------------------------- MODULE RankingModel ----------------------------
(***************************************************************************)
(* Learned ranking of relationship candidates (application/applied_ml.py,   *)
(* adapters/ml/, domain/contracts/applied_ml.py).  Numbers are integers     *)
(* (ratios in percent); a feature is a pair <<name, "value" | "missing">>.   *)
(*   candidate : [id, fromTable, from, toTable, to, unique, typed, low]      *)
(*   facts     : [matches, scores, signals, profiles, quality, inclusions,   *)
(*                declared], the evidence the features are computed from     *)
(*   label     : [id, candidate, pair, label, group]                        *)
(* Fit(rows, seed) is what the logistic regression learns from the training  *)
(* rows: [coefficients, intercept].                                         *)
(***************************************************************************)
EXTENDS Integers, Sequences, FiniteSets, SequencesExt, FiniteSetsExt

CONSTANT Fit(_, _)

Unseen == -1        \* a measurement that was not made

\* default_feature_schema: two counts have no indicator of their own
Measured ==
    <<"declared_fk_present", "inclusion_coverage", "ind_unmatched_ratio", "target_uniqueness_ratio", "dependency_exact_scope",
      "dependency_bounded_scope", "type_compatible", "low_cardinality_risk", "matcher_support_count", "matcher_disagreement_flag",
      "schema_instance_evidence_present", "schema_sample_only", "source_missing_fraction", "target_missing_fraction",
      "source_distinct_ratio", "target_distinct_ratio", "referential_quality_issue_present", "inconclusive_quality_scope">>
Matchers == <<"coma_score", "coma_rank", "cupid_score", "cupid_rank">>
Uncounted == {"matcher_support_count", "matcher_disagreement_flag"}
FeatureOrder ==
    LET part(names, p) == [i \in DOMAIN names |-> <<names[i], p>>]
    IN part(Measured \o Matchers, "value") \o part(Matchers, "missing") \o part(SelectSeq(Measured, LAMBDA f : f \notin Uncounted), "missing")
\* MLFeatureDefinition: an identifier or a label is never a feature
DefinitionValid(feature) == feature[1] \notin {"source_id", "table_id", "column_id", "candidate_id", "snapshot_id", "record_ref", "fixture_case", "label", "ground_truth"}
\* MLFeatureSchema
SchemaValid(features, order) ==
    IsInjective(features) /\ Range(order) = Range(features) /\ Len(order) = Len(features) /\ \A i \in DOMAIN features : DefinitionValid(features[i])

-----------------------------------------------------------------------------
(* Features of one candidate                                                *)

FirstOf(seq, Test(_)) == LET at1 == SelectInSeq(seq, Test) IN IF at1 = 0 THEN <<>> ELSE <<seq[at1]>>
\* _column_profile: a bare name takes the first profile whose column ends in it
ColumnProfile(profiles, column) ==
    FirstOf(profiles, LAMBDA p : p.column = column \/ (column[1] = "" /\ p.column[2] = column[2]))
\* _dependency_evidence: either direction
Inclusions(facts, c) ==
    SelectSeq(facts.inclusions, LAMBDA d : (d.left = Range(c.from) /\ d.right = Range(c.to)) \/ (d.left = Range(c.to) /\ d.right = Range(c.from)))
Joins(x, c) == {x.source, x.target} \cap Range(c.from) # {} /\ {x.source, x.target} \cap Range(c.to) # {}
\* _schema_scores: once some match joins the columns, the scores of every match count
Scores(facts, c) ==
    LET matched == \E i \in DOMAIN facts.matches : Joins(facts.matches[i], c)
        referenced == UNION {facts.matches[i].scores : i \in DOMAIN facts.matches}
    IN SelectSeq(facts.scores, LAMBDA s : (matched /\ s.id \in referenced) \/ Joins(s, c))
LastBy(scores) ==
    [m \in {scores[i].matcher : i \in DOMAIN scores} |-> scores[SelectLastInSeq(scores, LAMBDA s : s.matcher = m)]]
Flag(b) == IF b THEN 1 ELSE 0
Field(found, F(_)) == IF found = <<>> THEN Unseen ELSE F(found[1])

\* what build_feature_vector measures, feature by feature; dep is the first
\* inclusion dependency found, last the last score of each matcher
Measurements(c, facts, dep, last, from, to) ==
    LET ranks == {last[m].rank : m \in DOMAIN last}
        by(m) == IF m \in DOMAIN last THEN <<last[m]>> ELSE <<>>
        missing(p) == IF p = <<>> \/ p[1].observed = 0 THEN Unseen ELSE (100 * p[1].missing) \div p[1].observed
        quality == facts.quality
    IN [f \in Range(Measured) \cup Range(Matchers) |->
        CASE f = "declared_fk_present" -> facts.declared[c.id]
          [] f = "inclusion_coverage" -> Field(dep, LAMBDA d : d.coverage)
          [] f = "ind_unmatched_ratio" -> Field(dep, LAMBDA d : d.unmatched)
          [] f = "target_uniqueness_ratio" -> c.unique
          [] f = "dependency_exact_scope" -> IF dep # <<>> /\ dep[1].full THEN 1 ELSE Unseen
          [] f = "dependency_bounded_scope" -> Field(dep, LAMBDA d : Flag(d.bounded))
          [] f = "type_compatible" -> Flag(c.typed)
          [] f = "low_cardinality_risk" -> Flag(c.low)
          [] f = "matcher_support_count" -> IF ranks = {} THEN Unseen ELSE Cardinality(DOMAIN last)
          [] f = "matcher_disagreement_flag" -> IF ranks = {} THEN Unseen ELSE Flag(Cardinality(ranks) > 1)
          [] f = "schema_instance_evidence_present" -> facts.signals
          [] f = "schema_sample_only" -> Field(facts.matches, LAMBDA m : Flag(m.reduced))
          [] f = "source_missing_fraction" -> missing(from)
          [] f = "target_missing_fraction" -> missing(to)
          [] f = "source_distinct_ratio" -> Field(from, LAMBDA p : p.distinct)
          [] f = "target_distinct_ratio" -> Field(to, LAMBDA p : p.distinct)
          [] f = "referential_quality_issue_present" ->
                 Field(quality, LAMBDA q : Flag(\E issue \in q.issues : issue \cap (Range(c.from) \cup Range(c.to)) # {}))
          [] f = "inconclusive_quality_scope" -> Field(quality, LAMBDA q : Flag(q.failures))
          [] f = "coma_score" -> Field(by("coma"), LAMBDA s : s.raw)
          [] f = "coma_rank" -> Field(by("coma"), LAMBDA s : s.rank)
          [] f = "cupid_score" -> Field(by("cupid"), LAMBDA s : s.raw)
          [] f = "cupid_rank" -> Field(by("cupid"), LAMBDA s : s.rank)]
Measure(c, facts) ==
    LET found == Inclusions(facts, c)
    IN Measurements(c, facts, SubSeq(found, 1, Min({1, Len(found)})), LastBy(Scores(facts, c)),
                    ColumnProfile(facts.profiles, c.from[1]), ColumnProfile(facts.profiles, c.to[1]))
\* the pair key forgets the direction: the parts are sorted
PairKey(c) == {<<"table", c.fromTable>>, <<"table", c.toTable>>} \cup {<<"column", x>> : x \in Range(c.from) \cup Range(c.to)}
\* build_feature_vector: a missing value is 0 with its indicator raised
VectorFrom(c, m) ==
    LET gone == {f \in DOMAIN m : m[f] = Unseen}
    IN [id |-> c.id, pair |-> PairKey(c), missing |-> gone,
        values |-> [f \in Range(FeatureOrder) |->
            IF f[2] = "missing" THEN Flag(f[1] \in gone) ELSE IF f[1] \in gone THEN 0 ELSE m[f[1]]],
        risky |-> ~c.typed \/ c.low \/ m["referential_quality_issue_present"] = 1]
FeatureVector(c, facts) == VectorFrom(c, Measure(c, facts))
\* MLFeatureVector
VectorValid(v) == \A f \in v.missing : <<f, "value">> \in DOMAIN v.values

-----------------------------------------------------------------------------
(* Data set, split and metrics                                              *)

\* MLDatasetRow (aligned)
RowAligned(vector, label) == vector.id = label.candidate /\ vector.pair = label.pair
ById(a, b) == a.label.candidate < b.label.candidate
\* build_dataset: the last vector of a candidate, the labels in order, or refused
BuildDataset(vectors, labels) ==
    LET of(id) == SelectLastInSeq(vectors, LAMBDA v : v.id = id)
        rows == [i \in DOMAIN labels |-> [id |-> labels[i].id, vector |-> vectors[of(labels[i].candidate)], label |-> labels[i]]]
    IN IF ~IsInjective([i \in DOMAIN labels |-> labels[i].candidate]) \/ (\E i \in DOMAIN labels : of(labels[i].candidate) = 0)
       THEN [ok |-> FALSE]
       ELSE IF \E i \in DOMAIN labels : ~RowAligned(rows[i].vector, labels[i]) THEN [ok |-> FALSE]
       ELSE [ok |-> TRUE, rows |-> SortSeq(rows, ById)]

GroupsOf(rows) == {rows[i].label.group : i \in DOMAIN rows}
\* make_grouped_split: whole groups in turn; fewer than three leave splits empty
SplitOf(groups, group) ==
    LET index == Cardinality({g \in groups : g < group})
    IN CASE Cardinality(groups) >= 3 -> <<"train", "validation", "test">>[1 + (index % 3)]
         [] Cardinality(groups) = 2 -> <<"train", "test">>[1 + index]
         [] OTHER -> "train"
\* MLSplitManifest (no_group_overlap)
SplitValid(assignments, groupOf) ==
    /\ DOMAIN assignments \subseteq DOMAIN groupOf
    /\ \A x, y \in DOMAIN assignments : groupOf[x] = groupOf[y] => assignments[x] = assignments[y]
\* a row id held by two rows takes the split of the last group that holds it
MakeSplit(rows) ==
    LET groups == GroupsOf(rows)
        ids == {rows[i].id : i \in DOMAIN rows}
        last(id) == rows[SelectLastInSeq(rows, LAMBDA r : r.id = id)]
        highest(id) == Max({rows[i].label.group : i \in {k \in DOMAIN rows : rows[k].id = id}})
        assignments == [x \in ids |-> SplitOf(groups, highest(x))]
    IN IF rows = <<>> \/ (\E i, k \in DOMAIN rows : rows[i].label.pair = rows[k].label.pair /\ rows[i].label.group # rows[k].label.group)
       THEN [ok |-> FALSE]
       ELSE [ok |-> SplitValid(assignments, [x \in ids |-> last(x).label.group]), assignments |-> assignments]

\* ranking_metrics: totals over the groups of one split (the means divide them);
\* the discounted gains, which need a logarithm, are left out
Ranked(items) == SortSeq(items, LAMBDA a, b : a.score > b.score \/ (a.score = b.score /\ a.row.id < b.row.id))
VectorsOf(rows) == {rows[i].vector : i \in DOMAIN rows}
Scored(rows, score) == [i \in DOMAIN rows |-> [row |-> rows[i], score |-> score[rows[i].vector]]]
FirstHit(rows, score) == SelectInSeq(Ranked(Scored(rows, score)), LAMBDA x : x.row.label.label = 1)
MetricsOf(selected, firsts) ==
    [groups |-> Cardinality(DOMAIN firsts), covered |-> Len(selected),
     recall1 |-> Cardinality({g \in DOMAIN firsts : firsts[g] = 1}), recall3 |-> Cardinality({g \in DOMAIN firsts : firsts[g] \in 1 .. 3}),
     firsts |-> firsts,
     exposure |-> FoldSet(LAMBDA g, n : n + (IF firsts[g] = 0 THEN 0 ELSE firsts[g] - 1), 0, DOMAIN firsts)]
Metrics(rows, score, split, part) ==
    LET selected == SelectSeq(rows, LAMBDA r : split[r.id] = part)
    IN MetricsOf(selected, [g \in GroupsOf(selected) |-> FirstHit(SelectSeq(selected, LAMBDA r : r.label.group = g), score)])

-----------------------------------------------------------------------------
(* The ranker and its file                                                  *)

\* ml_linear_score
LinearScore(model, vector) ==
    model.intercept + FoldSeq(LAMBDA f, n : n + model.coefficients[f] * vector.values[f], 0, FeatureOrder)
\* _matrix: the features of the schema, no more and no less
InSchema(vector) == DOMAIN vector.values = Range(FeatureOrder)
TrainRows(rows, split) == SelectSeq(rows, LAMBDA r : split[r.id] = "train")
LabelsOf(rows) == [i \in DOMAIN rows |-> rows[i].label.label]
\* ml_model_config_hash
ConfigHash(order, seed, version) == <<order, seed, version>>
\* train: the outcome, or why not
Train(rows, split, seed, available, version) ==
    LET own == TrainRows(rows, split)
        learned == Fit(own, seed)
    IN IF ~available THEN [ok |-> FALSE, why |-> "unavailable"]
       ELSE IF own = <<>> THEN [ok |-> FALSE, why |-> "no rows"]
       ELSE IF Range(LabelsOf(own)) # {0, 1} THEN [ok |-> FALSE, why |-> "one class"]
       ELSE IF \E i \in DOMAIN own : ~InSchema(own[i].vector) THEN [ok |-> FALSE, why |-> "schema"]
       ELSE [ok |-> TRUE, coefficients |-> learned.coefficients, intercept |-> learned.intercept, status |-> "EXPERIMENTAL",
             config |-> ConfigHash(FeatureOrder, seed, version), trained |-> Len(own)]
\* MLModelEvidence (linear_artifact_is_safe)
ModelSafe(model) == model.status \in {"BENCHMARK_ONLY", "EXPERIMENTAL", "VALIDATION_REQUIRED"}

\* _write_json_artifact: the content and, over it, its hash
Unsigned(model, seed, version) ==
    [format |-> 2, order |-> FeatureOrder, coefficients |-> model.coefficients, intercept |-> model.intercept, config |-> model.config,
     seed |-> seed, version |-> version]
WriteArtifact(model, seed, version) == LET content == Unsigned(model, seed, version) IN [content |-> content, hash |-> content]
\* Mutant: the hash is believed
LoadArtifactUnhashed(file) ==
    IF file.content.format = 2 /\ file.content.order = FeatureOrder /\ DOMAIN file.content.coefficients = Range(FeatureOrder)
    THEN [ok |-> TRUE, coefficients |-> file.content.coefficients, intercept |-> file.content.intercept]
    ELSE [ok |-> FALSE]
\* from_json_artifact
LoadArtifact(file) ==
    IF /\ file.content.format = 2 /\ file.hash = file.content
       /\ file.content.order = FeatureOrder /\ DOMAIN file.content.coefficients = Range(FeatureOrder)
       /\ file.content.config = ConfigHash(FeatureOrder, file.content.seed, file.content.version)
    THEN [ok |-> TRUE, coefficients |-> file.content.coefficients, intercept |-> file.content.intercept]
    ELSE [ok |-> FALSE]
\* contributions
Contributions(model, vector) == [f \in Range(FeatureOrder) |-> model.coefficients[f] * vector.values[f]]
\* score_candidates_from_artifact
ScoreFromArtifact(file, vectors) ==
    LET model == LoadArtifact(file)
    IN IF model.ok THEN [ok |-> TRUE, scores |-> [i \in DOMAIN vectors |-> LinearScore(model, vectors[i])]] ELSE [ok |-> FALSE]

-----------------------------------------------------------------------------
(* AppliedMLService.rank                                                    *)

\* _structural_score and the baselines: a missing measurement scores nothing
Baseline(feature, vector) == IF feature \in vector.missing THEN 0 ELSE vector.values[<<feature, "value">>]
RankBaseline(feature, vector) ==
    LET rank == Baseline(feature, vector) IN IF rank > 0 THEN 100 \div rank ELSE 0
Unranked == {"inclusion_coverage", "target_uniqueness_ratio", "declared_fk_present"}
Order(vectors, score) == SortSeq(vectors, LAMBDA a, b : score[a] > score[b] \/ (score[a] = score[b] /\ a.id < b.id))
RankIn(order, id) == SelectLastInSeq(order, LAMBDA v : v.id = id)

\* the label-shuffle control: the labels of the training rows trade places
Shuffled(rows, split, permutation) ==
    LET own == TrainRows(rows, split)
        place(i) == Cardinality({k \in 1 .. i : split[rows[k].id] = "train"})
    IN [i \in DOMAIN rows |->
           IF split[rows[i].id] = "train" THEN [rows[i] EXCEPT !.label.label = LabelsOf(own)[permutation[place(i)]]] ELSE rows[i]]

\* LearnedRankingEvidence, always an uncalibrated score
Learned(order, model) ==
    [i \in DOMAIN order |-> [candidate |-> order[i].id, score |-> LinearScore(model, order[i]), rank |-> RankIn(order, order[i].id),
                             kind |-> "UNCALIBRATED_RANKING_SCORE", status |-> "EXPERIMENTAL"]]
Apart(a, b) == IF a < b THEN b - a ELSE a - b
\* ActiveLearningSuggestion: the first few by disagreement, if there is a reason
Reason(far, vector) ==
    IF far >= 2 THEN "MODEL_BASELINE_DISAGREEMENT" ELSE IF vector.missing # {} THEN "MISSING_CRITICAL_FEATURES" ELSE "HARD_CONFLICT"
Suggested(kept, far) == [i \in DOMAIN kept |-> [candidate |-> kept[i].id, reason |-> Reason(far[kept[i]], kept[i])]]
SuggestionsFor(vectors, far, most) ==
    LET queue == SortSeq(vectors, LAMBDA a, b : far[a] > far[b] \/ (far[a] = far[b] /\ a.id < b.id))
    IN Suggested(SelectSeq(SubSeq(queue, 1, Min({most, Len(vectors)})), LAMBDA v : v.missing # {} \/ v.risky \/ far[v] >= 2), far)
Suggestions(vectors, order, base, most) ==
    SuggestionsFor(vectors, [v \in Range(vectors) |-> Apart(RankIn(order, v.id), RankIn(base, v.id))], most)
\* MLCalibrationExperiment: said, never applied
Calibration(rows, split) ==
    LET held == SelectSeq(rows, LAMBDA r : split[r.id] \in {"validation", "test"})
    IN IF Len(held) >= 5 /\ Cardinality(GroupsOf(held)) >= 2 /\ Range(LabelsOf(held)) = {0, 1}
       THEN "CALIBRATION_EXPERIMENT" ELSE "INSUFFICIENT_CALIBRATION_DATA"

Stage(status) == [status |-> status, learned |-> <<>>, suggestions |-> <<>>]
Outcome(vectors, rows, split, model, order, base, shuffled, control, env) ==
    LET test(score) == Metrics(rows, score, split, "test")
    IN [status |-> "EXECUTED_EXPERIMENTAL", learned |-> Learned(order, model), model |-> model, vectors |-> vectors,
        rows |-> rows, split |-> split, test |-> test([v \in VectorsOf(rows) |-> LinearScore(model, v)]), base |-> base,
        baselines |-> [f \in Unranked \cup {"coma_rank", "cupid_rank"} |->
            test([v \in VectorsOf(rows) |-> IF f \in Unranked THEN Baseline(f, v) ELSE RankBaseline(f, v)])],
        control |-> IF control.ok THEN Metrics(shuffled, [v \in VectorsOf(shuffled) |-> LinearScore(control, v)], split, "test") ELSE [groups |-> 0],
        shuffled |-> shuffled, suggestions |-> Suggestions(vectors, order, base, env.most),
        calibration |-> Calibration(rows, split), file |-> WriteArtifact(model, env.seed, env.version)]
RankTrained(vectors, rows, split, model, shuffled, env) ==
    IF ~model.ok THEN Stage(IF model.why = "one class" THEN "INSUFFICIENT_DATA" ELSE "FAILED")
    ELSE Outcome(vectors, rows, split, model, Order(vectors, [v \in Range(vectors) |-> LinearScore(model, v)]),
                 Order(vectors, [v \in Range(vectors) |-> Baseline("inclusion_coverage", v)]), shuffled,
                 Train(shuffled, split, env.seed + 1, env.available, env.version), env)
RankSplit(vectors, rows, cut, env) ==
    IF ~cut.ok THEN Stage("FAILED")
    ELSE IF ~env.available THEN Stage("UNAVAILABLE")
    ELSE RankTrained(vectors, rows, cut.assignments, Train(rows, cut.assignments, env.seed, env.available, env.version),
                     Shuffled(rows, cut.assignments, env.permutation), env)
RankDataset(vectors, data, env) ==
    IF ~data.ok THEN Stage("FAILED") ELSE RankSplit(vectors, data.rows, MakeSplit(data.rows), env)
RankVectors(vectors, labels, env) == RankDataset(vectors, BuildDataset(vectors, labels), env)
Rank(candidates, labels, facts, env) ==
    IF ~env.labelled THEN Stage("SKIPPED_NOT_CONFIGURED")
    ELSE RankVectors([i \in DOMAIN candidates |-> FeatureVector(candidates[i], facts)], labels, env)

-----------------------------------------------------------------------------
(* What the ranking may be relied on for                                    *)

LabelsDistinct(labels) == IsInjective([i \in DOMAIN labels |-> labels[i].id])
\* nothing of a held-out group, and neither direction of its pairs, is trained
\* on.  The split is kept by row id, a row id is a label id, and build_dataset
\* does not refuse a repeated one: two rows of that id get one assignment, the
\* last group's, and a group can then lie on both sides.  ResultTrue asks for
\* NoLeak of labels with ids of their own only.
NoLeak(result) ==
    \A i, k \in DOMAIN result.rows :
        LET one == result.rows[i] two == result.rows[k]
        IN one.label.group = two.label.group \/ one.vector.pair = two.vector.pair => result.split[one.id] = result.split[two.id]
VectorTrue(v, measured, reverse) ==
    /\ VectorValid(v) /\ InSchema(v) /\ v.pair = reverse.pair
    /\ \A f \in DOMAIN v.values :
           f[2] = "value" /\ <<f[1], "missing">> \in DOMAIN v.values /\ measured[f[1]] = Unseen => v.values[<<f[1], "missing">>] = 1
Reversed(c) == [c EXCEPT !.fromTable = c.toTable, !.toTable = c.fromTable, !.from = c.to, !.to = c.from]
ResultTrue(result, candidates, labels, env) ==
       /\ result.learned # <<>> => env.labelled /\ env.available
       /\ result.status = "EXECUTED_EXPERIMENTAL" =>
            /\ ModelSafe(result.model)
            /\ LabelsDistinct(labels) => NoLeak(result)
            \* a ranking: the scores fall, each candidate once, ties by identifier
            /\ \A i, k \in DOMAIN result.learned :
                   i < k => /\ result.learned[i].score >= result.learned[k].score
                            /\ result.learned[i].score = result.learned[k].score => result.learned[i].candidate < result.learned[k].candidate
            /\ {result.learned[i].candidate : i \in DOMAIN result.learned} = {candidates[i].id : i \in DOMAIN candidates}
            \* the contributions add up to the score, and so does the model read back from its file
            /\ \A i \in DOMAIN result.vectors :
                   LET v == result.vectors[i]
                   IN LinearScore(result.model, v) = result.model.intercept + FoldSet(LAMBDA f, n : n + Contributions(result.model, v)[f], 0, Range(FeatureOrder))
            /\ ScoreFromArtifact(result.file, result.vectors) = [ok |-> TRUE, scores |-> [i \in DOMAIN result.vectors |-> LinearScore(result.model, result.vectors[i])]]
            /\ \A edit \in {[result.file EXCEPT !.content.intercept = @ + 1], [result.file EXCEPT !.content.seed = @ + 1],
                            [result.file EXCEPT !.content.seed = @ + 1, !.hash.seed = @ + 1], [result.file EXCEPT !.content.format = 1, !.hash.format = 1]} :
                   ~LoadArtifact(edit).ok
            \* the control only moves labels among the training rows
            /\ \A i \in DOMAIN result.rows : result.split[result.rows[i].id] # "train" => result.shuffled[i] = result.rows[i]
            /\ Len(SelectSeq(LabelsOf(result.shuffled), LAMBDA l : l = 1)) = Len(SelectSeq(LabelsOf(result.rows), LAMBDA l : l = 1))
            /\ \A m \in {result.test} \cup {result.baselines[f] : f \in DOMAIN result.baselines} : m.recall1 <= m.recall3 /\ m.recall3 <= m.groups
            \* a request for a label is bounded and has a reason
            /\ Len(result.suggestions) <= env.most
            /\ \A i \in DOMAIN result.suggestions :
                   LET v == result.vectors[SelectInSeq(result.vectors, LAMBDA x : x.id = result.suggestions[i].candidate)]
                   IN result.suggestions[i].reason = "HARD_CONFLICT" => v.risky
RankingTrue(candidates, labels, facts, env) ==
    /\ \A c \in Range(candidates) : VectorTrue(FeatureVector(c, facts), Measure(c, facts), FeatureVector(Reversed(c), facts))
    /\ ResultTrue(Rank(candidates, labels, facts, env), candidates, labels, env)
=============================================================================
