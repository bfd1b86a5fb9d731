--------------------------- MODULE EvidenceFusion ---------------------------
(***************************************************************************)
(* EvidenceFusionService.fuse (application/evidence_fusion.py) with the     *)
(* validators of domain/contracts/evidence_fusion.py: the results of the    *)
(* analyses become evidence items about candidates, items become signals a  *)
(* policy can score, and a candidate gets a score, a band, its conflicts    *)
(* and a state; the fusion as a whole is ready for review or not.           *)
(*                                                                          *)
(*   endpoint  : [source, snapshot, table, column]                          *)
(*   candidate : [id, from, to], from and to endpoints                      *)
(*   item      : [id, subject, family, metric, value, dir, presence, scope, *)
(*               snaps, schema, scoring], snaps a set of <<source, snapshot>> *)
(* Ratios are whole percentages; a rank is a number from 1.  A mapping      *)
(* request has cross_source_mapping_scope.                                  *)
(***************************************************************************)
EXTENDS Integers, Sequences, FiniteSets, FiniteSetsExt, SequencesExt

NoValue == -1000

\* The policies of policies/evidence-fusion, weights in percent
Dim(id, metrics, weight, method, required) ==
    [id |-> id, metrics |-> metrics, weight |-> weight, method |-> method, required |-> required]
StructuralMetrics == {"orphan_ratio", "target_uniqueness", "type_compatibility", "quality_issue"}
RelationshipPolicy ==
    [kind |-> "RELATIONSHIP",
     dims |-> {Dim("inclusion", {"inclusion_coverage", "orphan_ratio"}, 100, "identity", TRUE),
               Dim("target_uniqueness", {"target_uniqueness"}, 100, "identity", TRUE),
               Dim("type_compatibility", {"type_compatibility"}, 75, "compatibility_strength", TRUE),
               Dim("declared_constraint", {"declared_foreign_key"}, 100, "identity", FALSE)},
     structural |-> StructuralMetrics, sampleFull |-> TRUE]
MappingPolicy ==
    [kind |-> "MAPPING",
     dims |-> {Dim("matcher:coma:rank", {"matcher_rank:coma"}, 100, "ordinal", FALSE),
               Dim("matcher:cupid:rank", {"matcher_rank:cupid"}, 100, "ordinal", FALSE),
               Dim("type_compatibility", {"type_compatibility"}, 75, "compatibility_strength", TRUE)},
     structural |-> {"type_compatibility"}, sampleFull |-> FALSE]
RequiredProducers == {"PROFILE", "DEPENDENCY", "QUALITY"}

\* _relationship_subject, _mapping_subject: a mapping has no direction.
Place(e) == <<e.source, e.table, e.column>>
Subject(policy, c) ==
    IF policy.kind = "MAPPING" THEN [both |-> {Place(c.from), Place(c.to)}]
    ELSE [from |-> <<c.from.table, c.from.column>>, to |-> <<c.to.table, c.to.column>>]
SnapsOf(endpoints) == {<<e.source, e.snapshot>> : e \in endpoints}
Endpoints(c) == {c.from, c.to}

Item(id, subject, family, metric, value, dir, snaps) ==
    [id |-> id, subject |-> subject, family |-> family, metric |-> metric, value |-> value, dir |-> dir,
     presence |-> "OBSERVED", scope |-> "FULL", snaps |-> snaps, schema |-> FALSE, scoring |-> FALSE]
Scored(item) == [item EXCEPT !.scoring = TRUE]

-----------------------------------------------------------------------------
(* Items of each producer.                                                 *)

\* _dependency_items; an inclusion is [n, subject, snaps, coverage, unique, compatible, tiny, full].
\* A relationship candidate without an inclusion gives the same four items.
DependencyItems(inclusions) ==
    UNION {LET item(k, metric, value, dir) ==
                   Scored([Item(<<"dep", i.n, k>>, i.subject, "DEPENDENCY", metric, value, dir, i.snaps) EXCEPT
                               !.scope = IF i.full THEN "FULL" ELSE "BOUNDED"])
           IN {item(1, "inclusion_coverage", i.coverage, "SUPPORTS"),
               item(2, "orphan_ratio", 100 - i.coverage, "CONTRADICTS"),
               item(3, "target_uniqueness", i.unique, "SUPPORTS"),
               item(4, "type_compatibility", IF i.compatible THEN 100 ELSE 0,
                    IF i.compatible THEN "SUPPORTS" ELSE "CONTRADICTS")}
              \cup {Item(<<"dep", i.n, 5>>, i.subject, "DEPENDENCY", "low_cardinality_risk", NoValue,
                         "CONTRADICTS", i.snaps) : x \in {y \in {i} : y.tiny}} : i \in inclusions}

\* _schema_items; a match is [n, subject, snaps, ranks, structural], ranks a set of <<matcher, rank>>
SchemaItems(matches, policy) ==
    LET dims == {d.id : d \in policy.dims}
    IN UNION {
        {[Item(<<"score", m.n, r[1]>>, m.subject, "SCHEMA_MATCHING", r[2], r[3], "SUPPORTS", m.snaps) EXCEPT
              !.scoring = \E d \in policy.dims : r[2] \in d.metrics] : r \in m.ranks}
        \cup {[Item(<<"signal", m.n, 0>>, m.subject, "SCHEMA_MATCHING", "type_compatibility", v,
                    IF v >= 50 THEN "SUPPORTS" ELSE "CONTRADICTS", m.snaps) EXCEPT
                  !.scoring = "type_compatibility" \in dims] : v \in m.structural} : m \in matches}

\* _declared_items: metadata, not an observation of a snapshot
DeclaredItems(declared) ==
    {Scored([Item(<<"declared", d.n, 0>>, d.subject, "DECLARED_CONSTRAINT", "declared_foreign_key", 100,
                  "SUPPORTS", {}) EXCEPT !.schema = TRUE]) : d \in declared}

\* _profile_items: context about each endpoint the profile saw, or a marker
ProfileItems(profiles, subjects) ==
    {LET seen == \E e \in x.endpoints : <<e.source, e.snapshot, e.table>> = <<p.source, p.snapshot, p.table>>
     IN [Item(<<"profile", p.n, x.subject>>, x.subject, "PROFILE", "profile", NoValue, "CONTEXT",
              IF seen THEN {<<p.source, p.snapshot>>} ELSE SnapsOf(x.endpoints)) EXCEPT
            !.presence = IF ~seen THEN "NOT_OBSERVED" ELSE IF p.complete THEN "OBSERVED" ELSE "INCOMPLETE",
            !.scope = IF seen THEN "FULL" ELSE "UNKNOWN"] : p \in profiles, x \in subjects}

\* _quality_items: open issues at an endpoint contradict; coverage is context.
QualityItems(issues, subjects) ==
    {Item(<<"quality", q[1].n, q[2].subject>>, q[2].subject, "QUALITY", "quality_issue", q[1].ratio,
          IF q[1].open THEN "CONTRADICTS" ELSE "CONTEXT", {<<q[1].at.source, q[1].at.snapshot>>}) :
        q \in {y \in issues \X subjects : y[1].at \in y[2].endpoints}}

\* _candidate_items: the wrapper carries the candidate's own snapshots.
CandidateItems(subjects) ==
    {Item(<<"candidate", x.id, 0>>, x.subject, "CANDIDATE_CONTAINER", "candidate", NoValue, "CONTEXT",
          SnapsOf(x.endpoints)) : x \in subjects}

\* _ml_items: evidence about an unselected candidate is dropped.
MlItems(learned, subjects) ==
    {Item(<<"ml", q[1].n, 0>>, q[2].subject, "APPLIED_ML", "learned_ranking_score", q[1].score, "CONTEXT", {}) :
        q \in {y \in learned \X subjects : y[1].candidate = y[2].id}}

\* _semantic_result_items: evidence naming exactly one known subject
SemanticItems(semantic, subjects) ==
    {Item(<<"semantic", q[1].n, 0>>, q[2].subject, "SEMANTIC_AI", "semantic_hypothesis", NoValue, q[1].dir, {}) :
        q \in {y \in semantic \X subjects : y[1].about = {y[2].id}}}

-----------------------------------------------------------------------------
(* Signals, scores, conflicts.                                             *)

DimOf(policy, metric) == {d \in policy.dims : metric \in d.metrics}

\* _signals: the normalized value of a scoring item the policy can read
Normalized(policy, i) ==
    LET d == CHOOSE x \in DimOf(policy, i.metric) : TRUE
    IN IF ~i.scoring \/ i.presence # "OBSERVED" \/ DimOf(policy, i.metric) = {} \/ i.value = NoValue THEN NoValue
       ELSE IF d.method = "ordinal" /\ i.value >= 1 THEN 100 \div (1 + i.value)
       ELSE IF d.method = "compatibility_strength" /\ i.value \in -100 .. 100 THEN 2 * i.value - 100
       ELSE IF d.method = "identity" /\ i.value \in -100 .. 100 THEN i.value
       ELSE NoValue
Unsupported(policy, i) == i.scoring /\ i.presence = "OBSERVED" /\ Normalized(policy, i) = NoValue

\* The same id with another content: the first is kept, the fusion has failed.
Collides(items) == \E i, j \in items : i.id = j.id /\ i # j

Bearing(policy, signals, d) ==
    {i \in signals : i.metric \in d.metrics /\ Normalized(policy, i) # NoValue}

\* _normalize_dimension: coverage before orphans; otherwise the first by id
DimValue(policy, signals, d) ==
    LET all == Bearing(policy, signals, d)
        coverage == {i \in all : i.metric = "inclusion_coverage"}
        first(S) == CHOOSE i \in S : \A j \in S : i.id[2] <= j.id[2]
    IN IF all = {} THEN NoValue
       ELSE IF d.id = "inclusion"
            THEN IF coverage # {} THEN Normalized(policy, first(coverage))
                 ELSE 100 - Normalized(policy, first(all))
       ELSE Normalized(policy, first(all))

\* _score; FusionScore.value is Total / Eligible, a percentage
Contribution(policy, signals, d) ==
    LET v == DimValue(policy, signals, d)
        against == \E i \in signals : i.dir = "CONTRADICTS" /\ i.metric \in d.metrics
    IN IF d.required /\ d.id # "inclusion" /\ d.method # "compatibility_strength" /\ against
       THEN -d.weight * (IF v < 0 THEN -v ELSE v) ELSE d.weight * v
Score(policy, signals) ==
    LET observed == {d \in policy.dims : DimValue(policy, signals, d) # NoValue}
        counted == observed \cup {d \in policy.dims : d.required}
        weight(S) == MapThenSumSet(LAMBDA d : d.weight, S)
    IN [sufficient |-> observed # {},
        total |-> MapThenSumSet(LAMBDA d : Contribution(policy, signals, d), observed),
        eligible |-> weight(counted), observed |-> weight(observed)]

\* _eligible_conflict_signal
Contradicts(policy, i, metrics) ==
    /\ i.dir = "CONTRADICTS"
    /\ i.metric \in metrics
    /\ i.family \in IF policy.kind = "MAPPING" THEN {"SCHEMA_MATCHING"} ELSE {"DEPENDENCY", "QUALITY", "SCHEMA_MATCHING"}
When(holds, kind) == IF holds THEN <<kind>> ELSE <<>>
IsRank(i) == i.metric \in {"matcher_rank:coma", "matcher_rank:cupid", "matcher_rank:other"}

\* _structural_conflicts, _conflicts_for_relationship, _conflicts_for_mapping
Conflicts(policy, c, signals, candidates, declared) ==
    LET semantic == \E i \in signals : i.family = "SEMANTIC_AI" /\ i.dir = "SUPPORTS"
        against(metrics) == \E i \in signals : Contradicts(policy, i, metrics)
        badType == against({"type_compatibility"})
        ranked == \E i \in signals : IsRank(i)
        split(metric) == \E i, j \in signals :
            /\ i.metric = metric /\ j.metric = metric /\ i.scope = "SAMPLED" /\ j.scope = "FULL"
            /\ Normalized(policy, i) # NoValue /\ Normalized(policy, j) # NoValue
            /\ {s[1] : s \in i.snaps} \cap {s[1] : s \in j.snaps} # {}
            /\ Normalized(policy, i) - Normalized(policy, j) \notin -49 .. 49
        mapping == policy.kind = "MAPPING"
        end(e) == IF mapping THEN Place(e) ELSE <<e.table, e.column>>
        rivals == {end(x.to) : x \in {y \in candidates : end(y.from) = end(c.from)}}
        named == \E d \in declared : \/ d.subject = Subject(policy, c)
                                     \/ d.catalog /\ d.subject.from[1] = c.from.table /\ d.subject.to[1] = c.to.table
    IN When(semantic /\ against(policy.structural), "SEMANTIC_STRUCTURAL_CONFLICT")
       \o When(badType /\ (semantic \/ ranked), "TYPE_SEMANTIC_CONFLICT")
       \o When(policy.sampleFull /\ \E m \in {i.metric : i \in signals} : split(m), "SAMPLE_FULLSCAN_CONFLICT")
       \o When(~mapping /\ named /\ against(policy.structural), "DECLARED_DATA_CONFLICT")
       \o When(mapping /\ semantic /\ badType, "TYPE_SEMANTIC_CONFLICT")
       \o When(Cardinality(rivals) > 1, "MULTIPLE_TARGET_AMBIGUITY")

\* _band, with the bounds of both policies: HIGH from 75, MEDIUM from 40
Band(score, conflicts) ==
    IF conflicts # <<>> THEN "CONFLICTED"
    ELSE IF ~score.sufficient THEN "INSUFFICIENT"
    ELSE IF score.total >= 75 * score.eligible THEN "HIGH"
    ELSE IF score.total >= 40 * score.eligible THEN "MEDIUM"
    ELSE "LOW"

\* _subject_missing
Missing(policy, signals, statuses) ==
    {d.id : d \in {x \in policy.dims : x.required /\ Bearing(policy, signals, x) = {}}}
    \cup {"matcher_evidence" : x \in {y \in {policy} : y.kind = "MAPPING" /\ ~\E i \in signals : IsRank(i) /\ i.scoring}}
    \cup {f \in RequiredProducers : {s \in statuses : s.family = f} = {}}
    \cup {s.family : s \in {x \in statuses : x.family \in RequiredProducers /\ x.state # "COMPLETE"}}

-----------------------------------------------------------------------------
(* fuse                                                                    *)

\* _bounded: the first candidates by id
Kept(candidates, limit) == {c \in candidates : Cardinality({x \in candidates : x.id < c.id}) < limit}

\* _unique_statuses: one result under one identity with two states
StatusConflict(statuses) ==
    \E s, t \in statuses : s # t /\ s.family = t.family /\ s.result = t.result /\ s.snaps = t.snaps

\* _scope_failures and _candidate_scope_failure
MixedSnapshots(signals) ==
    \E a, b \in UNION {i.snaps : i \in {x \in signals : ~x.schema}} : a[1] = b[1] /\ a[2] # b[2]
ScopeFails(c, signals) ==
    \E i \in signals, s \in SnapsOf(Endpoints(c)) : \E t \in i.snaps : t[1] = s[1] /\ t[2] # s[2]

\* Mutant: a mix of snapshots is recorded but does not hold the fusion back.
BlockingUnscoped(kinds) ==
    kinds \cap {"INPUT_INCOMPLETE", "REQUIRED_PRODUCER_FAILED", "STALE_EVIDENCE", "UNSUPPORTED_SCORE_SEMANTICS",
                "BOUNDED_INPUT_DISCARDED"} # {}

Blocking(kinds) ==
    kinds \cap {"INPUT_INCOMPLETE", "REQUIRED_PRODUCER_FAILED", "SNAPSHOT_SCOPE_MISMATCH", "STALE_EVIDENCE",
                "UNSUPPORTED_SCORE_SEMANTICS", "BOUNDED_INPUT_DISCARDED"} # {}

Items(policy, in, subjects) ==
    DependencyItems(in.inclusions) \cup SchemaItems(in.matches, policy) \cup DeclaredItems(in.declared)
    \cup ProfileItems(in.profiles, subjects) \cup QualityItems(in.issues, subjects)
    \cup CandidateItems(subjects) \cup MlItems(in.learned, subjects) \cup SemanticItems(in.semantic, subjects)
About(items, subject) == {i \in items : i.subject = subject}

\* FusionFailure: the kinds the collected items and statuses give rise to
Failures(policy, in, limits, chosen, items) ==
    {k \in {"INPUT_INCOMPLETE", "REQUIRED_PRODUCER_FAILED", "SNAPSHOT_SCOPE_MISMATCH", "STALE_EVIDENCE",
            "UNSUPPORTED_SCORE_SEMANTICS", "BOUNDED_INPUT_DISCARDED"} :
        CASE k = "INPUT_INCOMPLETE" -> \E f \in RequiredProducers : {s \in in.statuses : s.family = f} = {}
          [] k = "REQUIRED_PRODUCER_FAILED" ->
                \/ \E s \in in.statuses : s.family \in RequiredProducers /\ s.state # "COMPLETE"
                \/ policy.kind = "MAPPING" /\ ~\E s \in in.statuses : s.family = "SCHEMA_MATCHING" /\ s.state = "COMPLETE"
          [] k = "SNAPSHOT_SCOPE_MISMATCH" ->
                \/ \E s \in {i.subject : i \in items} : MixedSnapshots(About(items, s))
                \/ \E c \in chosen : ScopeFails(c, About(items, Subject(policy, c)))
          [] k = "STALE_EVIDENCE" -> StatusConflict(in.statuses) \/ ~(in.expected \subseteq {s.result : s \in in.statuses})
          [] k = "UNSUPPORTED_SCORE_SEMANTICS" -> \E i \in items : Unsupported(policy, i)
          [] k = "BOUNDED_INPUT_DISCARDED" ->
                \/ chosen # in.candidates
                \/ \E c \in chosen :
                      LET signals == About(items, Subject(policy, c))
                      IN \/ Cardinality(signals) > limits.evidence
                         \/ Len(Conflicts(policy, c, signals, chosen, in.declared)) > limits.conflicts}

\* _relationship_decision, _mapping_decision
Rated(score, missing, conflicts) ==
    [state |-> IF missing # {} THEN "INCOMPLETE_REQUIRED_EVIDENCE" ELSE "REVIEW_REQUIRED",
     score |-> score, band |-> Band(score, conflicts), conflicts |-> ToSet(conflicts)]
FirstConflicts(conflicts, limits) == SubSeq(conflicts, 1, Min({limits.conflicts, Len(conflicts)}))
CandidateDecision(policy, in, limits, chosen, c, signals) ==
    Rated(Score(policy, signals), Missing(policy, signals, in.statuses),
          FirstConflicts(Conflicts(policy, c, signals, chosen, in.declared), limits))

Completeness(items, kinds, decisions) ==
    IF Collides(items) THEN "FAILED"
    ELSE IF Blocking(kinds) \/ \E id \in DOMAIN decisions : decisions[id].state # "REVIEW_REQUIRED"
    THEN "INCOMPLETE_REQUIRED_EVIDENCE" ELSE "COMPLETE_REVIEW_READY"
FusionResult(items, kinds, decisions) ==
    [decisions |-> decisions, completeness |-> Completeness(items, kinds, decisions)]
FuseItems(policy, in, limits, chosen, items) ==
    FusionResult(items, Failures(policy, in, limits, chosen, items),
           [id \in {c.id : c \in chosen} |->
               LET c == CHOOSE x \in chosen : x.id = id
               IN CandidateDecision(policy, in, limits, chosen, c, About(items, Subject(policy, c)))])
FuseChosen(policy, in, limits, chosen) ==
    FuseItems(policy, in, limits, chosen,
              Items(policy, in, {[id |-> c.id, subject |-> Subject(policy, c), endpoints |-> Endpoints(c)] : c \in chosen}))
Fuse(policy, in, limits) == FuseChosen(policy, in, limits, Kept(in.candidates, limits.candidates))

-----------------------------------------------------------------------------
\* The reference: what a reviewer may take for granted of a fusion that is
\* ready.  Every candidate has a decision; every required analysis ran to its
\* end; the measurements behind a candidate are of the snapshot it names; and
\* a candidate is rated high only when its types agree.
CandidateSound(policy, c, d, measured, typed) ==
    /\ d.score.total <= 100 * d.score.eligible /\ d.score.total >= -100 * d.score.eligible
    /\ policy.kind = "RELATIONSHIP" =>
         /\ measured # {}
         /\ \A i \in measured : i.snaps \subseteq SnapsOf(Endpoints(c))
         /\ d.band = "HIGH" => \E i \in measured : i.compatible
    /\ policy.kind = "MAPPING" =>
         /\ \E m \in typed : m.ranks # {}
         /\ \A m \in typed : \A s \in m.snaps : \A t \in SnapsOf(Endpoints(c)) : s[1] = t[1] => s[2] = t[2]
         /\ d.band = "HIGH" => \E m \in typed : \E v \in m.structural : v >= 50
ResultSound(policy, in, out) ==
    out.completeness = "COMPLETE_REVIEW_READY" =>
        /\ DOMAIN out.decisions = {c.id : c \in in.candidates}
        /\ \A f \in RequiredProducers :
             /\ \E s \in in.statuses : s.family = f
             /\ \A s \in in.statuses : s.family = f => s.state = "COMPLETE"
        /\ \A c \in in.candidates :
             CandidateSound(policy, c, out.decisions[c.id], {i \in in.inclusions : i.subject = Subject(policy, c)},
                            {m \in in.matches : m.subject = Subject(policy, c) /\ m.structural # {}})
ReadyIsSound(policy, in, limits) == ResultSound(policy, in, Fuse(policy, in, limits))
=============================================================================
