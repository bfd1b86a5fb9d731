---------------------------- MODULE EntityLinking ----------------------------
(***************************************************************************)
(* Bounded entity resolution (application/entity_resolution.py,             *)
(* adapters/entity_resolution/splink.py,                                    *)
(* domain/contracts/entity_resolution.py).                                  *)
(*                                                                          *)
(*   spec     : [scope, mode, fields, rules, blocking, comparisons,         *)
(*              training, threshold, clustering, budget, context]           *)
(*   field    : [id, source, snapshot, table, column, role, rule, anchor];  *)
(*              fields of several sources share an id to be compared        *)
(*   staged   : source -> [snapshot, batches, intact, rows]; a row is       *)
(*              [ref, table, values], values a function of the columns      *)
(*   engine   : [version, tunable, trains, predicts, score], Splink: score  *)
(*              gives each pair of records its probability and weight       *)
(*   result   : [status, failures, edges, clusters, trained, read, root]    *)
(***************************************************************************)
EXTENDS LocalGrants, Relation

CONSTANTS
    Null,     \* no value, or a placeholder after normalization
    Unbound   \* the record's table has no such identity field

Ids(seq) == {x.id : x \in Range(seq)}

-----------------------------------------------------------------------------
(* The contracts.                                                           *)

\* ERBlockingRule.no_cartesian: an AND of equalities that covers the fields
BlockingRuleValid(rule) == rule.operator = "AND" /\ rule.fields # {} /\ rule.covers = rule.fields
\* ERTrainingPolicy.validate_prior
TrainingValid(training) ==
    /\ training.em # {} /\ training.provenance
    /\ training.strategy = "EXPLICIT" => training.prior # Null
    /\ training.strategy = "ESTIMATED" => training.method # Null
\* ERThresholdPolicy.ordered
ThresholdOrdered(threshold) == threshold.review < threshold.match
\* EntityResolutionNormalizationRule.conservative
NormalizationValid(rule) == rule.guess = {} /\ rule.preserve
\* EntityResolutionSpec.validate_candidate_scope
SpecValid(spec) ==
    LET scope == spec.scope
        bindings == {<<f.source, f.table, f.column>> : f \in Range(spec.fields)}
    IN /\ DOMAIN scope.snapshots = Range(scope.sources) /\ DOMAIN scope.tables = Range(scope.sources)
       /\ spec.mode = "DEDUPE_ONLY" => Len(scope.sources) = 1
       /\ spec.mode = "LINK_ONLY" => Len(scope.sources) >= 2
       /\ spec.fields # <<>> /\ Cardinality(bindings) = Len(spec.fields)
       /\ \A f \in Range(spec.fields) : f.rule \in Ids(spec.rules)
       /\ \A r \in Range(spec.blocking) : BlockingRuleValid(r) /\ r.fields \subseteq Ids(spec.fields)
       /\ \A c \in Range(spec.comparisons) : c.field \in Ids(spec.fields)
       /\ spec.training.em \subseteq Ids(spec.blocking) /\ TrainingValid(spec.training)
       /\ ThresholdOrdered(spec.threshold) /\ spec.clustering.threshold = spec.threshold.id
       /\ \A r \in Range(spec.rules) : NormalizationValid(r)
       /\ ContextValid(spec.context, "LINKING")
\* EntityMatchEdge.linkable_only, EntityCluster.no_canonical_identity
EdgeValid(edge) == Cardinality(edge.ends) = 2
ClusterValid(cluster) == cluster.decision \notin {"CANONICAL", "ACCEPTED_MERGE"}
\* EntityResolutionResult.validate_result
ResultValid(result) == result.status = "COMPLETE" => result.trained

-----------------------------------------------------------------------------
(* Records: _normalize, _load_records.                                      *)

\* a raw value is [kind, text]; kind "placeholder" also stands for a long run
\* of one digit; "mixed" holds digits, "letters" none
Normalized(raw, rule) ==
    CASE raw = Null \/ raw.kind = "placeholder" -> Null
      [] rule.digits /\ raw.kind = "letters" -> Null
      [] OTHER -> raw.text
NormalizeFails(raw, field, rule) ==
    raw # Null /\ raw.kind # "placeholder" /\ rule.digits /\ field.role = "phone" /\ ~rule.country
RuleOf(spec, field) == CHOOSE r \in Range(spec.rules) : r.id = field.rule
FieldsOf(spec, s, t) == {f \in Range(spec.fields) : f.source = s /\ f.table = t}
RowsOf(spec, staged, s) ==
    {r \in Range(staged[s].rows) : r.table \in Range(spec.scope.tables[s]) /\ FieldsOf(spec, s, r.table) # {}}
LoadFails(spec, staged) ==
    \E s \in Range(spec.scope.sources) : \E r \in RowsOf(spec, staged, s) :
        \E f \in FieldsOf(spec, s, r.table) : NormalizeFails(r.values[f.column], f, RuleOf(spec, f))
\* the last of the fields that share an id
ValueIn(spec, row, field) == Normalized(row.values[field.column], RuleOf(spec, field))
ValueAt(spec, row, places) == IF places = {} THEN Unbound ELSE ValueIn(spec, row, spec.fields[Max(places)])
ValueOf(spec, s, row, id) ==
    ValueAt(spec, row, {i \in DOMAIN spec.fields : spec.fields[i] \in FieldsOf(spec, s, row.table) /\ spec.fields[i].id = id})
Records(spec, staged) ==
    UNION {{[ref |-> r.ref, source |-> s, values |-> [id \in Ids(spec.fields) |-> ValueOf(spec, s, r, id)]] :
               r \in RowsOf(spec, staged, s)} : s \in Range(spec.scope.sources)}
BatchesOf(spec, staged) ==
    FlattenSeq([i \in DOMAIN spec.scope.sources |->
        SelectSeq(staged[spec.scope.sources[i]].batches,
                  LAMBDA b : b[1] \in Range(spec.scope.tables[spec.scope.sources[i]]))])

-----------------------------------------------------------------------------
(* Entry and bounds: _validate_entry, _all_pairs, _candidate_pair_keys.     *)

Granted(spec, staged, service, grant) == VerifyLinking(service, grant, spec.scope, BatchesOf(spec, staged))
InScope(spec, catalogs, staged) ==
    LET scope == spec.scope
    IN /\ DOMAIN catalogs = Range(scope.sources) /\ DOMAIN staged = Range(scope.sources)
       /\ \A s \in Range(scope.sources) : staged[s].snapshot = scope.snapshots[s]
       /\ \A f \in Range(spec.fields) : /\ f.source \in Range(scope.sources) /\ f.snapshot = scope.snapshots[f.source]
                                        /\ f.table \in Range(scope.tables[f.source])
       /\ \A s \in Range(scope.sources) : Range(scope.tables[s]) \subseteq catalogs[s]
ReadBroken(spec, staged) ==
    \E s \in Range(spec.scope.sources) :
        ~staged[s].intact /\ \E t \in Range(spec.scope.tables[s]) : FieldsOf(spec, s, t) # {}

Couples(records) == {c \in SUBSET records : Cardinality(c) = 2}
Sources(couple) == {r.source : r \in couple}
AllPairs(spec, records) ==
    IF spec.mode = "LINK_ONLY" THEN Cardinality({c \in Couples(records) : Cardinality(Sources(c)) = 2})
    ELSE Cardinality(Couples(records))
Present(v) == v \notin {Null, Unbound}
Agrees(couple, id) == \E v \in {r.values[id] : r \in couple} : Present(v) /\ \A r \in couple : r.values[id] = v
CandidatePairs(spec, records) ==
    {c \in Couples(records) : /\ spec.mode = "LINK_ONLY" => Cardinality(Sources(c)) = 2
                              /\ \E rule \in Range(spec.blocking) : \A id \in rule.fields : Agrees(c, id)}
\* a blocking field that no loaded table binds has no column in the frame
ColumnMissing(spec, records) ==
    \E rule \in Range(spec.blocking) : \E id \in rule.fields : \A r \in records : r.values[id] = Unbound

-----------------------------------------------------------------------------
(* Prediction: _execute_splink, _prediction_band.                           *)

\* _configure_term_frequency_adjustment, the prior, and u/m training
TrainingFails(spec, engine) ==
    \/ \E c \in Range(spec.comparisons) : c.frequency /\ ~engine.tunable
    \/ spec.training.prior = Null
    \/ ~engine.trains
\* _independent_evidence: one entry for each field of the specification whose
\* id agrees, so an id bound in two sources is counted twice
EvidenceCount(spec, couple) == Cardinality({i \in DOMAIN spec.fields : Agrees(couple, spec.fields[i].id)})
Band(p, w, count, threshold) ==
    LET weighty == threshold.weight # Null /\ w >= threshold.weight
        band == IF weighty \/ p >= threshold.match THEN "STRONG"
                ELSE IF p >= threshold.review THEN "REVIEW" ELSE "BELOW"
    IN IF threshold.independent /\ band = "STRONG" /\ count < 2 THEN "REVIEW" ELSE band
\* Splink predicts the pairs its blocking rules let through
Predicted(spec, records) == CandidatePairs(spec, records)
Edges(spec, records, engine) ==
    {[ends |-> {r.ref : r \in c}, count |-> EvidenceCount(spec, c),
      band |-> Band(engine.score[{r.ref : r \in c}].p, engine.score[{r.ref : r \in c}].w, EvidenceCount(spec, c), spec.threshold)] :
        c \in Predicted(spec, records)}

-----------------------------------------------------------------------------
(* Clusters: _clusters, _has_conflicting_anchors.                           *)

\* union: the two parts an edge touches become one
United(parts, edge) ==
    LET touched == {p \in parts : p \cap edge.ends # {}} IN (parts \ touched) \cup {UNION touched}
Authorized(spec, edges) == {e \in edges : e.band = "STRONG" \/ (spec.clustering.review /\ e.band = "REVIEW")}
Components(records, edges) ==
    {p \in FoldSet(LAMBDA e, parts : United(parts, e), {{r.ref} : r \in records}, edges) : Cardinality(p) > 1}
Conflicting(spec, component, records) ==
    \E f \in Range(spec.fields) :
        f.anchor /\ Cardinality({r.values[f.id] : r \in {x \in records : x.ref \in component}} \ {Null}) > 1
\* Mutant: a chain of records passes for a cluster
BridgeNever(component, internal) == FALSE
UnsafeBridge(component, internal) ==
    LET n == Cardinality(component) IN n >= 3 /\ Cardinality(internal) < (n * (n - 1)) \div 2
Flags(spec, component, records, internal) ==
    (IF internal # {} /\ \A e \in internal : e.count = 0 THEN {"placeholder_only"} ELSE {})
        \cup (IF Conflicting(spec, component, records) THEN {"conflicting_anchors"} ELSE {})
        \cup (IF UnsafeBridge(component, internal) THEN {"unsafe_bridge"} ELSE {})
\* the flags the policy guards against, and the smaller of the two size limits
Guards(policy) ==
    (IF policy.placeholder THEN {"placeholder_only"} ELSE {}) \cup (IF policy.anchors THEN {"conflicting_anchors"} ELSE {})
        \cup (IF policy.bridge THEN {"unsafe_bridge"} ELSE {})
GuardedCluster(spec, component, internal, flags) ==
    [refs |-> component, edges |-> internal, flags |-> flags,
     decision |-> IF flags \cap Guards(spec.clustering) # {} \/ Cardinality(component) > Min({spec.clustering.size, spec.budget.size})
                  THEN "REVIEW_CLUSTER" ELSE "CANDIDATE_CLUSTER"]
Cluster(spec, component, records, edges) ==
    GuardedCluster(spec, component, {e \in edges : e.ends \subseteq component},
                   Flags(spec, component, records, {e \in edges : e.ends \subseteq component}))
ClustersOf(spec, records, authorized) == {Cluster(spec, c, records, authorized) : c \in Components(records, authorized)}
Clusters(spec, records, edges) == ClustersOf(spec, records, Authorized(spec, edges))

-----------------------------------------------------------------------------
(* run: the failures in the order the code meets them.                      *)

RunError(spec, catalogs, staged, service, grant, engine, records) ==
    IF engine.version # "4.0.17" THEN "CAPABILITY_UNAVAILABLE"
    ELSE IF ~(Range(spec.scope.sources) \subseteq DOMAIN staged) THEN "PREDICTION_FAILED"
    ELSE IF ~Granted(spec, staged, service, grant) THEN "AUTHORIZATION_INVALID"
    ELSE IF ~InScope(spec, catalogs, staged) THEN "PREDICTION_FAILED"
    ELSE IF ReadBroken(spec, staged) THEN "STAGED_INPUT_INTEGRITY_FAILED"
    ELSE IF LoadFails(spec, staged) THEN "PREDICTION_FAILED"
    ELSE IF Cardinality(records) > spec.budget.records THEN "BUDGET_EXCEEDED"
    ELSE IF records = {} \/ ColumnMissing(spec, records) THEN "PREDICTION_FAILED"
    ELSE IF Cardinality(CandidatePairs(spec, records)) > spec.budget.pairs THEN "BUDGET_EXCEEDED"
    ELSE IF TrainingFails(spec, engine) THEN "TRAINING_FAILED"
    ELSE IF ~engine.predicts THEN "PREDICTION_FAILED"
    ELSE ""
\* the private root is made by _execute_splink and removed on every way out
RunFailed(error, read) ==
    [status |-> "FAILED", failures |-> <<error>>, edges |-> {}, clusters |-> {}, trained |-> FALSE, read |-> read, root |-> FALSE]
RunDone(spec, records, wide, edges) ==
    [status |-> IF wide THEN "INCOMPLETE" ELSE "COMPLETE", failures |-> IF wide THEN <<"BUDGET_EXCEEDED">> ELSE <<>>,
     edges |-> edges, clusters |-> Clusters(spec, records, edges), trained |-> TRUE, read |-> {r.ref : r \in records}, root |-> FALSE]
RunEnded(error, spec, catalogs, staged, engine, records) ==
    IF error = "" THEN RunDone(spec, records, AllPairs(spec, records) > spec.budget.all, Edges(spec, records, engine))
    ELSE RunFailed(error, IF error \in {"CAPABILITY_UNAVAILABLE", "AUTHORIZATION_INVALID"} \/ ~InScope(spec, catalogs, staged) THEN {}
                          ELSE {r.ref : r \in records})
RunOn(spec, catalogs, staged, service, grant, engine, records) ==
    RunEnded(RunError(spec, catalogs, staged, service, grant, engine, records), spec, catalogs, staged, engine, records)
Run(spec, catalogs, staged, service, grant, engine) ==
    RunOn(spec, catalogs, staged, service, grant, engine, Records(spec, staged))

-----------------------------------------------------------------------------
(* What linked evidence means, without gates, folds or order of work.       *)

Connected(refs, edges) ==
    LET joined == [x, y \in refs |-> \E e \in edges : {x, y} = e.ends]
    IN ReflexiveTransitiveClosure(joined, refs)

\* an edge joins two records that agree on a real value, and strong evidence
\* needs the guard, whichever gate let it through; the guard counts the fields
\* bound to columns, so that one id bound in two sources counts twice
EdgeTrue(spec, edge, couple) ==
    /\ EdgeValid(edge) /\ \E id \in Ids(spec.fields) : Agrees(couple, id)
    /\ spec.mode = "LINK_ONLY" => Cardinality(Sources(couple)) = 2
    /\ edge.band = "STRONG" /\ spec.threshold.independent =>
           Cardinality({i \in DOMAIN spec.fields : Agrees(couple, spec.fields[i].id)}) >= 2
\* strong evidence, where the policy asks for independence, agrees on two
\* different identity fields
StrongIndependent(spec, edge, couple) ==
    edge.band = "STRONG" /\ spec.threshold.independent => Cardinality({id \in Ids(spec.fields) : Agrees(couple, id)}) >= 2
\* clusters are the connected components of the authorized edges
ComponentsTrue(clusters, refs, linked) ==
    /\ \A x \in refs : (\E c \in clusters : x \in c.refs) <=> \E y \in refs \ {x} : linked[x, y]
    /\ \A c \in clusters : \A x \in c.refs, y \in refs : y \in c.refs <=> linked[x, y]
\* and one that is offered as a candidate is a clique without conflict
ClusterTrue(spec, cluster, records, authorized) ==
    /\ ClusterValid(cluster)
    /\ cluster.decision = "CANDIDATE_CLUSTER" =>
           /\ Cardinality(cluster.refs) <= spec.clustering.size
           /\ spec.clustering.bridge => \A x, y \in cluster.refs : x # y => \E e \in authorized : e.ends = {x, y}
           /\ spec.clustering.anchors => \A f \in Range(spec.fields) : f.anchor =>
                  ~\E x, y \in {r \in records : r.ref \in cluster.refs} :
                      x.values[f.id] # Null /\ y.values[f.id] # Null /\ x.values[f.id] # y.values[f.id]
ResultTrue(spec, staged, service, grant, records, result, authorized) ==
    /\ ResultValid(result) /\ ~result.root
    \* rows are read under the last grant for exactly these batches
    /\ result.read # {} => /\ grant.id \in DOMAIN service.grants /\ service.grants[grant.id] = grant
                           /\ grant.scope = spec.scope /\ grant.batches = BatchesOf(spec, staged)
    /\ result.status = "FAILED" => result.edges = {} /\ result.clusters = {}
    /\ \A e \in result.edges : EdgeTrue(spec, e, {r \in records : r.ref \in e.ends})
    /\ result.status # "FAILED" =>
           ComponentsTrue(result.clusters, {r.ref : r \in records}, Connected({r.ref : r \in records}, authorized))
    /\ \A c \in result.clusters : ClusterTrue(spec, c, records, authorized)
RunTrue(spec, staged, service, grant, records, result) ==
    ResultTrue(spec, staged, service, grant, records, result, Authorized(spec, result.edges))
LinksTrue(spec, catalogs, staged, service, grant, engine) ==
    SpecValid(spec) =>
        RunTrue(spec, staged, service, grant, Records(spec, staged), Run(spec, catalogs, staged, service, grant, engine))
LinksIndependent(spec, catalogs, staged, service, grant, engine) ==
    SpecValid(spec) =>
        \A e \in Run(spec, catalogs, staged, service, grant, engine).edges :
            StrongIndependent(spec, e, {r \in Records(spec, staged) : r.ref \in e.ends})
=============================================================================
