---------------------------- MODULE G6Validation ----------------------------
(***************************************************************************)
(* ValidationService.validate (application/validation.py): the checks that  *)
(* compare source truth with every artifact downstream of it, and gate G6.  *)
(*                                                                          *)
(* An artifact is a record with its reference in field ref.                 *)
(* The input x has the fields of ValidationInputs: truth, canonical,        *)
(* accounting, dataset, binding, plan, compiled, mat, semantic, semval,     *)
(* bindings, and target, the snapshot of the target file ([ok |-> FALSE]    *)
(* when the reader refused it).                                             *)
(***************************************************************************)
EXTENDS StarSchema

Verdict(holds) == IF holds THEN "PASS" ELSE "FAIL"
VerdictOf(holds, present) ==
    IF holds THEN "PASS" ELSE IF present THEN "FAIL" ELSE "NOT_EVALUATED"

\* DuckDBValidationTargetReader.snapshot: the file must hash to what the
\* materialization recorded and hold the reviewed tables.
ReadTarget(file, mat) ==
    IF mat.ok /\ file = mat.file /\ file.ok THEN file ELSE Raised

TargetChecks == {"target_table_set", "fact_count", "fact_grain", "fact_duplicates",
                 "fact_business_values", "foreign_key_integrity", "key_uniqueness",
                 "date_coverage", "quantity_global", "quantity_slices",
                 "lineage_source_to_target", "lineage_target_to_source"}

\* A reference is the id and content hash of an artifact: x.plan.ref and so on.
ArtifactBinding(x) ==
    /\ x.bindings = <<x.truth, x.accounting, x.canonical.ref, x.plan.ref, x.dataset.ref,
                      x.binding.ref, x.compiled.ref, x.mat.ref, x.semantic.ref, x.semval.ref>>
    /\ x.mat.ok
    /\ x.compiled.plan = x.plan.ref
    /\ x.dataset.canonical = x.canonical.ref
    /\ x.binding.canonical = x.canonical.ref
    /\ x.binding.dataset = x.dataset.ref
    /\ x.plan.binding = x.binding.ref
    /\ x.semantic.plan = x.plan.ref
    /\ x.semantic.compiled = x.compiled.ref
    /\ x.semantic.mat = x.mat.ref
    /\ x.semval.model = x.semantic.ref

SourceSnapshotUniverse(x) == {r.snap : r \in x.truth.records} = {x.truth.snap}

\* compare_accounting: expected and actual are functions of the same records
\* to a disposition and an output.
CompareAccounting(x, boundary, universe) ==
    LET expected == x.truth.expected[boundary]
        actual == x.accounting[boundary]
    IN IF DOMAIN expected = {} THEN "NOT_EVALUATED"
       ELSE Verdict(/\ DOMAIN actual = universe
                    /\ DOMAIN expected = universe
                    /\ \A r \in universe : actual[r] = expected[r])

MapsOf(x, r) == {m \in x.canonical.maps : m.ref = r.ref}

CanonicalMembership(x) ==
    VerdictOf(/\ \A r \in x.truth.records :
                    /\ Cardinality(MapsOf(x, r)) = 1
                    /\ \A m \in MapsOf(x, r) : m.snap = r.snap /\ m.entity = r.entity
              /\ {m.ref : m \in x.canonical.maps} = {r.ref : r \in x.truth.records},
              x.canonical.maps # {})

CanonicalEntityCounts(x) ==
    VerdictOf(x.truth.entities = x.canonical.instances, x.canonical.instances # {})

\* Each declared duplicate group is one instance made of consolidated records.
DedupExplainability(x) ==
    VerdictOf(\A g \in x.truth.duplicates :
                 /\ g \in x.canonical.instances
                 /\ \A m \in x.canonical.maps : m.ref \in g.refs => m.disposition = "CONSOLIDATED",
              x.canonical.instances # {})

CanonicalEventRelationships(x) ==
    VerdictOf(/\ x.truth.records # {}
              /\ \A r \in x.truth.records : \E m \in MapsOf(x, r) : m.entity = r.entity
              /\ {l.relationship : l \in x.truth.links} \subseteq x.canonical.relationships,
              x.canonical.instances # {})

AnalyticalInputBinding(x) ==
    x.binding.dataset = x.dataset.ref /\ x.dataset.canonical = x.canonical.ref

RelationshipAllocation(x) ==
    \A l \in x.truth.links : \E r \in x.dataset.rows : r.ref = l.ref /\ r.entity = l.entity

-----------------------------------------------------------------------------
(* The checks that read the target; d is the compiled design.              *)

Facts(x) == x.target.facts
Members(x, dim) == x.target.dims[dim]

FactCount(x) == Cardinality(x.truth.facts) = Cardinality(Facts(x))
FactGrain(x) ==
    /\ {f.grain : f \in x.truth.facts} = {f.grain : f \in Facts(x)}
    /\ Cardinality({f.grain : f \in Facts(x)}) = Cardinality(Facts(x))
FactDuplicates(x) == Cardinality({f.grain : f \in Facts(x)}) = Cardinality(Facts(x))

\* The value comparison that stands: event, measure, allocation to the declared
\* dimensions and lineage.  (The first pass also compares the date; its result
\* is replaced.)
FactBusinessValues(x) ==
    \A want \in x.truth.facts : \E row \in Facts(x) :
        /\ row.grain = want.grain
        /\ row.event = want.event
        /\ row.measure = want.measure
        /\ \A i \in DOMAIN x.compiled.design.fks :
             LET fk == x.compiled.design.fks[i]
             IN fk.dim \in DOMAIN want.dims =>
                  \E m \in Members(x, fk.dim) : m.entity = want.dims[fk.dim] /\ row.keys[i] = m.key
        /\ want.refs \subseteq row.refs

ForeignKeyIntegrity(x) ==
    \A f \in Facts(x), i \in DOMAIN x.compiled.design.fks :
        f.keys[i] \in {m.key : m \in Members(x, x.compiled.design.fks[i].dim)}

KeyUniqueness(x) ==
    \A dim \in DOMAIN x.compiled.design.dims :
        /\ Cardinality({m.key : m \in Members(x, dim)}) = Cardinality(Members(x, dim))
        /\ Cardinality({m.entity : m \in Members(x, dim)}) = Cardinality(Members(x, dim))
        /\ Cardinality({[a \in x.compiled.design.dims[dim].alternate |-> m.attrs[a]]
                        : m \in Members(x, dim)}) = Cardinality(Members(x, dim))
             \/ x.compiled.design.dims[dim].alternate = {}

DateCoverage(x) ==
    \A dim \in {y \in DOMAIN x.compiled.design.dims : IsDate(x.compiled.design, y)} :
        {f.date : f \in x.truth.facts} \ {Null} \subseteq {m.entity : m \in Members(x, dim)}

\* Sums of the target by member of a dimension ("global": over everything).
\* A group with nothing to add up has no sum.
GroupOf(x, f, by) ==
    IF by = "global" THEN {"global"}
    ELSE UNION {{m.entity : m \in {y \in Members(x, by) : y.key = f.keys[i]}} :
                i \in {j \in DOMAIN x.compiled.design.fks : x.compiled.design.fks[j].dim = by}}
GroupMatches(x, aggregate, key) ==
    LET rows == {f \in Facts(x) : key \in GroupOf(x, f, aggregate.by) /\ f.measure # Null}
    IN rows # {} /\ SumFunctionOnSet([f \in rows |-> f.measure], rows) = aggregate.expected[key]
AggregatesMatch(x, aggregates) ==
    \A a \in aggregates : \A key \in DOMAIN a.expected : GroupMatches(x, a, key)
Slices(x) == {a \in x.truth.aggregates : a.by # "global"}

TargetLineage(x) ==
    (UNION {f.refs : f \in Facts(x)})
        \cup (UNION {UNION {m.refs : m \in Members(x, dim)} : dim \in DOMAIN x.compiled.design.dims})
Contributing(x) ==
    {r.ref : r \in {y \in x.truth.records :
        \E m \in MapsOf(x, y) :
            /\ m.entity \in DOMAIN x.accounting["CANONICAL_TO_ANALYTICAL"]
            /\ x.accounting["CANONICAL_TO_ANALYTICAL"][m.entity].disposition
                 \in {"EMITTED_DIRECT", "CONSOLIDATED", "AGGREGATED"}}}

SemanticCrossCheck(x) == x.semantic.measure = x.compiled.design.measure /\ x.semval.status = "PASS"

-----------------------------------------------------------------------------
TargetCheck(x, check) ==
    IF ~x.target.ok THEN "NOT_EVALUATED"
    ELSE CASE check = "target_table_set" -> Verdict(DOMAIN x.target.dims = DOMAIN x.compiled.design.dims)
           [] check = "fact_count" -> Verdict(FactCount(x))
           [] check = "fact_grain" -> Verdict(FactGrain(x))
           [] check = "fact_duplicates" -> Verdict(FactDuplicates(x))
           [] check = "fact_business_values" -> Verdict(FactBusinessValues(x))
           [] check = "foreign_key_integrity" -> Verdict(ForeignKeyIntegrity(x))
           [] check = "key_uniqueness" -> Verdict(KeyUniqueness(x))
           [] check = "date_coverage" -> Verdict(DateCoverage(x))
           [] check = "quantity_global" -> Verdict(AggregatesMatch(x, x.truth.aggregates))
           [] check = "quantity_slices" -> VerdictOf(Slices(x) # {} /\ AggregatesMatch(x, Slices(x)), Slices(x) # {})
           [] check = "lineage_source_to_target" -> Verdict(Contributing(x) \subseteq TargetLineage(x))
           [] check = "lineage_target_to_source" -> Verdict(TargetLineage(x) \subseteq {r.ref : r \in x.truth.records})

\* The statuses of the required blocking checks.
Statuses(x) ==
    {Verdict(ArtifactBinding(x)), Verdict(SourceSnapshotUniverse(x)),
     CompareAccounting(x, "SOURCE_TO_CANONICAL", {r.ref : r \in x.truth.records}),
     CanonicalMembership(x), CanonicalEntityCounts(x), DedupExplainability(x),
     CanonicalEventRelationships(x),
     CompareAccounting(x, "CANONICAL_TO_ANALYTICAL", {e.entity : e \in x.truth.entities}),
     Verdict(AnalyticalInputBinding(x)), Verdict(RelationshipAllocation(x)),
     Verdict(SemanticCrossCheck(x))}
    \cup {TargetCheck(x, c) : c \in TargetChecks}

\* Gate G6.
Gate(x) ==
    IF "FAIL" \in Statuses(x) THEN "FAIL"
    ELSE IF "NOT_EVALUATED" \in Statuses(x) THEN "PENDING" ELSE "PASS"
=============================================================================
