----------------------------- MODULE MultiSource -----------------------------
(***************************************************************************)
(* One run over a set of sources: every source discovered, staged and        *)
(* analysed, customers linked across sources, and the orders of linked       *)
(* customers loaded (application/multi_source_product.py,                    *)
(* domain/contracts/multi_source.py).                                        *)
(*                                                                           *)
(*   world    : [sources, catalogs, staged, seen, evidence, fusion, match,   *)
(*              service, engine]; seen[s] holds the fingerprints of the      *)
(*              first and the second discovery, evidence[s] the results of   *)
(*              profiling, dependency discovery and quality analysis         *)
(*   catalog  : sequence of [id, columns], columns a sequence of names       *)
(*   review   : [subject, hash], what a reviewer says to have read; Null     *)
(*              when he does not say                                         *)
(***************************************************************************)
EXTENDS EntityLinking

CONSTANT Aliases   \* logical column -> the names it may have

Checkpoints == {"REVIEW_EVIDENCE_DECISIONS", "REVIEW_CANONICAL_IDENTITY", "REVIEW_ANALYTICAL_PLAN", "REVIEW_MATERIALIZATION_PLAN"}
IdentityFields == <<"customer_name", "customer_email", "customer_phone">>

\* _order_table, _column, _logical_value
IsOrderTable(table) == Range(table.columns) \cap Aliases["order_id"] # {}
OrderTable(catalog) == catalog[SelectInSeq(catalog, IsOrderTable)]
NoOrderTable(world) == \E s \in Range(world.sources) : SelectInSeq(world.catalogs[s], IsOrderTable) = 0
ColumnAt(table, logical) == SelectInSeq(table.columns, LAMBDA c : c \in Aliases[logical])
LogicalValue(table, row, logical) ==
    IF ColumnAt(table, logical) = 0 THEN Null ELSE row.values[table.columns[ColumnAt(table, logical)]]

-----------------------------------------------------------------------------
(* _er_spec: the identity fields that every source exposes.                 *)

Field(s, snapshot, table, f) ==
    [id |-> f, source |-> s, snapshot |-> snapshot, table |-> table.id, column |-> table.columns[ColumnAt(table, f)],
     role |-> f, rule |-> "identity", anchor |-> f = "customer_email"]
FieldsNamed(s, snapshot, table, names) == [i \in DOMAIN names |-> Field(s, snapshot, table, names[i])]
FieldsOn(s, snapshot, table) ==
    FieldsNamed(s, snapshot, table, SelectSeq(IdentityFields, LAMBDA f : ColumnAt(table, f) # 0))
FieldsIn(world, s) ==
    FieldsOn(s, world.staged[s].snapshot, OrderTable(world.catalogs[s]))
AllFields(world) == FlattenSeq([i \in DOMAIN world.sources |-> FieldsIn(world, world.sources[i])])
\* the fields of all sources together, not of each
ScopeIncomplete(world) == Ids(AllFields(world)) # Range(IdentityFields)
ErScope(world, fields) ==
    [sources |-> world.sources, snapshots |-> [s \in Range(world.sources) |-> world.staged[s].snapshot],
     tables |-> [s \in Range(world.sources) |-> <<OrderTable(world.catalogs[s]).id>>],
     columns |-> [i \in DOMAIN fields |-> fields[i].column], spec |-> "customer"]
ErSpecOf(world, fields) ==
    [scope |-> ErScope(world, fields), mode |-> "LINK_ONLY", fields |-> fields,
     rules |-> <<[id |-> "identity", digits |-> FALSE, country |-> FALSE, guess |-> {}, preserve |-> TRUE]>>,
     blocking |-> [i \in DOMAIN IdentityFields |->
         [id |-> IdentityFields[i], operator |-> "AND", fields |-> {IdentityFields[i]}, covers |-> {IdentityFields[i]}]],
     comparisons |-> [i \in DOMAIN IdentityFields |-> [field |-> IdentityFields[i], frequency |-> FALSE]],
     training |-> [em |-> {"customer_name", "customer_email"}, prior |-> 1, strategy |-> "EXPLICIT", method |-> Null, provenance |-> TRUE],
     threshold |-> [id |-> "t", match |-> 95, review |-> 80, weight |-> -5, independent |-> TRUE],
     clustering |-> [threshold |-> "t", size |-> 100, placeholder |-> TRUE, anchors |-> TRUE, bridge |-> TRUE, review |-> FALSE],
     budget |-> [records |-> 100000, pairs |-> 100000, all |-> 1000000, size |-> 100],
     context |-> [purpose |-> "LINKING", local |-> TRUE, network |-> FALSE, external |-> FALSE, llm |-> FALSE,
                  raw |-> FALSE, cleanup |-> TRUE, temp |-> "inside"]]
ErSpec(world) == ErSpecOf(world, AllFields(world))
\* authorized for every batch of every source, whatever its table
AllBatches(world) == FlattenSeq([i \in DOMAIN world.sources |-> world.staged[world.sources[i]].batches])
LinkedUnder(world, spec, issued) ==
    Run(spec, [s \in Range(world.sources) |-> {t.id : t \in Range(world.catalogs[s])}], world.staged, issued.service, issued.grant, world.engine)
LinkedBy(world, spec) == LinkedUnder(world, spec, AuthorizeLinking(world.service, spec.context, spec.scope, AllBatches(world), 1))
Linked(world) == LinkedBy(world, ErSpec(world))

-----------------------------------------------------------------------------
(* prepare: the first stage that is not complete blocks the run.            *)

\* profile, dependencies and quality are finished source by source
EvidenceBlock(world) ==
    LET bad(s) == \E k \in {"profile", "dependency", "quality"} : world.evidence[s][k] # "COMPLETE"
        first == world.sources[SelectInSeq(world.sources, bad)]
    IN IF ~\E s \in Range(world.sources) : bad(s) THEN ""
       ELSE IF world.evidence[first].profile # "COMPLETE" THEN "PROFILE_INCOMPLETE"
       ELSE IF world.evidence[first].dependency # "COMPLETE" THEN "DEPENDENCY_INCOMPLETE"
       ELSE "QUALITY_INCOMPLETE"
Blocked(world, linked) ==
    IF \E s \in Range(world.sources) : world.seen[s][1] # world.seen[s][2] THEN "SOURCE_CHANGED_DURING_RUN"
    ELSE IF EvidenceBlock(world) # "" THEN EvidenceBlock(world)
    ELSE IF NoOrderTable(world) THEN "ORDER_TABLE_MISSING"
    ELSE IF world.match # "COMPLETE" THEN "SCHEMA_MATCHING_NOT_COMPLETE"
    ELSE IF ScopeIncomplete(world) THEN "IDENTITY_SCOPE_INCOMPLETE"
    ELSE IF linked.status # "COMPLETE" THEN "ENTITY_RESOLUTION_NOT_COMPLETE"
    ELSE IF world.fusion # "COMPLETE_REVIEW_READY" THEN "EVIDENCE_FUSION_INCOMPLETE"
    ELSE ""
\* the rows of the order tables, source by source
Tagged(s, rows) == [j \in DOMAIN rows |-> [source |-> s, row |-> rows[j]]]
RowsRead(world) ==
    FlattenSeq([i \in DOMAIN world.sources |->
        Tagged(world.sources[i], SelectSeq(world.staged[world.sources[i]].rows, LAMBDA r : r.table = OrderTable(world.catalogs[world.sources[i]]).id))])

-----------------------------------------------------------------------------
(* resume: reviews, identity, the loaded orders and the record accounting.  *)

ReviewBlock(reviews, subject) ==
    IF ~(Checkpoints \subseteq DOMAIN reviews) THEN "REVIEW_REQUIRED"
    ELSE IF LET r == reviews["REVIEW_EVIDENCE_DECISIONS"]
            IN r.subject \notin {Null, subject.subject} \/ r.hash \notin {Null, subject.hash} THEN "STALE_REVIEW"
    ELSE ""
\* _build_canonical: a guarded cluster is a customer
\* Mutant: clusters held back for review count too
MembershipsAny(linked) == linked.clusters
Memberships(linked) == {c \in linked.clusters : c.decision = "CANDIDATE_CLUSTER"}
CustomerOf(linked, ref) ==
    LET of == {c \in Memberships(linked) : ref \in c.refs} IN IF of = {} THEN {} ELSE (CHOOSE c \in of : TRUE).refs

Disposition(world, linked, r) ==
    LET value(logical) == LogicalValue(OrderTable(world.catalogs[r.source]), r.row, logical)
    IN IF CustomerOf(linked, r.row.ref) = {} THEN "orphan"
       ELSE IF value("order_id") = Null \/ value("order_date") = Null THEN "quarantined"
       ELSE IF value("quantity") = Null THEN "unresolved"
       ELSE "emitted"
Fact(world, linked, r) ==
    LET value(logical) == LogicalValue(OrderTable(world.catalogs[r.source]), r.row, logical)
    IN [order |-> value("order_id"), customer |-> CustomerOf(linked, r.row.ref), day |-> value("order_date"), source |-> r.source,
        ref |-> r.row.ref, quantity |-> value("quantity")]
FactsOf(world, linked, kept) == [i \in DOMAIN kept |-> Fact(world, linked, kept[i])]
FactRows(world, linked) == FactsOf(world, linked, SelectSeq(RowsRead(world), LAMBDA r : Disposition(world, linked, r) = "emitted"))
\* fates gives the disposition of each row read of one source
CountOf(fates, kinds) == Cardinality({i \in DOMAIN fates : fates[i] \in kinds})
Counted(fates) ==
    [input |-> Len(fates), emitted |-> CountOf(fates, {"emitted"}), quarantined |-> CountOf(fates, {"orphan", "quarantined", "unresolved"}),
     unresolved |-> CountOf(fates, {"unresolved"}), orphan |-> CountOf(fates, {"orphan"})]
FatesOf(world, linked, rows) == [i \in DOMAIN rows |-> Disposition(world, linked, rows[i])]
Accounting(world, linked, s) == Counted(FatesOf(world, linked, SelectSeq(RowsRead(world), LAMBDA r : r.source = s)))
DispositionComplete(a) == a.input = a.emitted + a.quarantined
\* PRIMARY KEY (source_key, order_id): DuckDB refuses the insert
KeyRepeated(facts) == \E i, j \in DOMAIN facts : i # j /\ facts[i].source = facts[j].source /\ facts[i].order = facts[j].order
Stopped(code, target) == [code |-> code, target |-> target, accounting |-> Null]
\* the new file replaces the target only when every table is filled
Loaded(world, facts, accounting) ==
    [code |-> IF \A s \in DOMAIN accounting : DispositionComplete(accounting[s]) THEN "" ELSE "RECORD_ACCOUNTING_INCOMPLETE",
     target |-> [facts |-> Range(facts), customers |-> {f.customer : f \in Range(facts)}, days |-> {f.day : f \in Range(facts)},
                 sources |-> Range(world.sources)],
     accounting |-> accounting]
MaterializeFacts(world, linked, facts, target) ==
    IF facts = <<>> THEN Stopped("EMPTY_ANALYTICAL_OUTPUT", target)
    ELSE IF KeyRepeated(facts) THEN Stopped("RAISED", target)
    ELSE Loaded(world, facts, [s \in Range(world.sources) |-> Accounting(world, linked, s)])
Materialize(world, linked, target) == MaterializeFacts(world, linked, FactRows(world, linked), target)
ResumeWith(world, linked, blocked, reviews, subject, target) ==
    IF blocked # "" THEN Stopped(blocked, target)
    ELSE IF ReviewBlock(reviews, subject) # "" THEN Stopped(ReviewBlock(reviews, subject), target)
    ELSE IF Memberships(linked) = {} THEN Stopped("NO_REVIEWED_CUSTOMER_MEMBERSHIP", target)
    ELSE Materialize(world, linked, target)
ResumeLinked(world, linked, reviews, subject, target) ==
    ResumeWith(world, linked, Blocked(world, linked), reviews, subject, target)
Resume(world, reviews, subject, target) == ResumeLinked(world, Linked(world), reviews, subject, target)

-----------------------------------------------------------------------------
(* What the run promises, without stages or intermediate results.           *)

\* a customer is a set of records that agree pairwise on some identity value
\* and has no two different e-mail addresses
OneCustomer(refs, records) ==
    /\ Cardinality(refs) >= 2
    /\ \A x, y \in refs : x # y => \E f \in Range(IdentityFields) : Agrees({r \in records : r.ref \in {x, y}}, f)
    /\ \A x, y \in {r \in records : r.ref \in refs} :
           x.values["customer_email"] = y.values["customer_email"] \/ Null \in {x.values["customer_email"], y.values["customer_email"]}
AccountTrue(account, read, loaded) ==
    account.input = Cardinality(read) /\ account.emitted = Cardinality(loaded) /\ DispositionComplete(account)
LoadedTrue(world, target, accounting, read, records) ==
    /\ \A s \in Range(world.sources) :
           AccountTrue(accounting[s], {r \in read : r.source = s}, {f \in target.facts : f.source = s})
    /\ \A f, g \in target.facts : f.source = g.source /\ f.order = g.order => f = g
    /\ \A f \in target.facts :
           /\ f.customer \in target.customers /\ f.day \in target.days /\ f.source \in target.sources /\ f.ref \in f.customer
           /\ \E r \in read : r.row.ref = f.ref /\ r.source = f.source
                  /\ f.order # Null /\ f.quantity = LogicalValue(OrderTable(world.catalogs[r.source]), r.row, "quantity")
    /\ \A c \in target.customers : OneCustomer(c, records)
ResumeTrue(world, reviews, target, result) ==
    /\ result.code # "" => result.accounting = Null /\ result.target = target
    /\ result.code = "" =>
         /\ Checkpoints \subseteq DOMAIN reviews /\ \A s \in Range(world.sources) : world.seen[s][1] = world.seen[s][2]
         /\ LoadedTrue(world, result.target, result.accounting, Range(RowsRead(world)), Records(ErSpec(world), world.staged))
MultiTrue(world, reviews, subject, target) == ResumeTrue(world, reviews, target, Resume(world, reviews, subject, target))
=============================================================================
