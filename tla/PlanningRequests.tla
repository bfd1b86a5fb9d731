-------------------------- MODULE PlanningRequests --------------------------
(***************************************************************************)
(* What the order product policy asks of the engines and of the planner      *)
(* (product_policy.py), the contracts its request has to meet (contracts/    *)
(* analytical.py) and the plan made of it (analytical_planner.py).           *)
(*   name    : [base (the name in lower case), exact (spelled so), safe       *)
(*             (an SQL identifier)]                                         *)
(*   catalog : [source, tables (Seq of [id, name]), columns (Seq of [id,       *)
(*             table, name])]                                               *)
(***************************************************************************)
EXTENDS Integers, Sequences, FiniteSets, SequencesExt, FiniteSetsExt

Nothing == [id |-> "nothing", name |-> "nothing"]
Refused == [ok |-> FALSE]
Spelled(base) == [base |-> base, exact |-> TRUE, safe |-> TRUE]

-----------------------------------------------------------------------------
(* The policy                                                               *)

\* order_v1.json
PolicyTable == "orders"
Rules ==
    <<[type |-> "REQUIRED_VALUE", columns |-> <<"order_id">>], [type |-> "REQUIRED_VALUE", columns |-> <<"customer_id">>],
      [type |-> "REQUIRED_VALUE", columns |-> <<"customer_id_ref">>], [type |-> "REQUIRED_VALUE", columns |-> <<"order_date">>],
      [type |-> "REQUIRED_VALUE", columns |-> <<"quantity">>], [type |-> "REQUIRED_VALUE", columns |-> <<"unit_price">>],
      [type |-> "UNIQUE_VALUES", columns |-> <<"order_id">>], [type |-> "EXACT_ROW_DUPLICATION", columns |-> <<>>]>>
PolicyColumns == UNION {Range(Rules[i].columns) : i \in DOMAIN Rules}
EntityAssertions == {"source-local-order-identity"}

\* source_table: the configured table, or the only one
SourceTable(catalog) ==
    LET configured == SelectSeq(catalog.tables, LAMBDA t : t.name = PolicyTable)
    IN IF configured # <<>> THEN Head(configured) ELSE IF Len(catalog.tables) = 1 THEN Head(catalog.tables) ELSE Nothing
\* column: the first of the table whose name is one of these in any case
ColumnIn(catalog, table, names) ==
    LET fits == SelectSeq(catalog.columns, LAMBDA c : c.table = table /\ c.name.base \in names)
    IN IF fits = <<>> THEN Nothing ELSE Head(fits)

TableIds(catalog) == {t.id : t \in Range(catalog.tables)}
ProfileRequest(catalog, snapshot) == [source |-> catalog.source, snapshot |-> snapshot, tables |-> TableIds(catalog), columns |-> {}, mode |-> "FULL"]
DependencyRequest(catalog, snapshot) ==
    [source |-> catalog.source, snapshot |-> snapshot, tables |-> TableIds(catalog), local |-> TRUE,
     external |-> FALSE, network |-> FALSE, llm |-> FALSE, rawResults |-> FALSE, cleanup |-> TRUE]
\* quality_request raises when the table or a column is missing
QualityRequest(catalog, snapshot, batches, aliases) ==
    LET table == SourceTable(catalog)
        known(name) == IF name \in DOMAIN aliases THEN aliases[name] ELSE {name}
        bound(name) == ColumnIn(catalog, table.id, known(name))
    IN IF table = Nothing \/ \E name \in PolicyColumns : bound(name) = Nothing THEN Refused
       ELSE [ok |-> TRUE, source |-> catalog.source, snapshot |-> snapshot, table |-> table.id, batches |-> batches,
             rules |-> [i \in DOMAIN Rules |-> [type |-> Rules[i].type, columns |-> [j \in DOMAIN Rules[i].columns |-> bound(Rules[i].columns[j]).id]]]]
\* domain_assertions: every assertion of the policy for every candidate
DomainAssertions(catalog, snapshot, candidates) ==
    {[id |-> a, subject |-> <<c.from, c.to>>, source |-> catalog.source, snapshot |-> snapshot, scope |-> <<c.id, a>>, status |-> "ACTIVE"] :
        c \in candidates, a \in EntityAssertions}
EntityType(catalog, snapshot, decision) ==
    [id |-> "cet_order", kind |-> "EVENT", identity |-> <<"order_id">>,
     tables |-> {[source |-> catalog.source, snapshot |-> snapshot, table |-> SourceTable(catalog).id]}, relationships |-> {decision}]
Relationship(decision, entity) == [id |-> decision, from |-> entity, to |-> entity]

-----------------------------------------------------------------------------
(* The specifications of the request                                        *)

WarehouseKey(name) == [name |-> name, type |-> "BIGINT", collision |-> "FAIL"]
UnknownMember(policy, key) == [policy |-> policy, key |-> key]
Attribute(name, from) == [name |-> name, from |-> from]
TimeRole == "time_role"

\* The dimensions, fact, grain and measure of analytical_request
OrderDimension(table, entities) ==
    [id |-> "dim_order", table |-> table, reference |-> "canonical_entity_id", type |-> "cet_order", entities |-> entities, role |-> "CONFORMED",
     key |-> WarehouseKey("order_key"), alternate |-> <<"order_id">>, conformed |-> "self", range |-> <<>>, scd |-> "TYPE1_SNAPSHOT",
     attributes |-> <<Attribute("order_id", "order_id"), Attribute("customer_id", "customer_id"), Attribute("customer_id_ref", "customer_id_ref")>>,
     unknown |-> UnknownMember("QUARANTINE_FACT", 0)]
DateDimension ==
    [id |-> "dim_date", table |-> Nothing.id, reference |-> "canonical_entity_id", type |-> "cet_date", entities |-> {"date"}, role |-> "DATE",
     key |-> WarehouseKey("date_key"), alternate |-> <<"full_date">>, conformed |-> "self", range |-> <<>>, scd |-> "TYPE1_SNAPSHOT",
     attributes |-> <<Attribute("full_date", "full_date"), Attribute("year", "year"), Attribute("month", "month"), Attribute("day", "day")>>,
     unknown |-> UnknownMember("EXPLICIT_UNKNOWN_MEMBER", -1)]
ForeignKey(relation, scope, dimension, from) == [relation |-> relation, scope |-> scope, dimension |-> dimension, from |-> from]
OrderFact(table, entities, decision) ==
    [id |-> "fact_orders", table |-> table, event |-> "cet_order", entities |-> entities, grain |-> "grain_orders", measures |-> {"measure_quantity"},
     keys |-> <<ForeignKey(decision, "CANONICAL_ACCEPTED", "dim_order", "canonical_entity_id"), ForeignKey(TimeRole, "ANALYTICAL_TIME_ROLE", "dim_date", "order_date")>>,
     plain |-> <<"customer_id", "customer_id_ref">>, dates |-> <<"order_date">>, relations |-> {decision, TimeRole}]
OrderGrain == [id |-> "grain_orders", fact |-> "fact_orders", columns |-> <<"order_id">>, validated |-> FALSE, duplicates |-> 0]
OrderMeasure == [id |-> "measure_quantity", fact |-> "fact_orders", field |-> "quantity"]
AnalyticalRequest(catalog, model, decision) ==
    LET table == SourceTable(catalog).id
    IN [dimensions |-> <<OrderDimension(table, model.entities), DateDimension>>, facts |-> <<OrderFact(table, model.entities, decision)>>,
        grains |-> <<OrderGrain>>, measures |-> <<OrderMeasure>>, relations |-> {decision},
        domains |-> EntityAssertions \cup {"order-quantity"}, state |-> "REVIEW_REQUIRED"]

Distinct(s) == Cardinality(Range(s)) = Len(s)
\* WarehouseKeySpec.fixed_key_policy
KeyValid(k) == k.type = "BIGINT" /\ k.collision = "FAIL"
\* UnknownMemberPolicySpec.explicit_member_has_key; 0 stands for no key
UnknownValid(u) == (u.policy = "EXPLICIT_UNKNOWN_MEMBER") <=> (u.key # 0)
\* SCDPolicySpec.validate_mode: no history columns are ever declared here
ScdValid(mode) == mode = "TYPE1_SNAPSHOT"
\* DimensionSpec and its validators; a range is its two ends
DimensionValid(d) ==
    /\ d.entities # {} /\ d.alternate # <<>> /\ d.attributes # <<>>
    /\ KeyValid(d.key) /\ UnknownValid(d.unknown) /\ ScdValid(d.scd)
    /\ Distinct(d.alternate) /\ d.key.name \notin Range(d.alternate)
    /\ d.role = "CONFORMED" => d.conformed = "self"
    /\ d.role # "DATE" => d.table # Nothing.id
    /\ d.range # <<>> => Len(d.range) = 2 /\ d.range[1] <= d.range[2]
GrainValid(g) == g.columns # <<>> /\ Distinct(g.columns) /\ (g.validated => g.duplicates = 0)
FactValid(f) ==
    /\ f.entities # {} /\ f.keys # <<>> /\ f.measures # {} /\ f.dates # <<>> /\ f.relations # {}
    /\ Distinct(f.plain) /\ Distinct(f.dates) /\ f.grain \notin f.measures
RequestValid(r) ==
    /\ r.facts # <<>> /\ r.grains # <<>> /\ r.measures # <<>> /\ r.domains # {} /\ r.state = "REVIEW_REQUIRED"
    /\ \A d \in Range(r.dimensions) : DimensionValid(d)
    /\ \A f \in Range(r.facts) : FactValid(f)
    /\ \A g \in Range(r.grains) : GrainValid(g)

-----------------------------------------------------------------------------
(* The input                                                                *)

\* build_order_dataset: the columns under their own names, and the identity
Dataset(catalog, model, snapshot) ==
    LET table == SourceTable(catalog).id
        own == SelectSeq(catalog.columns, LAMBDA c : c.table = table)
    IN [id |-> <<snapshot, table>>, model |-> model.id, hash |-> model.hash,
        tables |-> <<[id |-> table, columns |-> Append([i \in DOMAIN own |-> own[i].name], Spelled("canonical_entity_id"))]>>]
\* AnalyticalColumnBinding, AnalyticalInputTable, AnalyticalInputDataset
DatasetValid(dataset) ==
    /\ Distinct([i \in DOMAIN dataset.tables |-> dataset.tables[i].id])
    /\ \A t \in Range(dataset.tables) : Distinct(t.columns) /\ \A n \in Range(t.columns) : n.safe
\* AnalyticalInputBinding of a dataset
Binding(dataset, model) == [model |-> model.id, hash |-> model.hash, dataset |-> dataset.id, content |-> dataset]

HasTable(dataset, id) == \E t \in Range(dataset.tables) : t.id = id
ColumnsOf(dataset, id) == {n.base : n \in {m \in Range((CHOOSE t \in Range(dataset.tables) : t.id = id).columns) : m.exact}}

-----------------------------------------------------------------------------
(* The planner                                                              *)

\* _validate_input_columns
InputColumns(dataset, r) ==
    /\ \A d \in Range(r.dimensions) : d.role # "DATE" =>
        /\ HasTable(dataset, d.table)
        /\ {a.from : a \in Range(d.attributes)} \subseteq ColumnsOf(dataset, d.table)
        /\ Range(d.alternate) \subseteq {a.name : a \in Range(d.attributes)}
    /\ \A f \in Range(r.facts) :
        /\ HasTable(dataset, f.table)
        /\ \E g \in Range(r.grains) : g.id = f.grain /\ Range(g.columns) \subseteq ColumnsOf(dataset, f.table)
        /\ Range(f.plain) \cup Range(f.dates) \cup {k.from : k \in Range(f.keys)} \subseteq ColumnsOf(dataset, f.table)
        /\ \A k \in Range(f.keys) : k.dimension \in {d.id : d \in Range(r.dimensions)}
        /\ \A m \in Range(r.measures) : m.id \in f.measures => m.field \in ColumnsOf(dataset, f.table)

\* Mutant: a relation a fact names need not be one of its foreign keys
CanonicalRefsUnclassified(model, r) ==
    /\ \A d \in Range(r.dimensions) : d.role # "DATE" => d.type \in model.types
    /\ \A f \in Range(r.facts) : f.event \in model.types
    /\ r.relations \subseteq model.relations
    /\ \A f \in Range(r.facts) : {k.relation : k \in Range(f.keys)} \subseteq f.relations
\* _validate_canonical_refs
CanonicalRefs(model, r) ==
    /\ \A d \in Range(r.dimensions) : d.role # "DATE" => d.type \in model.types
    /\ \A f \in Range(r.facts) : f.event \in model.types
    /\ r.relations \subseteq model.relations
    /\ \A f \in Range(r.facts) :
        /\ {k.relation : k \in Range(f.keys)} = f.relations
        /\ \A k \in Range(f.keys) : (k.scope = "CANONICAL_ACCEPTED") <=> (k.relation \in r.relations)

\* build_plan; the rows pass validate_grain when the keys are distinct
BuildPlan(model, binding, dataset, r, distinct) ==
    IF /\ binding.model = model.id /\ binding.hash = model.hash
       /\ binding.dataset = dataset.id /\ binding.content = dataset
       /\ dataset.model = model.id /\ dataset.hash = model.hash
       /\ \A s \in {r.dimensions, r.facts, r.grains, r.measures} : Distinct([i \in DOMAIN s |-> s[i].id])
       /\ CanonicalRefs(model, r) /\ InputColumns(dataset, r)
       /\ distinct
       /\ \A f \in Range(r.facts) : {m.id : m \in {n \in Range(r.measures) : n.fact = f.id}} = f.measures
    THEN LET used == {g \in Range(r.grains) : \E f \in Range(r.facts) : f.grain = g.id}
         IN [ok |-> TRUE, id |-> <<model.id, model.hash, binding, r.dimensions, r.facts, used, r.measures, r.relations, r.domains>>,
             model |-> model.id, hash |-> model.hash, binding |-> binding, dimensions |-> {d.id : d \in Range(r.dimensions)},
             facts |-> {f.id : f \in Range(r.facts)}, grains |-> {g.id : g \in used}, measures |-> {m.id : m \in Range(r.measures)}, state |-> "REVIEW_REQUIRED"]
    ELSE Refused

-----------------------------------------------------------------------------
(* What the requests and the plan are worth                                 *)

\* The header of a file the product can load: the policy's names as the policy
\* spells them, each once, safe, and none taken by the product itself
HeaderClean(catalog) ==
    LET own == SelectSeq(catalog.columns, LAMBDA c : c.table = SourceTable(catalog).id)
        names == [i \in DOMAIN own |-> own[i].name.base]
    IN /\ SourceTable(catalog) # Nothing
       /\ Distinct(names) /\ PolicyColumns \subseteq Range(names) /\ "canonical_entity_id" \notin Range(names)
       /\ \A c \in Range(own) : c.name.exact /\ c.name.safe

\* Every reference of a planned request leads somewhere
Resolved(model, dataset, r) ==
    /\ \A f \in Range(r.facts) :
        /\ HasTable(dataset, f.table) /\ \E g \in Range(r.grains) : g.id = f.grain
        /\ \A k \in Range(f.keys) : \E d \in Range(r.dimensions) : d.id = k.dimension
        /\ \A relation \in f.relations : \E k \in Range(f.keys) : k.relation = relation /\
                (relation \in model.relations \/ k.scope = "ANALYTICAL_TIME_ROLE")
        /\ f.measures = {m.id : m \in {n \in Range(r.measures) : n.fact = f.id}}
        /\ \A m \in Range(r.measures) : m.fact = f.id => \E n \in Range((CHOOSE t \in Range(dataset.tables) : t.id = f.table).columns) : n.exact /\ n.base = m.field
    /\ \A d \in Range(r.dimensions) : d.role # "DATE" => HasTable(dataset, d.table)

\* A clean header is never refused on the way to the plan, whatever other
\* tables the source has; a rule binds a column of the policy's table that has
\* its name; nothing is asked about another snapshot.
RequestsSound(catalog, model, snapshot, decision, aliases) ==
    LET quality == QualityRequest(catalog, snapshot, {"b1"}, aliases)
        request == AnalyticalRequest(catalog, model, decision)
        dataset == Dataset(catalog, model, snapshot)
        entity == EntityType(catalog, snapshot, decision)
    IN /\ HeaderClean(catalog) =>
            /\ quality.ok /\ RequestValid(request) /\ DatasetValid(dataset)
            /\ BuildPlan(model, Binding(dataset, model), dataset, request, TRUE).ok
            /\ entity.tables = {[source |-> catalog.source, snapshot |-> snapshot, table |-> quality.table]}
            /\ Relationship(decision, entity.id).id \in request.relations /\ entity.id \in model.types
            /\ quality.table \in ProfileRequest(catalog, snapshot).tables \cap DependencyRequest(catalog, snapshot).tables
       /\ quality.ok => \A i \in DOMAIN Rules : \A j \in DOMAIN Rules[i].columns :
            LET wanted == Rules[i].columns[j]
                names == IF wanted \in DOMAIN aliases THEN aliases[wanted] ELSE {wanted}
            IN \E c \in Range(catalog.columns) : c.id = quality.rules[i].columns[j] /\ c.table = quality.table /\ c.name.base \in names
       /\ \A a, b \in DomainAssertions(catalog, snapshot, {[id |-> "c1", from |-> "x", to |-> "y"], [id |-> "c2", from |-> "y", to |-> "x"]}) :
            a.snapshot = snapshot /\ (a # b => a.scope # b.scope)

\* A request that was changed in any one place is refused or still resolves; a
\* dataset or a binding made for another model is never planned with.
PlansBound(catalog, model, other, snapshot, decision, requests) ==
    LET dataset == Dataset(catalog, model, snapshot)
        binding == Binding(dataset, model)
        plan(r) == BuildPlan(model, binding, dataset, r, TRUE)
        valid == {r \in requests : RequestValid(r)}
    IN /\ \A r \in valid : plan(r).ok => Resolved(model, dataset, r)
       /\ \A r \in valid, distinct \in BOOLEAN :
            /\ ~BuildPlan(other, binding, dataset, r, distinct).ok
            /\ ~BuildPlan(model, binding, Dataset(catalog, other, snapshot), r, distinct).ok
            /\ ~BuildPlan(model, Binding(dataset, other), dataset, r, distinct).ok
            /\ BuildPlan(model, binding, dataset, r, FALSE) = Refused
=============================================================================
