-------------------------- MODULE SemanticQueries --------------------------
(***************************************************************************)
(* The semantic layer over a materialized star (application/                *)
(* semantic_layer.py), the renderer of its query plans (domain/             *)
(* semantic_query_renderer.py) and their execution by DuckDB (adapters/     *)
(* semantic_query.py).  A SELECT is what it computes: joined rows, filtered, *)
(* grouped and aggregated.                                                  *)
(*                                                                          *)
(* The foreign keys of the design also carry [ref, scope, cardinality], and *)
(* an attribute is [id, dim, column, nullable, exposed].  A request is      *)
(* [metrics, dims, groups, role, overrides, filters, limit], role NoRole or *)
(* the column of a time role, a filter [attr, op, values].                  *)
(***************************************************************************)
EXTENDS StarSchema

NoRole == "no role"
AggregateSql == {"SUM", "MAX", "MIN", "AVG", "COUNT"}

\* _inherited_operations; rule is the sequence of operations the reviewed
\* aggregation rule declares.
InheritedOperations(measure) ==
    CASE measure.class = "ADDITIVE" -> SelectSeq(<<"SUM">>, LAMBDA op : op \in ToSet(measure.rule))
      [] measure.class = "SEMI_ADDITIVE" ->
            LET kept == SelectSeq(measure.rule, LAMBDA op : op \in {"MAX", "MIN", "LAST", "FIRST"})
            IN SubSeq(kept, 1, IF kept = <<>> THEN 0 ELSE 1)
      [] OTHER -> <<"AT_GRAIN">>

\* A measure without an operation is no valid SemanticMeasure.
MeasureValid(measure) ==
    /\ InheritedOperations(measure) # <<>>
    /\ ~(measure.class = "NON_ADDITIVE" /\ "SUM" \in ToSet(InheritedOperations(measure)))

Executable(measure) ==
    /\ measure.class # "NON_ADDITIVE"
    /\ InheritedOperations(measure)[1] \in AggregateSql

\* MetricSpec: the base metric of a measure
BaseMetric(measure) ==
    [id |-> measure.id, kind |-> "BASE_AGGREGATE", fact |-> measure.fact, class |-> measure.class,
     available |-> Executable(measure),
     ops |-> IF Executable(measure) THEN {InheritedOperations(measure)[1]} ELSE {}]
DerivedMetric(id, fact) ==
    [id |-> id, kind |-> "DERIVED", fact |-> fact, class |-> Null, available |-> FALSE, ops |-> {}]

\* _relationship: the scope a foreign key must have been reviewed under
RelationshipValid(d, fk) ==
    fk.scope = IF IsDate(d, fk.dim) THEN "ANALYTICAL_TIME_ROLE" ELSE "CANONICAL_ACCEPTED"

\* _validate_upstream and build_model: every binding of the inputs agrees, the
\* review authorizes the plan, the target is usable.
BuildModel(d, fact, measures, attributes, derived, target, current) ==
    IF \/ ~current \/ ~target.ok
       \/ \E m \in measures : ~MeasureValid(m)
       \/ \E i \in DOMAIN d.fks : ~RelationshipValid(d, d.fks[i])
    THEN Raised
    ELSE [ok |-> TRUE, fact |-> fact, design |-> d, attributes |-> attributes, target |-> target,
          metrics |-> {BaseMetric(m) : m \in measures} \cup {DerivedMetric(x, fact) : x \in derived},
          roles |-> {i \in DOMAIN d.fks : IsDate(d, d.fks[i].dim)}]

Attribute(model, id) == CHOOSE a \in model.attributes : a.id = id
AttributeIds(model) == {a.id : a \in model.attributes}

\* The dimensions a query joins: requested, grouped by, filtered on.
JoinedDims(model, q) ==
    q.dims \cup {Attribute(model, x).dim : x \in q.groups}
           \cup {Attribute(model, f.attr).dim : f \in q.filters}

\* Mutant: the first foreign key into the dimension is taken.
JoinCandidatesAny(model, q, dim) ==
    {Min({i \in DOMAIN model.design.fks : model.design.fks[i].dim = dim})}

\* The foreign keys that may join a dimension: a time role names one of those
\* into its date dimension.
JoinCandidates(model, q, dim) ==
    {i \in DOMAIN model.design.fks :
        /\ model.design.fks[i].dim = dim
        /\ (q.role # NoRole /\ \E r \in model.roles : model.design.fks[r].column = q.role
                                                        /\ model.design.fks[r].dim = dim)
             => model.design.fks[i].column = q.role}

FilterValid(model, f) ==
    LET a == Attribute(model, f.attr)
    IN /\ a.exposed
       /\ Bad \notin f.values
       /\ f.op = "EQUALS" => Cardinality(f.values) = 1 /\ (f.values = {Null} => a.nullable)

\* The date dimension of the query's time role
RoleDims(model, q) ==
    {model.design.fks[r].dim : r \in {i \in model.roles : model.design.fks[i].column = q.role}}

\* compile_query refuses, in the order of the code.
QueryRefused(model, q) ==
    LET chosen == {m \in model.metrics : m.id \in q.metrics}
        semi == \E m \in chosen : m.class = "SEMI_ADDITIVE"
    IN \/ q.metrics \ {m.id : m \in model.metrics} # {}
       \/ \E m \in chosen : m.kind = "DERIVED" \/ ~m.available
       \/ Cardinality({m.fact : m \in chosen}) # 1
       \/ q.groups \ AttributeIds(model) # {}
       \/ {f.attr : f \in q.filters} \ AttributeIds(model) # {}
       \/ \E x \in JoinedDims(model, q) : x \notin {model.design.fks[i].dim : i \in DOMAIN model.design.fks}
       \/ q.role # NoRole /\ RoleDims(model, q) = {}
       \/ semi /\ q.role = NoRole
       \/ \E f \in q.filters : ~FilterValid(model, f)
       \/ \E x \in JoinedDims(model, q) :
            \/ Cardinality(JoinCandidates(model, q, x)) # 1
            \/ \E i \in JoinCandidates(model, q, x) :
                    model.design.fks[i].scope = "CANONICAL_ACCEPTED" /\ model.design.fks[i].cardinality # "MANY_TO_ONE"
       \/ \E x \in q.groups : ~Attribute(model, x).exposed
       \/ semi /\ RoleDims(model, q) \cap
                    ({Attribute(model, x).dim : x \in q.groups}
                        \cup {Attribute(model, f.attr).dim : f \in q.filters}) = {}
       \/ q.groups = {} /\ \E x \in JoinedDims(model, q) :
                                ~\E a \in model.attributes : a.dim = x /\ a.exposed
       \/ \E m \in chosen : m.id \in DOMAIN q.overrides /\ q.overrides[m.id] \notin m.ops

\* Without a grouping, the first exposed attribute of every joined dimension.
\* The attributes of a dimension are ordered by their position.
FirstExposed(model, dim) ==
    CHOOSE a \in model.attributes :
        /\ a.dim = dim /\ a.exposed
        /\ \A b \in model.attributes : b.dim = dim /\ b.exposed => a.position <= b.position
GroupedBy(model, q) ==
    IF q.groups # {} THEN {Attribute(model, x) : x \in q.groups}
    ELSE {FirstExposed(model, x) : x \in JoinedDims(model, q)}

\* SemanticQueryPlan; the renderer derives the same SELECT from it again.
QueryPlan(model, q) ==
    IF QueryRefused(model, q) THEN Raised
    ELSE [ok |-> TRUE, model |-> model,
          joins |-> [x \in JoinedDims(model, q) |-> Min(JoinCandidates(model, q, x))],
          groups |-> GroupedBy(model, q), filters |-> q.filters,
          ops |-> [m \in q.metrics |-> CHOOSE op \in (CHOOSE b \in model.metrics : b.id = m).ops : TRUE],
          limit |-> q.limit]

-----------------------------------------------------------------------------
(* DuckDB.  A joined row is [fact, at], at the member of each dimension or   *)
(* the null-extended one.                                                   *)

NullMember == [key |-> Null]
MemberValue(a, member) ==
    IF member = NullMember THEN Null
    ELSE IF a.column = "day" THEN member.entity ELSE member.attrs[a.column]

\* LEFT JOIN: a fact without a partner stays, a fact with two is doubled.
JoinRows(plan, star) ==
    LET partners(f, x) == {m \in star.dims[x] : m.key = f.keys[plan.joins[x]] /\ m.key # Null}
        sides(f, x) == IF partners(f, x) = {} THEN {NullMember} ELSE partners(f, x)
        all(f) == {at \in [DOMAIN plan.joins -> UNION {sides(f, x) : x \in DOMAIN plan.joins}] :
                      \A x \in DOMAIN plan.joins : at[x] \in sides(f, x)}
    IN UNION {{[fact |-> f, at |-> at] : at \in all(f)} : f \in star.facts}

\* WHERE over the values a row has: a comparison with NULL is never true.
Passes(f, v) == IF f.op = "EQUALS" /\ f.values = {Null} THEN v = Null ELSE v # Null /\ v \in f.values
Filtered(model, filters) == {Attribute(model, f.attr) : f \in filters}
Where(model, filters, values) == \A f \in filters : Passes(f, values[Attribute(model, f.attr)])

\* Aggregates skip nulls, and are null without a value.
Aggregate(op, amount) ==
    LET valued == {r \in DOMAIN amount : amount[r] # Null}
        amounts == {amount[r] : r \in valued}
    IN IF valued = {} THEN Null
       ELSE CASE op = "SUM" -> MapThenSumSet(LAMBDA r : amount[r], valued)
              [] op = "MAX" -> Max(amounts)
              [] OTHER -> Min(amounts)

\* GROUP BY: a row per key that occurs; one row when there is no key.
Grouped(groups, key) ==
    IF groups = {} THEN {[key |-> <<>>, rows |-> DOMAIN key]}
    ELSE {[key |-> k, rows |-> {r \in DOMAIN key : key[r] = k}] : k \in Range(key)}

\* execute refuses a plan of another model and a target that has been replaced;
\* LIMIT keeps some of the rows.
Answers(model, plan, star) ==
    LET value(a, r) == MemberValue(a, r.at[a.dim])
        rows == {r \in JoinRows(plan, star) : Where(model, plan.filters, [a \in Filtered(model, plan.filters) |-> value(a, r)])}
        key == [r \in rows |-> [a \in plan.groups |-> value(a, r)]]
        totals(rs) == [m \in DOMAIN plan.ops |-> Aggregate(plan.ops[m], [r \in rs |-> r.fact.measure])]
        table == {[key |-> g.key, total |-> totals(g.rows)] : g \in Grouped(plan.groups, key)}
        kept == IF Cardinality(table) < plan.limit THEN Cardinality(table) ELSE plan.limit
    IN IF plan.model # model \/ star # model.target THEN {}
       ELSE {t \in SUBSET table : Cardinality(t) = kept}

-----------------------------------------------------------------------------
(* The reference: the same table read off the input rows, each dimension     *)
(* through the column the request means.                                    *)

NamedMembers(d, members, row, fk) ==
    {m \in members[fk.dim] : RowReference(d, fk.dim, m) = row.cells[fk.column]}
MeantValue(d, members, row, fk, a) ==
    LET named == NamedMembers(d, members, row, fk)
    IN CASE IsDate(d, fk.dim) -> row.cells[fk.column]
         [] ~IsDate(d, fk.dim) /\ named # {} -> (CHOOSE m \in named : TRUE).cells[a.column]
         [] ~IsDate(d, fk.dim) /\ named = {} ->
               IF d.dims[fk.dim].policy = "EXPLICIT_UNKNOWN_MEMBER" THEN "UNKNOWN" ELSE Null
MeantKey(model, q, dim) ==
    CHOOSE fk \in Range(model.design.fks) :
        fk.dim = dim /\ (q.role \in {x.column : x \in {y \in Range(model.design.fks) : y.dim = dim}} => fk.column = q.role)
SourceTable(model, q, members, rows) ==
    LET value(a, r) == MeantValue(model.design, members, r, MeantKey(model, q, a.dim), a)
        kept == {r \in rows : Where(model, q.filters, [a \in Filtered(model, q.filters) |-> value(a, r)])}
        groups == GroupedBy(model, q)
        op(m) == CHOOSE o \in (CHOOSE b \in model.metrics : b.id = m).ops : TRUE
        totals(rs) == [m \in q.metrics |-> Aggregate(op(m), [r \in rs |-> Stored(r.cells[model.design.measure])])]
        key == [r \in kept |-> [a \in groups |-> value(a, r)]]
    IN {[key |-> g.key, total |-> totals(g.rows)] : g \in Grouped(groups, key)}

\* What planning and the semantic model hand to a query over input rows:
\* warehouse keys and time roles are texts, a date dimension has the attribute
\* "day" and another one the columns the plan gives it, attributes are listed in
\* an order, amounts are numbers, and a limit is one.
QueryPosed(d, attributes, rows, q) ==
    /\ UnknownKey # Null
    /\ \A x \in DOMAIN d.dims : \A t \in DOMAIN d.dims[x].key : d.dims[x].key[t] # Null
    /\ \A fk \in ToSet(d.fks) : fk.column # NoRole
    /\ \A a \in attributes : a.position \in Nat
    /\ \A a \in attributes : a.dim \in DOMAIN d.dims =>
          /\ IsDate(d, a.dim) <=> a.column = "day"
          /\ a.column \in d.dims[a.dim].attrs \cup {"day"}
    /\ \A r \in rows : r.cells[d.measure] \in Int \cup {Null, Bad}
    /\ q.limit \in Nat

\* Every answer of an accepted query is made of rows of the table the source
\* rows give, all of them when the limit allows.
AnswersMatch(model, q, members, loaded) ==
    LET plan == QueryPlan(model, q)
        table == SourceTable(model, q, members, loaded)
    IN plan.ok => /\ Answers(model, plan, model.target) # {}
                  /\ \A t \in Answers(model, plan, model.target) :
                        t \subseteq table /\ (Cardinality(t) < q.limit => t = table)
=============================================================================
