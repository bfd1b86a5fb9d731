----------------------------- MODULE MCProduct -----------------------------
(***************************************************************************)
(* The product behind the jobs: one scene per component, chosen at the      *)
(* start; the other components of a behaviour stay idle.  A scene about a   *)
(* pure algorithm poses one of its inputs and is over.                      *)
(***************************************************************************)
EXTENDS OrderPipeline, IdentityLifecycle, PartitionedScale, SemanticQueries, VisualViews,
        EvidenceFusion, SourceSnapshots

VARIABLES
    scene,
    case        \* the input of a pure algorithm, Null until it is posed

allVars == <<scene, case, pipeVars, identityVars, scaleVars, sourceVars>>

-----------------------------------------------------------------------------
(* Files of orders: every single record, and files of two records around   *)
(* the edges (a repeated order, a missing cell, an amount between ticks).   *)

Orders == {"o1", "o2", Null}
Days == {"d1", "d2", Null, Bad}
Amounts == {10, 20, 4, Null, Bad}
Buyers == {"c1", Null}

Line(ref, order, date, qty, cust) ==
    [ref |-> ref, order |-> order, date |-> date, qty |-> qty, cust |-> cust]
Plain == {Line("r1", "o1", "d1", 10, "c1"), Line("r2", "o2", "d2", 20, "c1")}
Revised == {Line("r1", "o1", "d1", 20, "c1"), Line("r2", "o2", "d2", 20, "c1")}
SingleFiles == {{Line("r1", o, t, q, c)} : o \in Orders, t \in Days, q \in Amounts, c \in Buyers}
LongerFiles ==
    {{Line("r1", "o1", "d1", 10, "c1"), Line("r2", o, t, q, "c1")} :
        o \in Orders, t \in {"d1", "d2", Null}, q \in {10, 20, 4}}
MCContents == {{}, Plain, Revised} \cup SingleFiles \cup LongerFiles
MCFaulty == {Plain, Revised}

-----------------------------------------------------------------------------
(* Designs with every policy, and inputs with missing keys and members.     *)

MembersOf(names) == {[ref |-> n, entity |-> n, cells |-> [name |-> n]] : n \in names}
Design(policy, required, nulls, dateFirst, key) ==
    LET place == [column |-> "shop", target |-> "shop_key", dim |-> "dim_shop", required |-> required]
        day == [column |-> "date", target |-> "date_key", dim |-> "dim_date", required |-> required]
    IN [dims |-> [dim_shop |-> [role |-> "CONFORMED", refs |-> "name", attrs |-> {"name"},
                                nullable |-> {}, alternate |-> {}, policy |-> policy, range |-> {}, key |-> key],
                  dim_date |-> [role |-> "DATE", refs |-> "name", attrs |-> {}, nullable |-> {},
                                alternate |-> {}, policy |-> policy, range |-> {},
                                key |-> [d1 |-> "d1", d2 |-> "d2"]]],
        grain |-> [columns |-> {"order"}, nulls |-> nulls],
        fks |-> IF dateFirst THEN <<day, place>> ELSE <<place, day>>,
        plain |-> {}, measure |-> "qty"]
StarRow(ref, order, shop, date, qty) ==
    [ref |-> ref, entity |-> ref, cells |-> [order |-> order, shop |-> shop, date |-> date, qty |-> qty]]
StarInputs ==
    {{StarRow("r1", o, s, t, q), StarRow("r2", "o2", s2, "d2", 20)} :
        o \in Orders, s \in {"s1", "s2", Null}, t \in {"d1", Null, Bad}, q \in {10, Null, Bad},
        s2 \in {"s1", Null}}
\* Plans that name the lineage column, as a key or a degenerate column.
LineageDesigns ==
    LET given == Design("QUARANTINE_FACT", FALSE, "QUARANTINE_NULLS", FALSE, [s1 |-> "k1", s2 |-> "k2"])
    IN {[given EXCEPT !.fks[1].target = "source_record_refs"], [given EXCEPT !.plain = {"source_record_refs"}],
        [given EXCEPT !.fks[1].target = "order"], [given EXCEPT !.fks[1].target = "date_key"], [given EXCEPT !.plain = {"qty"}]}
Traced(row) ==
    [row EXCEPT !.cells = [c \in DOMAIN row.cells \cup {"source_record_refs"} |-> IF c \in DOMAIN row.cells THEN row.cells[c] ELSE row.ref]]
StarCases ==
    {[design |-> design, members |-> {"s1"}, rows |-> {Traced(r) : r \in rows}] : design \in LineageDesigns, rows \in StarInputs} \cup
    {[design |-> Design(policy, required, nulls, dateFirst, key), members |-> names, rows |-> rows] :
        policy \in {"QUARANTINE_FACT", "NULLABLE_FK", "EXPLICIT_UNKNOWN_MEMBER"},
        required \in BOOLEAN, nulls \in {"REJECT_NULLS", "QUARANTINE_NULLS"}, dateFirst \in BOOLEAN,
        key \in {[s1 |-> "k1", s2 |-> "k2"], [s1 |-> "k1", s2 |-> "k1"]},
        names \in {{"s1"}, {"s1", "s2"}}, rows \in StarInputs}

-----------------------------------------------------------------------------
(* Queries over a star with two roles of one date dimension, measures of    *)
(* every aggregation class and requests at the edges of what is allowed.    *)

RoleKey(column, key, dim, scope, cardinality) ==
    [column |-> column, target |-> key, dim |-> dim, required |-> FALSE, scope |-> scope, cardinality |-> cardinality]
QueryDesign(policy, cardinality, key) ==
    [Design(policy, FALSE, "REJECT_NULLS", FALSE, key) EXCEPT
        !.fks = <<RoleKey("date", "date_key", "dim_date", "ANALYTICAL_TIME_ROLE", "FACT_TO_DATE_ROLE"),
                  RoleKey("shop", "shop_key", "dim_shop", "CANONICAL_ACCEPTED", cardinality),
                  RoleKey("ship", "ship_key", "dim_date", "ANALYTICAL_TIME_ROLE", "FACT_TO_DATE_ROLE")>>,
        !.dims["dim_date"].policy = "NULLABLE_FK"]
QueryRow(ref, order, shop, date, ship, qty) ==
    [ref |-> ref, entity |-> ref,
     cells |-> [order |-> order, shop |-> shop, date |-> date, ship |-> ship, qty |-> qty]]
QueryInputs ==
    {{QueryRow("r1", "o1", "s1", "d1", "d2", 10), QueryRow("r2", "o2", s, t, u, q)} :
        s \in {"s1", "s2", Null}, t \in {"d1", "d2"}, u \in {"d1", "d2", Null}, q \in {10, 20, 4, Null}}
Attr(id, dim, column, nullable, exposed, position) ==
    [id |-> id, dim |-> dim, column |-> column, nullable |-> nullable, exposed |-> exposed, position |-> position]
QueryAttributes ==
    {Attr("shop_refs", "dim_shop", "name", FALSE, FALSE, 1), Attr("shop_name", "dim_shop", "name", TRUE, TRUE, 2),
     Attr("day", "dim_date", "day", FALSE, TRUE, 1)}
QueryMeasures ==
    {[id |-> "m", fact |-> "sales", class |-> class, rule |-> rule] :
        class \in {"ADDITIVE", "SEMI_ADDITIVE", "NON_ADDITIVE"},
        rule \in {<<"SUM">>, <<"MAX", "SUM">>, <<"LAST", "MAX">>, <<"MIN">>}}
Request(metrics, dims, groups, role, overrides, filters, limit) ==
    [metrics |-> metrics, dims |-> dims, groups |-> groups, role |-> role,
     overrides |-> overrides, filters |-> filters, limit |-> limit]
Filters(attr) == {[attr |-> attr, op |-> "EQUALS", values |-> {Null}], [attr |-> attr, op |-> "IN", values |-> {"s1", "d1", Null}]}
Requests ==
    {Request({"m"}, dims, groups, role, overrides, filters, 2) :
        dims \in {{}, {"dim_shop"}, {"dim_date"}}, groups \in {{}, {"shop_name"}, {"day"}, {"shop_name", "day"}},
        role \in {NoRole, "date", "ship"}, overrides \in {<<>>},
        filters \in {{}} \cup {{f} : f \in Filters("shop_name") \cup Filters("day")}}
    \cup {Request({"m"}, {}, {"shop_name"}, "ship", <<>>, {}, 1), Request({"m", "ratio"}, {}, {}, NoRole, <<>>, {}, 2),
          Request({"m"}, {}, {"shop_refs"}, NoRole, <<>>, {}, 2), Request({"m"}, {}, {}, NoRole, [m |-> "MAX"], {}, 2)}
ShopKeys == {[s1 |-> "k1", s2 |-> "k2"]}
SemanticCases ==
    {[design |-> QueryDesign(policy, cardinality, key), rows |-> rows, measure |-> measure, current |-> current] :
        policy \in {"QUARANTINE_FACT", "NULLABLE_FK", "EXPLICIT_UNKNOWN_MEMBER"},
        cardinality \in {"MANY_TO_ONE", "MANY_TO_MANY"}, key \in ShopKeys,
        rows \in QueryInputs, measure \in QueryMeasures, current \in BOOLEAN}

-----------------------------------------------------------------------------
(* Entity resolution over three records.                                   *)

Edge(a, b, band) == [ends |-> {a, b}, band |-> band]
Edges == {Edge("a", "b", "STRONG"), Edge("b", "c", "STRONG"), Edge("a", "c", "REVIEW")}
MCErResults ==
    {[spec |-> spec, complete |-> complete, edges |-> E, clusters |-> {}, reviewEdges |-> more] :
        spec \in {"v1"}, complete \in {TRUE}, E \in SUBSET Edges, more \in BOOLEAN}
    \cup {[spec |-> "v2", complete |-> TRUE, edges |-> Edges, clusters |-> {}, reviewEdges |-> TRUE],
          [spec |-> "v1", complete |-> FALSE, edges |-> Edges, clusters |-> {}, reviewEdges |-> TRUE]}
MCHypothesis ==
    [kind |-> [person |-> "MASTER", visit |-> "EVENT"],
     family |-> [person |-> "people", visit |-> "visits"],
     required |-> [people |-> TRUE, visits |-> FALSE],
     specs |-> [people |-> "v1"], relationships |-> {}]
Naming(family, type, basis, refs, edges) ==
    [type |-> type, family |-> family, basis |-> basis, refs |-> refs, edges |-> edges]
Group(type, basis, refs, edges) == Naming(NoFamily, type, basis, refs, edges)
MCGroupings ==
    {<<Group("person", "ER", refs, E)>> : refs \in {{"a", "b"}, {"a", "b", "c"}}, E \in SUBSET Edges}
    \cup {<<Group("person", "ER", {"a", "b"}, {Edge("a", "b", "STRONG")}), other>> :
             other \in {Group("person", "HUMAN", {"c"}, {}), Group("person", "HUMAN", {"b"}, {}),
                        Group("person", "LOCAL", {"c"}, {}), Group("visit", "SOURCE_LOCAL", {"v"}, {}),
                        Group("visit", "HUMAN", {"v"}, {}), Naming("visits", "person", "LOCAL", {"c"}, {}),
                        Naming("people", "visit", "HUMAN", {"c"}, {}), Naming("people", "visit", "SOURCE_LOCAL", {"v"}, {}),
                        Naming("pets", "person", "ER", {"b", "c"}, {Edge("b", "c", "STRONG")})}}
    \cup {<<Naming(family, "visit", "ER", {"a", "b"}, E)>> : family \in {"people", "visits"}, E \in SUBSET Edges}
Metadata == [r \in {"a", "b", "c", "v"} |-> "snap"]

-----------------------------------------------------------------------------
(* Partitioned execution over two or three rows.                           *)

ScaleRow(ref, key, block, keys, measure, grain, dep) ==
    [ref |-> ref, key |-> key, block |-> block, group |-> {3} \ block, keys |-> keys, measure |-> measure,
     grain |-> grain, warehouse |-> {<<ref, "w">>}, dep |-> dep]
ScaleRows == {ScaleRow("a", 1, {1}, {1}, {5}, {"g1"}, {<<"x", "y">>}),
              ScaleRow("b", 2, {1}, {1, 2}, {3}, {"g2"}, {<<"x", "z">>}),
              ScaleRow("c", 3, {2}, {2}, {}, {}, {})}
MCDatasets ==
    {{}, ScaleRows,
     {r \in ScaleRows : r.ref = "a"} \cup {[ScaleRow("b", 2, {1}, {1}, {3}, {}, {}) EXCEPT !.warehouse = {<<"a", "w">>}]},
     {r \in ScaleRows : r.ref # "b"} \cup {ScaleRow("b", 2, {1}, {1}, {3}, {"g1"}, {})},
     {r \in ScaleRows : r.ref # "b"} \cup {ScaleRow("b", 2, {}, {2}, {4}, {}, {<<"x", "y">>})}}
Policy(threshold, support, strategy, maxRows, rejectSkew, maxPairs, slots, limit) ==
    [threshold |-> threshold, support |-> support, fallback |-> FALSE, strategy |-> strategy,
     boundaries |-> {2, 3}, maxRows |-> maxRows, maxPartitions |-> 3, skew |-> 2,
     rejectSkew |-> rejectSkew, maxPairs |-> maxPairs, slots |-> slots, sample |-> 2, sampleLimit |-> limit]
MCPolicies ==
    {Policy(0, support, strategy, 3, FALSE, pairs, 2, 1) :
        support \in {"PARTITION_SAFE", "GLOBAL_CANDIDATE_GENERATION"},
        strategy \in {"default", "RANGE"}, pairs \in {1, 3}}
    \cup {Policy(0, "PARTITION_SAFE", "EXISTING_STAGED_PART", 3, FALSE, 3, 1, 2)}
    \cup {Policy(0, "PARTITION_SAFE", "HASH", 3, TRUE, 3, 2, 2), Policy(0, "PARTITION_SAFE", "HASH", 1, FALSE, 3, 1, 2),
          Policy(3, "LOCAL_ONLY", "default", 3, FALSE, 3, 1, 2), Policy(0, "LOCAL_ONLY", "default", 3, FALSE, 3, 1, 2)}
MCHash == [k \in 1 .. 3 |-> <<0, 4, 5>>[k]]
MCRank == [a |-> 1, b |-> 0, c |-> 2]

-----------------------------------------------------------------------------
(* Views of a chain, a cycle and a fork, and values of every kind.         *)

Vertex(ref, type, evidence, review) == [ref |-> ref, type |-> type, evidence |-> evidence, review |-> review]
Arc(ref, from, to, type) == [ref |-> ref, from |-> from, to |-> to, type |-> type]
Vertices == {Vertex(1, "TABLE", "OBSERVED", "ACCEPTED"), Vertex(2, "FACT", "OBSERVED", "PENDING"),
             Vertex(3, "COLUMN", "INFERRED", "ACCEPTED"), Vertex(4, "TABLE", "OBSERVED", "ACCEPTED")}
Arcs == {Arc(1, 4, 3, "DERIVES"), Arc(2, 3, 1, "DERIVES"), Arc(3, 1, 2, "FEEDS"), Arc(4, 4, 1, "FEEDS"),
         Arc(5, 2, 3, "DERIVES")}
ViewGraphs == {[nodes |-> Vertices, edges |-> E] : E \in SUBSET Arcs}
    \cup {[nodes |-> {}, edges |-> {}], [nodes |-> {Vertex(1, "TABLE", "OBSERVED", "ACCEPTED")}, edges |-> Arcs]}
ViewRequests ==
    {[mode |-> mode, focus |-> focus, maxHops |-> hops, maxNodes |-> nodes, maxEdges |-> edges, dir |-> dir,
      nodeTypes |-> {}, evidence |-> evidence, reviews |-> {}, edgeTypes |-> types] :
        mode \in {"OVERVIEW", "NEIGHBORHOOD", "FULL"}, focus \in {NoFocus, 4}, hops \in 1 .. 2,
        nodes \in {2, 4}, edges \in {1, 9}, dir \in {"UPSTREAM", "DOWNSTREAM", "BOTH"},
        evidence \in {{}, {"OBSERVED"}}, types \in {{}, {"FEEDS"}}}
ValueKinds == {"none", "number", "infinite", "structured"} \cup TextKinds
FieldRules == {NoRule} \cup
    {[category |-> category, state |-> state] :
        category \in {"none", "EMAIL", "PHONE", "AUTHENTICATION_SECRET"},
        state \in {"CONFIRMED_SENSITIVE", "EXPLICITLY_NON_SENSITIVE"}}

-----------------------------------------------------------------------------
(* Evidence about one or two candidates, on time, late, stale or absent.    *)

At(source, snapshot, table, column) == [source |-> source, snapshot |-> snapshot, table |-> table, column |-> column]
Orders1 == At("S", "s1", "orders", "buyer")
People1 == At("S", "s1", "people", "id")
Shops1 == At("S", "s1", "shops", "id")
Foreign == At("T", "t1", "clients", "id")
Links == {[id |-> 1, from |-> Orders1, to |-> People1]}
TwoLinks == Links \cup {[id |-> 2, from |-> Orders1, to |-> Shops1]}
Pair == {[id |-> 1, from |-> People1, to |-> Foreign]}
LinkOf(c) == Subject(RelationshipPolicy, c)
Inclusion(n, snapshot, coverage, unique, compatible, full) ==
    [n |-> n, subject |-> LinkOf(CHOOSE c \in Links : TRUE), snaps |-> {<<"S", snapshot>>}, coverage |-> coverage,
     unique |-> unique, compatible |-> compatible, tiny |-> coverage = 0, full |-> full]
Status(family, result, outcome_) == [family |-> family, result |-> result, state |-> outcome_, snaps |-> {<<"S", "s1">>}]
Statuses1 ==
    {{Status("PROFILE", 1, "COMPLETE"), Status("DEPENDENCY", 2, "COMPLETE"), Status("QUALITY", 3, q)} :
        q \in {"COMPLETE", "FAILED"}}
    \cup {{Status("PROFILE", 1, "COMPLETE"), Status("DEPENDENCY", 2, "COMPLETE")},
          {Status("PROFILE", 1, "COMPLETE"), Status("DEPENDENCY", 2, "COMPLETE"), Status("QUALITY", 3, "COMPLETE"),
           Status("PROFILE", 1, "INCOMPLETE")},
          {Status("PROFILE", 1, "COMPLETE"), Status("DEPENDENCY", 2, "COMPLETE"), Status("QUALITY", 3, "COMPLETE"),
           Status("SCHEMA_MATCHING", 4, "COMPLETE")}}
Profile(table, snapshot, complete) == [n |-> 1, source |-> "S", snapshot |-> snapshot, table |-> table, complete |-> complete]
Evidence(candidates, inclusions, matches, declared, profiles, issues, learned, semantic, statuses, expected) ==
    [candidates |-> candidates, inclusions |-> inclusions, matches |-> matches, declared |-> declared,
     profiles |-> profiles, issues |-> issues, learned |-> learned, semantic |-> semantic, statuses |-> statuses,
     expected |-> expected]
Hypotheses == {{}} \cup {{[n |-> 1, about |-> about, dir |-> dir]} : about \in {{1}, {1, 2}}, dir \in {"SUPPORTS", "CONTRADICTS"}}
LinkEvidence ==
    LET given(candidates, inclusions, declared, snapshot, issues, semantic, statuses, expected) ==
            Evidence(candidates, inclusions, {}, declared, {Profile("orders", snapshot, TRUE)}, issues,
                     {[n |-> 1, candidate |-> 2, score |-> 50]}, semantic, statuses, expected)
        fine == {Status("PROFILE", 1, "COMPLETE"), Status("DEPENDENCY", 2, "COMPLETE"), Status("QUALITY", 3, "COMPLETE")}
        measured(compatible) == {Inclusion(1, "s1", 100, 100, compatible, TRUE)}
    IN {given(candidates, inclusions, declared, snapshot, {}, semantic, fine, {2}) :
            candidates \in {Links, TwoLinks},
            inclusions \in {{}, {Inclusion(1, "s1", 100, 50, TRUE, TRUE), Inclusion(2, "s1", 0, 0, FALSE, TRUE)}}
                           \cup {{Inclusion(1, snap, coverage, 100, compatible, full)} : snap \in {"s1", "s0"},
                                    coverage \in {0, 60, 100}, compatible \in BOOLEAN, full \in BOOLEAN},
            declared \in {{}, {[n |-> 1, subject |-> LinkOf(CHOOSE c \in Links : TRUE), catalog |-> TRUE]}},
            snapshot \in {"s1", "s0"}, semantic \in Hypotheses}
       \cup {given(candidates, measured(compatible), {}, "s1", issues, semantic, statuses, expected) :
            candidates \in {Links, TwoLinks}, compatible \in BOOLEAN,
            issues \in {{}, {[n |-> 1, at |-> Orders1, ratio |-> 10, open |-> TRUE]}},
            semantic \in Hypotheses, statuses \in Statuses1, expected \in {{}, {9}}}
MapEvidence ==
    {Evidence(Pair, {}, matches, {}, {Profile("people", "s1", complete)}, {}, {[n |-> 1, candidate |-> 1, score |-> 50]},
              semantic, statuses, {2}) :
        matches \in {{}} \cup
            {{[n |-> 1, subject |-> Subject(MappingPolicy, CHOOSE c \in Pair : TRUE), snaps |-> {<<"S", snap>>, <<"T", "t1">>},
               ranks |-> ranks, structural |-> structural]} :
                snap \in {"s1", "s0"}, structural \in {{}, {0}, {100}},
                ranks \in {{}, {<<1, "matcher_rank:coma", 1>>}, {<<1, "matcher_rank:coma", 2>>, <<2, "matcher_rank:other", 1>>}}},
        complete \in BOOLEAN, semantic \in Hypotheses, statuses \in Statuses1}
Limits == {[candidates |-> 2, evidence |-> 20, conflicts |-> 2], [candidates |-> 1, evidence |-> 20, conflicts |-> 1],
           [candidates |-> 2, evidence |-> 4, conflicts |-> 2]}
FusionCases == {[policy |-> RelationshipPolicy, given |-> e] : e \in LinkEvidence}
          \cup {[policy |-> MappingPolicy, given |-> e] : e \in MapEvidence}

-----------------------------------------------------------------------------
(* Files with blank, malformed and repeated rows, in one or several batches. *)

Upload(name, header, rows) == [record |-> name, version |-> [header |-> header, rows |-> rows]]
MCUploads == {Upload("mine", <<"id", "qty">>, <<"x", "y", "z">>), Upload("mine", <<"id", "qty">>, <<"x", Blank, "y">>),
              Upload("other", <<"id", "qty", "note">>, <<"x", "y", "x", Torn>>),
              Upload("mine", <<"qty", "id">>, <<Blank, Blank, "z", Blank, "z">>)}
MCExtraction == {[chunk |-> 1, max |-> 0], [chunk |-> 2, max |-> 0], [chunk |-> 2, max |-> 3], [chunk |-> 3, max |-> 1]}

-----------------------------------------------------------------------------
(* Databases: statements, tables under every bound, and connections.        *)

Sql == INSTANCE SqlSources
Statement(words, actions, mutates, schema) ==
    [words |-> words, semicolon |-> FALSE, actions |-> actions, mutates |-> mutates, schema |-> schema]
Statements ==
    {Statement(<<"SELECT">>, {<<"SELECT", "">>}, FALSE, FALSE),
     Statement(<<"SELECT", "INTO">>, {<<"SELECT", "">>}, TRUE, FALSE),
     Statement(<<"WITH", "SELECT">>, {<<"SELECT", "">>}, FALSE, FALSE),
     Statement(<<"WITH", "SELECT", "DELETE">>, {<<"DELETE", "t">>}, TRUE, TRUE),
     Statement(<<"EXPLAIN", "SELECT">>, {<<"SELECT", "">>}, FALSE, FALSE),
     Statement(<<"SELECT", "UPDATE">>, {<<"SELECT", "">>}, FALSE, FALSE),
     Statement(<<"REPLACE">>, {<<"INSERT", "t">>}, TRUE, TRUE),
     Statement(<<"INSERT", "SELECT">>, {<<"INSERT", "t">>}, TRUE, TRUE),
     Statement(<<"CREATE", "SELECT">>, {<<"CREATE", "t">>}, TRUE, TRUE),
     Statement(<<"PRAGMA", "USER_VERSION">>, {<<"PRAGMA", "user_version">>}, TRUE, TRUE),
     Statement(<<"PRAGMA", "TABLE_INFO">>, {<<"PRAGMA", "table_info">>}, FALSE, TRUE),
     Statement(<<"ATTACH">>, {<<"ATTACH", "f">>}, TRUE, TRUE), Statement(<<"VACUUM">>, {}, TRUE, FALSE),
     Statement(<<"VACUUM", "INTO">>, {}, TRUE, FALSE), Statement(<<"BEGIN">>, {}, FALSE, FALSE),
     Statement(<<"SELECT", "LOAD_EXTENSION">>, {<<"FUNCTION", "load_extension">>}, TRUE, TRUE),
     Statement(<<>>, {}, FALSE, FALSE),
     [Statement(<<"SELECT", "DROP">>, {<<"DROP", "t">>}, TRUE, FALSE) EXCEPT !.semicolon = TRUE]}
DriverTexts == {{}, {"readonly"}, {"not authorized"}, {"busy"}, {"no such file"}}

Field(name, nullable, pk) == [name |-> name, nullable |-> nullable, pk |-> pk]
DbTable(name, kind, rows, columns, fks) ==
    [name |-> name, kind |-> kind, rows |-> rows, columns |-> columns, fks |-> fks,
     indexes |-> {[columns |-> <<"id">>, unique |-> TRUE, origin |-> "u"], [columns |-> <<"at">>, unique |-> TRUE, origin |-> "c"]}]
DbFk(id, seq, from, to) == [id |-> id, seq |-> seq, from |-> from, to |-> to, table |-> "people"]
DbTables ==
    {DbTable("orders", "table", rows, columns, fks) :
        rows \in {<<>>, <<"o1">>, <<"o1", "o2", "o3">>},
        columns \in {{Field("id", FALSE, 1), Field("at", TRUE, 0)}, {Field("id", TRUE, 2), Field("at", FALSE, 1)}, {Field("id", TRUE, 0)}},
        fks \in {{}, {DbFk(0, 1, "b", "y"), DbFk(0, 0, "a", "x"), DbFk(1, 0, "c", "x")}}}
DbPeople == {DbTable("people", kind, rows, {Field("id", FALSE, 0)}, {}) : kind \in {"table", "view"}, rows \in {<<"p1", "p2">>, <<>>}}
DbScope(included, excluded, views) == [included |-> included, excluded |-> excluded, views |-> views]
DbScopes == {DbScope(included, excluded, views) : included \in {{}, {"people"}, {"orders", "gone"}}, excluded \in {{}, {"orders"}}, views \in BOOLEAN}
SqlCases == {[orders |-> o, people |-> x] : o \in DbTables, x \in DbPeople}
RowBounds == {[max |-> 0, scope |-> "PER_TABLE"]} \cup {[max |-> n, scope |-> s] : n \in 1 .. 4, s \in {"PER_TABLE", "SOURCE_WIDE"}}

DbPaths == {[place |-> place, kind |-> kind] : place \in {"inside", "outside"}, kind \in {"file", "directory", "missing", "uri"}}
SampleRows == <<[id |-> "i1", at |-> "d1"], [id |-> "i2", at |-> "d2"]>>
SampleRequests ==
    {[columns |-> columns, max |-> n, schema |-> schema] :
        columns \in {<<>>, <<"*">>, <<"at", "id">>, <<"id">>, <<"id", "id">>}, n \in 0 .. 2, schema \in {"", "main", "temp"}}
SafePolicy == [purpose |-> "SOURCE_READ_ONLY", readOnly |-> TRUE, assurance |-> TRUE,
               sqlite |-> {"authorizer", "query_only", "mode_ro"}, requirements |-> <<>>]
SetupOn(engine, host, policy, config, secret) ==
    [policy |-> policy, config |-> config, profile |-> [engine |-> engine, host |-> host, database |-> secret, user |-> "ref"]]
Setup(policy, config, secret) == SetupOn("POSTGRESQL", "h", policy, config, secret)
Setups ==
    {Setup(SafePolicy, {"schema"}, "plain"), Setup([SafePolicy EXCEPT !.sqlite = {"mode_ro"}], {}, "plain"),
     Setup([SafePolicy EXCEPT !.purpose = "TARGET_WRITE"], {}, "plain"),
     Setup([SafePolicy EXCEPT !.requirements = <<[required |-> {}, optional |-> {"SELECT"}, forbidden |-> {"INSERT", "SUPER"}]>>], {}, "plain"),
     Setup(SafePolicy, {"query_adapter_callback"}, "plain"), Setup(SafePolicy, {}, "dsn"),
     SetupOn("POSTGRESQL", Sql!NoHost, SafePolicy, {}, "plain"), SetupOn("MYSQL", "h", SafePolicy, {}, "plain")}

Need == [required |-> {"SELECT"}, optional |-> {"VIEW"}, forbidden |-> {"INSERT", "SUPER"}]
Findings == {{<<x, f[x]>> : x \in {y \in DOMAIN f : f[y] # "none"}} :
                f \in [{"SELECT", "INSERT", "SUPER", "ODD"} -> {"none", "PRESENT_REQUIRED", "ABSENT_FORBIDDEN", "FORBIDDEN_PRESENT"}]}
            \cup {{<<"SELECT", "PRESENT_REQUIRED">>, <<"INSERT", "ABSENT_FORBIDDEN">>, <<"SUPER", "ABSENT_FORBIDDEN">>, <<"SUPER", "PRESENT_REQUIRED">>}}
ConnectCases ==
    {[credentials |-> [purpose |-> purpose, source |-> source, version |-> 1, host |-> url[1], scheme |-> url[2]],
      verification |-> [source |-> checked, version |-> version, scope |-> "all", status |-> level, findings |-> findings]] :
        purpose \in {"SOURCE_READ_ONLY", "TARGET_WRITE"}, source \in {"db", "other"},
        url \in {<<"h", "postgresql">>, <<"elsewhere", "postgresql+psycopg">>, <<"h", "mysql">>},
        checked \in {"db", "other"}, version \in {1, 2}, level \in {"TECHNICALLY_VERIFIED", "OPERATOR_ATTESTED"},
        findings \in Findings}

-----------------------------------------------------------------------------
(* Staged tables with nulls, markers, repetitions and foreign keys, profiled, *)
(* measured by rules and searched for dependencies.                          *)

Dep == INSTANCE Dependencies
Cell(kind, id, length, patterns, padded, date) ==
    [kind |-> kind, id |-> id, length |-> length, patterns |-> patterns, padded |-> padded, date |-> date, finite |-> TRUE]
Number(n) == Cell("integer", n, 0, {}, FALSE, "none")
Word(n) == Cell("string", n, n, {}, FALSE, "none")
NullCell == Cell("null", 0, 0, {}, FALSE, "none")
NaCell == Cell("string", 9, 2, {}, FALSE, "none")
DateCell(n, zone) == Cell("string", IF zone = "utc" THEN n + 20 ELSE n + 10, 10, {"DATE_STRING"}, n > 1, zone)
CellRow(ref, id, owner, day) == [ref |-> ref, cells |-> [id |-> id, owner |-> owner, day |-> day]]
OwnerRow(ref, key, rank) == [ref |-> ref, cells |-> [key |-> key, rank |-> rank]]
Staged(table, state, intact, counted, rows) ==
    [table |-> table, snapshot |-> "s1", state |-> state, place |-> "inside", intact |-> intact, counted |-> counted, rows |-> rows]
OwnerRows == {<<OwnerRow("p1", Number(1), Number(1)), OwnerRow("p2", Number(2), Number(1))>>,
              <<OwnerRow("p1", Number(1), NullCell), OwnerRow("p2", Number(1), Number(1))>>}
ItemRows ==
    {<<CellRow("r1", Number(1), Number(1), DateCell(1, "local")), CellRow("r2", id, owner, day), third>> :
        id \in {Number(1), Number(-2), NullCell}, owner \in {Number(1), Number(3), NullCell},
        day \in {DateCell(1, "utc"), DateCell(2, "local"), NaCell, Word(0)},
        third \in {CellRow("r3", Number(1), Number(1), DateCell(1, "local")), CellRow("r3", Number(0), NullCell, DateCell(2, "local"))}}
StagedSnapshot(items, owners, seen, whole, damage, seenMode) ==
    LET cut == SubSeq(items, 1, 2)
        rest == SubSeq(items, 3, 3)
    IN [id |-> "s1", mode |-> seenMode, seen |-> [items |-> seen, owners |-> whole],
        rows |-> [items |-> IF seen = "NOT_OBSERVED" THEN 0 ELSE 3, owners |-> 2],
        batches |-> (IF seen = "NOT_OBSERVED" THEN <<>>
                     ELSE <<Staged("items", "COMPLETE", damage # "first", 2, cut),
                            Staged("items", IF damage = "partial" THEN "PARTIAL" ELSE "COMPLETE", TRUE,
                                   IF damage = "short" THEN 2 ELSE 1, rest)>>)
                    \o <<Staged("owners", "COMPLETE", TRUE, 2, owners)>>]
EvidenceCases ==
    {StagedSnapshot(items, owners, "FULLY_OBSERVED", "FULLY_OBSERVED", "none", "full") : items \in ItemRows, owners \in OwnerRows}
    \cup {StagedSnapshot(items, owners, seen, whole, damage, seenMode) :
             items \in {x \in ItemRows : x[2].cells.id = Number(1) /\ x[2].cells.day = NaCell}, owners \in OwnerRows,
             seen \in {"FULLY_OBSERVED", "PARTIALLY_OBSERVED", "NOT_OBSERVED"}, whole \in {"FULLY_OBSERVED", "PARTIALLY_OBSERVED"},
             damage \in {"none", "first", "partial", "short"}, seenMode \in {"full", "bounded"}}
EvidenceColumns == [items |-> <<"id", "owner", "day">>, owners |-> <<"key", "rank">>]
ColumnSets == [t \in DOMAIN EvidenceColumns |-> Range(EvidenceColumns[t])]
ProfileAsk(mode, limit, tables, columns, markers) ==
    [snapshot |-> "s1", mode |-> mode, limit |-> limit, seeded |-> TRUE, tables |-> tables, columns |-> columns,
     markers |-> markers, options |-> [expensive |-> FALSE, bound |-> 0, labels |-> FALSE, model |-> FALSE]]
ProfileAsks ==
    {ProfileAsk("FULL", 0, <<"items", "owners">>, {}, <<9>>), ProfileAsk("FULL", 0, <<"owners">>, {"key"}, <<>>),
     ProfileAsk("SAMPLE", 1, <<"items">>, {}, <<9>>), ProfileAsk("SAMPLE", 2, <<"items", "owners">>, {"id", "rank"}, <<>>),
     ProfileAsk("FULL", 0, <<"items">>, {"rank"}, <<>>), ProfileAsk("SAMPLE", 0, <<"items">>, {}, <<>>)}
Draws == {[i \in 1 .. 3 |-> 0], [i \in 1 .. 3 |-> i - 1], [i \in 1 .. 3 |-> 1]}
RuleConfig(markers, repair, quarantine, operation) ==
    [markers |-> markers, repair |-> repair, quarantine |-> quarantine, operation |-> operation]
QRule(id, table, columns, type, scope, full, repair, expect, config) ==
    [id |-> id, enabled |-> id # "off", source |-> IF id = "foreign" THEN "other" ELSE "", table |-> table, columns |-> columns,
     type |-> type, scope |-> scope, full |-> full, repair |-> repair, expect |-> expect, config |-> config, asserted |-> scope = "DOMAIN_ASSERTION", given |-> type \in Dep!NeedsExpectation]
Quiet == RuleConfig(TRUE, FALSE, FALSE, "")
OwnerKey == [columns |-> <<"owner">>, table |-> "owners", to |-> <<"key">>]
WideKey == [columns |-> <<"id", "owner">>, table |-> "owners", to |-> <<"key", "rank">>]
QualityRuleLists ==
    {<<QRule("req", "items", {"id", "day"}, "REQUIRED_VALUE", "GENERIC", FALSE, "NOT_REPAIRABLE", <<>>, RuleConfig(TRUE, TRUE, TRUE, "")),
       QRule("uniq", "items", {"id"}, "UNIQUE_VALUES", "SOURCE_DECLARED", FALSE, "AUTO_SAFE", <<>>, RuleConfig(TRUE, FALSE, TRUE, "")),
       QRule("dup", "items", {}, "EXACT_ROW_DUPLICATION", "GENERIC", TRUE, "AUTO_WITH_VALIDATION", <<>>, RuleConfig(TRUE, TRUE, FALSE, "")),
       QRule("fk", "items", {"owner"}, "DECLARED_REFERENTIAL_INTEGRITY", "SOURCE_DECLARED", FALSE, "AUTO_SAFE", OwnerKey, Quiet),
       QRule("off", "gone", {}, "UNIQUE_VALUES", "GENERIC", FALSE, "AUTO_SAFE", <<>>, Quiet)>>,
     <<QRule("pat", "items", {"day"}, "EXPECTED_PATTERN", "USER_POLICY", FALSE, "AUTO_SAFE", "DATE_STRING", Quiet),
       QRule("typ", "items", {"day"}, "EXPECTED_PRIMITIVE_TYPE", "DOMAIN_ASSERTION", FALSE, "REVIEW_REQUIRED", "integer", RuleConfig(FALSE, TRUE, FALSE, "")),
       QRule("dom", "items", {"owner"}, "ALLOWED_DOMAIN", "USER_POLICY", TRUE, "AUTO_SAFE", {1}, Quiet),
       QRule("rng", "items", {"id"}, "NUMERIC_RANGE", "USER_POLICY", FALSE, "MANUAL_BUSINESS_DECISION", <<0, 5>>, RuleConfig(TRUE, TRUE, FALSE, "")),
       QRule("trim", "items", {"day"}, "NORMALIZATION_OPPORTUNITY", "GENERIC", FALSE, "AUTO_SAFE", <<>>, RuleConfig(TRUE, TRUE, FALSE, "trim_whitespace")),
       QRule("wide", "items", {"id", "owner"}, "DECLARED_REFERENTIAL_INTEGRITY", "SOURCE_DECLARED", FALSE, "AUTO_SAFE", WideKey, Quiet),
       QRule("foreign", "items", {}, "UNIQUE_VALUES", "GENERIC", FALSE, "AUTO_SAFE", <<>>, Quiet)>>,
     <<QRule("gone", "gone", {}, "UNIQUE_VALUES", "GENERIC", FALSE, "AUTO_SAFE", <<>>, Quiet),
       QRule("bench", "owners", {"key"}, "UNIQUE_VALUES", "REFERENCE_BENCHMARK", FALSE, "AUTO_SAFE", <<>>, Quiet)>>}
QualityAsk(rules, profiles, snapshot, default) ==
    [source |-> "S", snapshot |-> snapshot, rules |-> rules, fingerprint |-> profiles, batches |-> <<>>, default |-> default]
QualityOf(rules, profiles, bound) ==
    profiles.ok => \A snapshot \in {"s0", "s1"}, default \in BOOLEAN :
        Dep!RuleSetValid(rules, default) =>
            Dep!QualityTrue(QualityAsk(rules, profiles, snapshot, default), case, profiles, EvidenceColumns, bound)
DepPolicy(nulls, maxTables, maxColumns, maxPairs, maxOutput, kinds) ==
    [nulls |-> nulls, maxTables |-> maxTables, maxColumns |-> maxColumns, maxPairs |-> maxPairs, ucc |-> 2, fd |-> 1,
     maxOutput |-> maxOutput, lowLimit |-> 1, kinds |-> kinds]
DepPolicies ==
    {DepPolicy(nulls, 2, 3, 12, 50, {"UCC", "FD", "IND"}) : nulls \in {"EXCLUDE", "EQUAL", "BREAK"}}
    \cup {DepPolicy("EXCLUDE", 1, 3, 12, 50, {"UCC"}), DepPolicy("EXCLUDE", 2, 2, 12, 50, {"IND"}),
          DepPolicy("EXCLUDE", 2, 3, 11, 50, {"UCC"}), DepPolicy("EXCLUDE", 2, 3, 12, 1, {"UCC", "IND"})}
DepAsk(policy, granted, network) ==
    [snapshot |-> "s1", tables |-> {"items", "owners"}, policy |-> policy, local |-> TRUE, temp |-> "inside",
     granted |-> [snapshot |-> granted, tables |-> {"items", "owners"}, network |-> network]]
DepEngine(available, fails, late, slow) == [available |-> available, fails |-> fails, late |-> late, slow |-> slow]
DepEngines == {DepEngine(TRUE, {}, {}, FALSE), DepEngine(FALSE, {}, {}, FALSE), DepEngine(TRUE, {<<"fd", "items">>}, {}, FALSE),
               DepEngine(TRUE, {}, {<<"ind", "">>}, FALSE), DepEngine(TRUE, {}, {}, TRUE)}
DepCatalog == <<[table |-> "items", columns |-> <<"id", "owner", "day">>, types |-> [id |-> "integer", owner |-> "integer", day |-> "string"]],
                [table |-> "owners", columns |-> <<"key", "rank">>, types |-> [key |-> "numeric", rank |-> "integer"]]>>
DepAsks == {DepAsk(policy, "s1", FALSE) : policy \in DepPolicies}
           \cup {DepAsk(DepPolicy("EXCLUDE", 2, 3, 12, 50, {"UCC"}), granted, network) : granted \in {"s0", "s1"}, network \in BOOLEAN}

-----------------------------------------------------------------------------
(* The release record after each accepted step, as it is and with one entry *)
(* edited by hand.                                                          *)

Gates == INSTANCE ReleaseGates
StepCommit == [s \in 29 .. 41 |-> ToString(s)]
Handover(done) ==
    LET next == IF done = 41 THEN 0 ELSE done + 1
        said(s) == IF s <= done THEN StepCommit[s] ELSE ""
    IN [current |-> next, role |-> next, named |-> next, next |-> next, last |-> done, lastRole |-> done, lastNamed |-> done,
        commit |-> StepCommit[done], over |-> done = 41, blocked |-> FALSE, begun |-> [s \in 29 .. 41 |-> s <= done],
        status |-> [s \in 29 .. 41 |-> IF s <= done THEN "COMPLETED" ELSE "NOT_STARTED"],
        receipt |-> [s \in 29 .. 41 |-> [begun |-> s <= done, pass |-> s <= done, gate |-> s <= done, commit |-> said(s),
                                         ci |-> s <= done, head |-> said(s), assessed |-> said(s), files |-> s <= done]],
        gate |-> [g \in 0 .. 15 |-> IF g \in Gates!GatesBy(done) THEN "PASS" ELSE "PENDING"]]
Edited(rec, kind, x) ==
    CASE kind = "blocked" -> [rec EXCEPT !.blocked = TRUE]
      [] kind = "commit" -> [rec EXCEPT !.commit = "short"]
      [] kind = "gate" -> [rec EXCEPT !.gate[x] = IF @ = "PASS" THEN "PENDING" ELSE "PASS"]
      [] kind = "undone" -> [rec EXCEPT !.status[x] = "NOT_STARTED", !.begun[x] = FALSE]
      [] kind = "begun" -> [rec EXCEPT !.status[x] = IF x = 31 THEN "BLOCKED" ELSE "INCOMPLETE", !.begun[x] = TRUE]
      [] kind = "receipt" -> [rec EXCEPT !.receipt[x].pass = ~@]
      [] kind = "unbound" -> [rec EXCEPT !.receipt[x].assessed = "other"]
      [] kind = "pointer" -> [rec EXCEPT !.current = x, !.role = x, !.named = x, !.next = x, !.last = x - 1,
                                         !.lastRole = x - 1, !.lastNamed = x - 1]
Edits == ({"blocked", "commit"} \X {30}) \cup ({"gate"} \X (7 .. 15)) \cup ({"undone", "begun", "receipt", "unbound"} \X (30 .. 41))
         \cup ({"pointer"} \X (30 .. 41))
GateCases == {[done |-> done, kind |-> e[1], x |-> e[2]] : done \in 29 .. 41, e \in Edits}

-----------------------------------------------------------------------------
(* Three sources with comparable, incomparable and untyped columns; search  *)
(* policies that are wide or stop at one bound; grants that fit, were       *)
(* replaced, or are for other batches.                                      *)

Mat == INSTANCE Matching
MatchColumn(id, from, table, family) == [id |-> id, source |-> from, table |-> table, family |-> family]
MatchCatalogs ==
    [a |-> <<[id |-> "ta", columns |-> <<MatchColumn(11, "a", "ta", "numeric"), MatchColumn(12, "a", "ta", "text")>>],
             [id |-> "tx", columns |-> <<MatchColumn(13, "a", "tx", "unknown")>>]>>,
     b |-> <<[id |-> "tb", columns |-> <<MatchColumn(21, "b", "tb", "numeric"), MatchColumn(22, "b", "tb", "text")>>]>>,
     c |-> <<[id |-> "tc", columns |-> <<MatchColumn(31, "c", "tc", "datetime")>>]>>]
MatchStaged(intact) ==
    [a |-> [snapshot |-> "sa", batches |-> <<<<"ta", 1>>, <<"tx", 2>>>>, intact |-> intact, rows |-> [ta |-> <<1, 2>>, tx |-> <<3>>]],
     b |-> [snapshot |-> "sb", batches |-> <<<<"tb", 3>>>>, intact |-> TRUE, rows |-> [tb |-> <<4>>]],
     c |-> [snapshot |-> "sc", batches |-> <<<<"tc", 4>>>>, intact |-> TRUE, rows |-> [tc |-> <<5>>]]]
MatchPolicy(bound) ==
    LET wide == [maxSources |-> 3, maxSourcePairs |-> 3, maxTables |-> 2, maxTablePairs |-> 6, maxColumns |-> 4, maxColumnPairs |-> 40,
                 maxRows |-> 3, maxMatchers |-> 2, topK |-> 1, maxOutput |-> 9, typed |-> TRUE]
    IN CASE bound = "sources" -> [wide EXCEPT !.maxSources = 2] [] bound = "pairs" -> [wide EXCEPT !.maxSourcePairs = 1]
         [] bound = "tables" -> [wide EXCEPT !.maxTables = 1] [] bound = "table pairs" -> [wide EXCEPT !.maxTablePairs = 1]
         [] bound = "columns" -> [wide EXCEPT !.maxColumns = 1] [] bound = "column pairs" -> [wide EXCEPT !.maxColumnPairs = 3]
         [] bound = "rows" -> [wide EXCEPT !.maxRows = 1] [] bound = "output" -> [wide EXCEPT !.maxOutput = 1]
         [] bound = "two" -> [wide EXCEPT !.topK = 2, !.typed = FALSE] [] OTHER -> wide
MatchScope(sources, order, columns, at1) ==
    [sources |-> sources, snapshots |-> [s \in Range(sources) |-> CASE s = "a" -> at1 [] s = "b" -> "sb" [] OTHER -> "sc"],
     tables |-> [s \in Range(sources) |-> CASE s = "a" -> order [] s = "b" -> <<"tb">> [] s = "c" -> <<"tc">>],
     columns |-> columns, spec |-> "none"]
NoColumns == [t \in {} |-> <<>>]
MatchScopes == {MatchScope(<<"a", "b">>, <<"ta", "tx">>, NoColumns, "sa"), MatchScope(<<"b", "a">>, <<"tx", "ta">>, [ta |-> <<12>>], "sa"),
                MatchScope(<<"a", "b", "c">>, <<"ta", "tx">>, NoColumns, "sa"), MatchScope(<<"a", "b">>, <<"ta", "ta">>, NoColumns, "sa"),
                MatchScope(<<"a", "b">>, <<"ta">>, [tx |-> <<13>>], "sa"), MatchScope(<<"a", "b">>, <<"ta">>, NoColumns, "old")}
AnalysisContext(purpose, network, temp) ==
    [purpose |-> purpose, local |-> TRUE, network |-> network, external |-> FALSE, llm |-> FALSE, raw |-> FALSE, cleanup |-> TRUE, temp |-> temp]
MatchContexts ==
    {AnalysisContext(purpose, network, temp) : purpose \in {"MATCHING", "LINKING"}, network \in BOOLEAN, temp \in {"inside", "outside"}}
SourceScope(scope, s) == [scope EXCEPT !.sources = <<s>>, !.snapshots = [x \in {s} |-> @[s]], !.tables = [x \in {s} |-> @[s]]]
MatchRequest(scope, mode, bound, matchers) ==
    [scope |-> scope, context |-> AnalysisContext("MATCHING", FALSE, "inside"), mode |-> mode, matchers |-> matchers,
     policy |-> MatchPolicy(bound), rank |-> <<2, 1, 3, 4, 5>>]
Matcher(id, name, instances) == [id |-> id, name |-> name, instances |-> instances]
MatchCases ==
    {MatchRequest(scope, mode, bound, matchers) :
        scope \in MatchScopes, mode \in {"SCHEMA_ONLY", "INSTANCE_AWARE"},
        bound \in {"none", "sources", "pairs", "tables", "table pairs", "columns", "column pairs", "rows", "output", "two"},
        matchers \in {<<Matcher("m1", "Coma", FALSE), Matcher("m2", "Cupid", FALSE)>>, <<Matcher("m1", "DistributionBased", TRUE)>>}}
MatchIds == {11, 12, 13, 21, 22, 31}
MatchScores == {[p \in MatchIds \X MatchIds |-> 1], [p \in MatchIds \X MatchIds |-> IF p[1] % 10 = p[2] % 10 THEN 3 ELSE 1],
                [p \in MatchIds \X MatchIds |-> IF p = <<13, 22>> THEN 2 ELSE IF 22 \in {p[1], p[2]} THEN 0 ELSE 1]}
MatchProviders ==
    {[available |-> TRUE, limit |-> limit, fails |-> fails, score |-> [m1 |-> one, m2 |-> two]] :
        limit \in {1, 3, 99}, fails \in {{}, {"m1"}}, one \in MatchScores, two \in {[p \in MatchIds \X MatchIds |-> p[2]]}}
    \cup {[available |-> FALSE, limit |-> 99, fails |-> {}, score |-> [m \in {"m1", "m2"} |-> [p \in MatchIds \X MatchIds |-> 1]]]}
NoGrants == [policy |-> "p", version |-> 1, root |-> "project", grants |-> [x \in {} |-> <<>>]]
\* the grant presented, and the service that verifies it
MatchGrants(request) ==
    LET batches == Mat!BatchesIn(request, MatchStaged(TRUE))
        first == Mat!AuthorizeMatching(NoGrants, request.context, request.scope, batches, 1)
        again == Mat!AuthorizeMatching(first.service, request.context, request.scope, batches, 2)
        other == Mat!AuthorizeMatching(NoGrants, request.context, request.scope, SubSeq(batches, 1, 1), 1)
    IN {[service |-> first.service, grant |-> first.grant], [service |-> again.service, grant |-> first.grant],
        [service |-> NoGrants, grant |-> Mat!NoGrant], [service |-> other.service, grant |-> other.grant],
        [service |-> [first.service EXCEPT !.version = 2], grant |-> first.grant]}

-----------------------------------------------------------------------------
(* Three records of two sources with equal, different and placeholder       *)
(* values; fields compared across sources, within one, or bound in one only *)

Link == INSTANCE EntityLinking WITH Unbound <- "unbound"
LinkField(id, s, t, column, anchor) ==
    [id |-> id, source |-> s, snapshot |-> IF s = "a" THEN "sa" ELSE "sb", table |-> t, column |-> column,
     role |-> IF id = "name" THEN "phone" ELSE id, rule |-> IF id = "name" THEN "digits" ELSE "plain", anchor |-> anchor]
LinkFields(shape) ==
    LET ofA == <<LinkField("email", "a", "ta", "e", TRUE), LinkField("name", "a", "ta", "n", FALSE)>>
    IN CASE shape = "both" -> ofA \o <<LinkField("email", "b", "tb", "e", TRUE), LinkField("name", "b", "tb", "n", FALSE)>>
         [] shape = "one" -> ofA
         [] shape = "part" -> ofA \o <<LinkField("name", "b", "tb", "n", FALSE)>>
LinkValue(x) == IF x = "none" THEN Null ELSE [kind |-> IF x = "n/a" THEN "placeholder" ELSE IF x = "nn" THEN "letters" ELSE "mixed", text |-> x]
LinkRow(ref, t, e, n) == [ref |-> ref, table |-> t, values |-> [e |-> LinkValue(e), n |-> LinkValue(n)]]
LinkStaged(shape, r2, r3, intact) ==
    LET a == [snapshot |-> "sa", batches |-> <<<<"ta", 1>>>>, intact |-> intact,
              rows |-> <<LinkRow("r1", "ta", "e1", "n1"), LinkRow("r2", "ta", r2[1], r2[2])>>
                       \o (IF shape = "one" THEN <<LinkRow("r3", "ta", r3[1], r3[2])>> ELSE <<>>)]
        b == [snapshot |-> "sb", batches |-> <<<<"tb", 2>>>>, intact |-> TRUE, rows |-> <<LinkRow("r3", "tb", r3[1], r3[2])>>]
    IN IF shape = "one" THEN [a |-> a] ELSE [a |-> a, b |-> b]
LinkScope(shape) ==
    LET sources == IF shape = "one" THEN <<"a">> ELSE <<"a", "b">>
    IN [sources |-> sources, snapshots |-> [s \in Range(sources) |-> IF s = "a" THEN "sa" ELSE "sb"],
        tables |-> [s \in Range(sources) |-> IF s = "a" THEN <<"ta">> ELSE <<"tb">>],
        columns |-> [i \in DOMAIN LinkFields(shape) |-> LinkFields(shape)[i].column], spec |-> shape]
LinkRule(id, digits, country) == [id |-> id, digits |-> digits, country |-> country, guess |-> {}, preserve |-> TRUE]
LinkSpec(shape, mode, weight, review) ==
    [scope |-> LinkScope(shape), mode |-> mode, fields |-> LinkFields(shape),
     rules |-> <<LinkRule("plain", FALSE, FALSE), LinkRule("digits", TRUE, TRUE)>>,
     blocking |-> <<[id |-> "b1", operator |-> "AND", fields |-> {"email"}, covers |-> {"email"}],
                    [id |-> "b2", operator |-> "AND", fields |-> {"name"}, covers |-> {"name"}]>>,
     comparisons |-> <<[field |-> "email", frequency |-> TRUE], [field |-> "name", frequency |-> FALSE]>>,
     training |-> [em |-> {"b1"}, prior |-> 1, strategy |-> "EXPLICIT", method |-> Null, provenance |-> TRUE],
     threshold |-> [id |-> "t", match |-> 95, review |-> 80, weight |-> weight, independent |-> TRUE],
     clustering |-> [threshold |-> "t", size |-> 3, placeholder |-> TRUE, anchors |-> TRUE, bridge |-> TRUE, review |-> review],
     budget |-> [records |-> 3, pairs |-> 3, all |-> 3, size |-> 3], context |-> AnalysisContext("LINKING", FALSE, "inside")]
LinkCases ==
    {[shape |-> shape, mode |-> mode, r2 |-> r2, r3 |-> r3] :
        shape \in {"both", "one", "part"}, mode \in {"LINK_ONLY", "DEDUPE_ONLY", "LINK_AND_DEDUPE"},
        r2 \in ({"e1", "e2", "n/a"} \X {"n1", "n2"}) \cup {<<"none", "n1">>, <<"e1", "nn">>}, r3 \in {"e1", "e2", "n/a"} \X {"n1", "n2"}}
LinkSpecs(c) == {LinkSpec(c.shape, c.mode, weight, review) : weight \in {Null, 0}, review \in BOOLEAN}
\* the same specification with one thing changed
LinkVariants(spec) ==
    {[spec EXCEPT !.clustering.size = 2], [spec EXCEPT !.budget.records = 2], [spec EXCEPT !.budget.pairs = 1], [spec EXCEPT !.budget.all = 1],
     [spec EXCEPT !.threshold.independent = FALSE], [spec EXCEPT !.clustering.bridge = FALSE],
     [spec EXCEPT !.training.prior = Null, !.training.strategy = "ESTIMATED", !.training.method = "m"],
     [spec EXCEPT !.rules[2].country = FALSE], [spec EXCEPT !.blocking[2].covers = {}], [spec EXCEPT !.scope.snapshots["a"] = "old"]}
LinkPairs == {{"r1", "r2"}, {"r1", "r3"}, {"r2", "r3"}}
LinkScore == {[p |-> 99, w |-> -9], [p |-> 85, w |-> -9], [p |-> 10, w |-> -9], [p |-> 10, w |-> 3]}
LinkEngines ==
    {[version |-> "4.0.17", tunable |-> TRUE, trains |-> TRUE, predicts |-> TRUE,
      score |-> [c \in LinkPairs |-> IF c = {"r1", "r3"} THEN one ELSE two]] : one \in LinkScore, two \in {[p |-> 99, w |-> -9], [p |-> 10, w |-> 3]}}
LinkEngine == CHOOSE engine \in LinkEngines : \A c \in LinkPairs : engine.score[c].p = 99
BrokenEngines ==
    {[LinkEngine EXCEPT !.version = "5"], [LinkEngine EXCEPT !.tunable = FALSE], [LinkEngine EXCEPT !.trains = FALSE], [LinkEngine EXCEPT !.predicts = FALSE]}
LinkCatalogs(shape) == IF shape = "one" THEN [a |-> {"ta"}] ELSE [a |-> {"ta"}, b |-> {"tb"}]
LinkGrants(spec, from) ==
    LET batches == Link!BatchesOf(spec, from)
        first == Link!AuthorizeLinking(NoGrants, spec.context, spec.scope, batches, 1)
        again == Link!AuthorizeLinking(first.service, spec.context, spec.scope, batches, 2)
        other == Link!AuthorizeLinking(NoGrants, spec.context, spec.scope, <<>>, 1)
    IN {[service |-> first.service, grant |-> first.grant], [service |-> again.service, grant |-> first.grant],
        [service |-> NoGrants, grant |-> Link!NoGrant], [service |-> other.service, grant |-> other.grant],
        [service |-> [first.service EXCEPT !.version = 2], grant |-> first.grant]}

-----------------------------------------------------------------------------
(* Two sources of orders whose customers agree on everything, on one value, *)
(* on none; repeated and incomplete orders; columns under other names or    *)
(* absent, and a source with a second table.                                *)

MultiAliases ==
    [order_id |-> {"order_id", "sale_key"}, order_date |-> {"order_date", "sale_day"}, quantity |-> {"quantity", "qty"},
     customer_name |-> {"customer_name", "name"}, customer_email |-> {"email", "buyer_email"}, customer_phone |-> {"phone"}]
Multi == INSTANCE MultiSource WITH Unbound <- "unbound", Aliases <- MultiAliases
MultiColumns(shape) ==
    CASE shape = "aliased" -> <<"sale_key", "sale_day", "qty", "name", "buyer_email", "phone">>
      [] shape = "no phone" -> <<"order_id", "order_date", "quantity", "customer_name", "email", "fax">>
      [] shape = "no order" -> <<"id", "order_date", "quantity", "customer_name", "email", "phone">>
      [] OTHER -> <<"order_id", "order_date", "quantity", "customer_name", "email", "phone">>
MultiRow(ref, t, shape, who, what) ==
    [ref |-> ref, table |-> t,
     values |-> [c \in Range(MultiColumns(shape)) |->
         LET at1 == SelectInSeq(MultiColumns(shape), LAMBDA x : x = c)
         IN IF at1 <= 3 THEN what[at1] ELSE LinkValue(who[at1 - 3])]]
MultiWho == {<<"n1", "e1", "p1">>, <<"n2", "e1", "p2">>, <<"n1", "e2", "p2">>, <<"n/a", "n/a", "p1">>, <<"n3", "e3", "p3">>}
MultiCase(who2, who3, what2, what3, shape) == [who2 |-> who2, who3 |-> who3, what2 |-> what2, what3 |-> what3, shape |-> shape]
MultiCases ==
    {MultiCase(who2, who3, <<"o2", "d1", 3>>, <<"o1", "d2", 5>>, "plain") : who2, who3 \in MultiWho}
    \cup {MultiCase(who2, <<"n1", "e1", "p1">>, what2, what3, "plain") :
             who2 \in MultiWho, what2 \in {<<"o2", "d1", 3>>, <<"o1", "d1", 3>>},
             what3 \in {<<"o1", "d2", 5>>, <<Null, "d2", 5>>, <<"o1", Null, 5>>, <<"o1", "d2", Null>>}}
    \cup {MultiCase(who2, <<"n1", "e1", "p1">>, <<"o2", "d1", 3>>, <<"o1", "d2", 5>>, shape) :
             who2 \in MultiWho, shape \in {"aliased", "no phone", "no order", "second table"}}
MultiWorld(c, engine) ==
    [sources |-> <<"a", "b">>,
     catalogs |-> [a |-> <<[id |-> "ta", columns |-> MultiColumns("plain")]>>,
                   b |-> <<[id |-> "tb", columns |-> MultiColumns(c.shape)]>>],
     staged |-> [a |-> [snapshot |-> "sa", batches |-> <<<<"ta", 1>>>>, intact |-> TRUE,
                        rows |-> <<MultiRow("r1", "ta", "plain", <<"n1", "e1", "p1">>, <<"o1", "d1", 2>>),
                                   MultiRow("r2", "ta", "plain", c.who2, c.what2)>>],
                 b |-> [snapshot |-> "sb", batches |-> IF c.shape = "second table" THEN <<<<"tb", 2>>, <<"tz", 3>>>> ELSE <<<<"tb", 2>>>>,
                        intact |-> TRUE, rows |-> <<MultiRow("r3", "tb", c.shape, c.who3, c.what3)>>]],
     seen |-> [s \in {"a", "b"} |-> <<1, 1>>], match |-> "COMPLETE", fusion |-> "COMPLETE_REVIEW_READY",
     evidence |-> [s \in {"a", "b"} |-> [k \in {"profile", "dependency", "quality"} |-> "COMPLETE"]], service |-> NoGrants, engine |-> engine]
MultiVariants(world) ==
    {[world EXCEPT !.seen["b"] = <<1, 2>>], [world EXCEPT !.match = "INCOMPLETE"], [world EXCEPT !.fusion = "BLOCKED"],
     [world EXCEPT !.evidence["b"].dependency = "INCOMPLETE"], [world EXCEPT !.staged["a"].intact = FALSE]}
MultiReviews ==
    {[k \in given |-> [subject |-> said, hash |-> Null]] :
        given \in {Multi!Checkpoints, Multi!Checkpoints \ {"REVIEW_CANONICAL_IDENTITY"}}, said \in {"fusion", "older", Null}}

-----------------------------------------------------------------------------
(* One analysis whose provider misbehaves at one of its requests, answers   *)
(* at every edge of what is accepted, and contexts around the budgets.      *)

Ai == INSTANCE SemanticAi
AiHypothesis(kind, text, refs) == [kind |-> kind, text |-> text, refs |-> refs]
AiContent(form, size, hypotheses, limitations) == [form |-> form, size |-> size, hypotheses |-> hypotheses, limitations |-> limitations]
AiPlain == AiContent("json", 1, <<AiHypothesis("SUPPORTS", "text", {"e1"})>>, <<>>)
AiContents ==
    {AiPlain, AiContent("missing", 0, <<>>, <<>>), AiContent("json", 3, <<>>, <<>>), AiContent("text", 1, <<>>, <<>>),
     AiContent("json", 1, <<AiHypothesis("DECIDES", "text", {})>>, <<>>), AiContent("json", 1, <<>>, <<"authority">>)}
    \cup {AiContent("json", 1, <<AiHypothesis("SUPPORTS", text, refs)>>, <<"text">>) :
             text \in {"text", "authority", "email"}, refs \in SUBSET {"e1", "e2", "e9"}}
    \cup {AiContent("json", 1, [i \in 1 .. n |-> AiHypothesis("AMBIGUOUS", <<"text", "status", "phone">>[i], {"e1"})], <<>>) : n \in {2, 3}}
AiMoment == [hosts |-> {"127.0.0.1"}, reply |-> "ok", models |-> {"qwen"}, digest |-> "d0", content |-> AiPlain]
AiMoments ==
    {[AiMoment EXCEPT !.hosts = hosts] : hosts \in {{}, {"::1"}, {"remote"}, {"127.0.0.1", "remote"}}}
    \cup {[AiMoment EXCEPT !.reply = reply] : reply \in {"timeout", "http error", "down", "redirect", "not json", "not an object"}}
    \cup {[AiMoment EXCEPT !.models = models] : models \in {{}, {"null"}, {"other"}, {"qwen", "other"}}}
    \cup {[AiMoment EXCEPT !.digest = "d1"]}
\* one request meets something else, or all do from some request on
AiWorlds ==
    {[i \in 1 .. 10 |-> IF i = k THEN other ELSE AiMoment] : k \in 1 .. 10, other \in AiMoments}
    \cup {[i \in 1 .. 10 |-> IF i >= k THEN other ELSE AiMoment] : k \in 1 .. 10, other \in AiMoments}
    \cup {[i \in 1 .. 10 |-> IF i = 7 THEN [AiMoment EXCEPT !.content = content] ELSE AiMoment] : content \in AiContents}
AiPolicy == [endpoint |-> "http://127.0.0.1:11434", scheme |-> "http", port |-> 11434, path |-> "", model |-> "qwen", temperature |-> 0]
AiPolicies ==
    {AiPolicy, [AiPolicy EXCEPT !.endpoint = "http://localhost/", !.port = 0], [AiPolicy EXCEPT !.endpoint = "https://127.0.0.1", !.scheme = "https"],
     [AiPolicy EXCEPT !.model = "other"], [AiPolicy EXCEPT !.endpoint = "http://127.0.0.1:80", !.port = 80]}
AiItem(ref, name, kind, size) == [ref |-> ref, fields |-> (name :> kind), size |-> size]
AiItemLists ==
    {items \in {<<>>, <<AiItem("e3", "note", "text", 1)>>, <<AiItem("e3", "email", "text", 1)>>, <<AiItem("e1", "note", "text", 5)>>,
                <<AiItem("e1", "a", "text", 1), AiItem("e2", "a", "text", 1), AiItem("e1", "b", "number", 1)>>}
               \cup {<<AiItem("e1", "note", one, 1), AiItem("e2", "note", "text", 1)>> : one \in {"number", "text", "email", "phone", "secret", "identifier"}} :
        \A i \in DOMAIN items : Ai!ItemValid(items[i])}
AiRequest(hypotheses) ==
    [id |-> "q", task |-> "TABLE_ROLE", subjects |-> <<"t">>, refs |-> <<"e1", "e2", "e9">>, prompt |-> "v1",
     context |-> [purpose |-> "SEMANTIC_AI_LOCAL_ANALYSIS", local |-> TRUE, network |-> FALSE, external |-> FALSE],
     budget |-> [subjects |-> 1, items |-> 2, input |-> 4, refs |-> 3, hypotheses |-> hypotheses, output |-> 2, retries |-> 0]]
AiFiles == [system |-> "s1", hashedSystem |-> "s1", task |-> "t1"]
AdviceCases == [items : AiItemLists, most : {1, 2}]

-----------------------------------------------------------------------------
(* Candidates of which two are each other's reverse, with evidence that is   *)
(* complete, partial or absent, labels in one to three groups, aligned or    *)
(* not; the learner weighs a feature by how it separates the labels.         *)

RankFit(rows, seed) ==
    [coefficients |-> [f \in DOMAIN rows[1].vector.values |-> FoldSeq(LAMBDA r, n : n + (2 * r.label.label - 1) * r.vector.values[f], 0, rows)],
     intercept |-> seed]
Ranking == INSTANCE RankingModel WITH Fit <- RankFit
RankColumn(t, c) == <<t, c>>
RankCandidate(id, t, c, u, d, unique, typed, low) ==
    [id |-> id, fromTable |-> t, from |-> <<RankColumn(t, c)>>, toTable |-> u, to |-> <<RankColumn(u, d)>>, unique |-> unique, typed |-> typed, low |-> low]
RankCandidates ==
    <<RankCandidate(2, "orders", "cust", "people", "id", 100, TRUE, FALSE), RankCandidate(1, "people", "id", "orders", "cust", 40, TRUE, TRUE),
      RankCandidate(3, "orders", "shop", "shops", "id", 90, FALSE, FALSE), RankCandidate(4, "orders", "day", "shops", "id", 40, TRUE, FALSE)>>
RankPartly == [RankCandidates[3] EXCEPT !.id = 4, !.from = <<RankColumn("", "cust")>>]
RankMatch(t, c, u, d, ids, reduced) == [source |-> RankColumn(t, c), target |-> RankColumn(u, d), scores |-> ids, reduced |-> reduced]
RankScore(id, t, c, u, d, matcher, raw, rank) ==
    [id |-> id, source |-> RankColumn(t, c), target |-> RankColumn(u, d), matcher |-> matcher, raw |-> raw, rank |-> rank]
RankFull ==
    [matches |-> <<RankMatch("orders", "cust", "people", "id", {1, 2}, FALSE)>>,
     scores |-> <<RankScore(1, "orders", "cust", "people", "id", "coma", 8, 1), RankScore(2, "orders", "cust", "people", "id", "cupid", 5, 2),
                  RankScore(3, "orders", "shop", "shops", "id", "coma", 4, 3)>>,
     signals |-> 1, profiles |-> <<[column |-> RankColumn("orders", "cust"), observed |-> 4, missing |-> 1, distinct |-> 75],
                                   [column |-> RankColumn("shops", "id"), observed |-> 0, missing |-> 0, distinct |-> 0]>>,
     quality |-> <<[issues |-> {{RankColumn("orders", "shop")}}, failures |-> FALSE]>>,
     inclusions |-> <<[left |-> {RankColumn("orders", "cust")}, right |-> {RankColumn("people", "id")}, coverage |-> 95, unmatched |-> 5, full |-> TRUE, bounded |-> FALSE]>>,
     declared |-> [c \in 1 .. 4 |-> IF c = 3 THEN Ranking!Unseen ELSE c % 2]]
RankNothing ==
    [matches |-> <<>>, scores |-> <<>>, signals |-> Ranking!Unseen, profiles |-> <<>>, quality |-> <<>>, inclusions |-> <<>>,
     declared |-> [c \in 1 .. 4 |-> Ranking!Unseen]]
RankFacts ==
    {RankFull, RankNothing, [RankFull EXCEPT !.inclusions[1].full = FALSE, !.inclusions[1].bounded = TRUE, !.matches[1].reduced = TRUE, !.quality = <<>>]}
RankLabels(groups, labels, shift) ==
    [i \in 1 .. 4 |-> [id |-> 10 + i, candidate |-> RankCandidates[i].id, pair |-> Ranking!PairKey(RankCandidates[IF shift THEN 1 ELSE i]),
                       label |-> labels[i], group |-> groups[i]]]
RankEnv == [seed |-> 3, available |-> TRUE, version |-> "v", labelled |-> TRUE, most |-> 2, permutation |-> <<2, 1, 3, 4>>]
RankingCases ==
    [facts : RankFacts, groups : {<<1, 1, 2, 3>>, <<3, 3, 1, 2>>, <<1, 1, 1, 2>>, <<2, 2, 2, 2>>, <<1, 2, 3, 3>>, <<2, 2, 1, 1>>, <<1, 2, 1, 1>>},
     labels : {<<1, 0, 0, 1>>, <<1, 0, 1, 0>>, <<0, 0, 0, 0>>, <<0, 1, 1, 1>>}]
\* <<candidates, labels, environment>>: labels complete, contradictory, stale or
\* short, and a model that is not installed
RankAsks(labels, doubled) ==
    {<<RankCandidates, labels, env>> : env \in {RankEnv, [RankEnv EXCEPT !.available = FALSE], [RankEnv EXCEPT !.labelled = FALSE]}}
    \cup {<<RankCandidates, given, RankEnv>> :
             given \in {doubled, [labels EXCEPT ![2].id = 11], [labels EXCEPT ![2].candidate = 2], [labels EXCEPT ![4].candidate = 9],
                        SubSeq(labels, 1, 2), <<>>}}
    \cup {<<Append(SubSeq(RankCandidates, 1, 3), RankPartly), SubSeq(labels, 1, 3), RankEnv>>}

-----------------------------------------------------------------------------
(* Scene "evaluation": two tasks, three groups, records that may share tokens *)

EvalBucket(group) == IF group = "g3" THEN "TEST" ELSE "DEVELOPMENT"
Eval == INSTANCE Evaluation WITH Bucket <- EvalBucket
EvalCandidate(id, score, raw) == [id |-> id, score |-> score, raw |-> raw, alt |-> id % 2 = 0, conflict |-> {}, incomplete |-> {}]
EvalQuery(id, group, slices, conflict, incomplete, candidates) ==
    [id |-> id, group |-> group, slices |-> slices, conflict |-> conflict, incomplete |-> incomplete, candidates |-> candidates]
EvalRecord(ref, group, email, phone) == [ref |-> ref, group |-> group, email |-> email, phone |-> phone]
EvalWorld(c) ==
    [relationship |-> <<EvalQuery("q1", "g1", {"type_mismatch"}, c.mark = "conflict", c.mark = "incomplete", <<EvalCandidate(1, c.score, 60), EvalCandidate(2, 50, -1), EvalCandidate(3, 90, 20)>>),
                        EvalQuery("q2", "g2", {}, FALSE, FALSE, <<EvalCandidate(4, c.score, -1), [EvalCandidate(5, 80, -1) EXCEPT !.conflict = {c.mark = "conflict"}]>>),
                        EvalQuery("q3", "g1", {"low_cardinality_trap"}, FALSE, FALSE, <<EvalCandidate(6, 70, -1)>>)>>,
     schema |-> <<EvalQuery("s1", "g1", {}, FALSE, FALSE, <<EvalCandidate(11, 40, -1), EvalCandidate(12, 40, -1)>>),
                  EvalQuery("s2", "g3", {}, FALSE, FALSE, <<EvalCandidate(13, 90, -1), EvalCandidate(14, 10, -1)>>)>>,
     records |-> {EvalRecord(1, "g1", "a", ""), EvalRecord(2, "g1", c.token, c.phone), EvalRecord(3, "g1", "b", c.phone), EvalRecord(4, c.place, "b", "t")}]
EvalTruth(right, entities) ==
    [relationship |-> ("q1" :> {right} @@ "q2" :> {5}), schema |-> ("s1" :> {12} @@ "s2" :> {13}),
     positive |-> UNION {Eval!Pairs(entities[e]) : e \in DOMAIN entities},
     negative |-> Eval!Pairs(1 .. 4) \ UNION {Eval!Pairs(entities[e]) : e \in DOMAIN entities}, clusters |-> entities]
EvalEntities == {(1 :> {1, 2} @@ 2 :> {3, 4}), (1 :> {1, 2, 3} @@ 2 :> {4}), (1 :> {1} @@ 2 :> {2} @@ 3 :> {3} @@ 4 :> {4})}
EvalRoles == {"g1" :> "TEST" @@ "g2" :> "CALIBRATION", "g1" :> "CALIBRATION" @@ "g2" :> "TEST", "g1" :> "TEST" @@ "g2" :> "HOLDOUT"}
EvalProviders == {[p \in Eval!RequiredProviders |-> "EXECUTED"], [p \in Eval!RequiredProviders \ {"entity_resolution"} |-> "EXECUTED"]}
EvalCases ==
    [score : {-1, 40, 50, 90}, mark : {"none", "conflict", "incomplete"}, right : {1, 2, 9}, token : {"a", "b", "missing"}, phone : {"", "t"}, place : {"g1", "g3"}]
EvalReceipts ==
    {[state |-> st, fields |-> fields, sealed |-> sealed, complete |-> complete, hash |-> "h1", post |-> post, fixtures |-> fixtures, population |-> population] :
        st \in {"object", "list", "unreadable", "missing"}, sealed \in BOOLEAN, complete \in BOOLEAN, post \in BOOLEAN,
        fields \in {{"output_artifact", "output_hash", "all"}, {"output_artifact", "output_hash"}, {"output_hash"}, {"output_artifact"}},
        fixtures \in {{}, {"f1"}}, population \in {"", "p1"}}

-----------------------------------------------------------------------------
(* Scene "telemetry": two or three operations reporting to two exporters     *)

Obs == INSTANCE Telemetry
ObsIds(id) == Obs!Context([run_id |-> "plain", job_id |-> id], "run1")
ObsJob(kind, st, age, stage) == [kind |-> kind, status |-> st, age |-> age, stage |-> stage]
ObsQueue == {ObsJob("STAGE", "QUEUED", 3, "PROFILING"), ObsJob("STAGE", "RETRY_WAIT", 7, "COMPILATION"), ObsJob("COMMAND", "SUCCEEDED", 9, ""), ObsJob("STAGE", "QUEUED", 1, "MATERIALIZATION")}
ObsStatuses == {"SUCCEEDED", "NEEDS_REVIEW", "BLOCKED", "FAILED", "CANCELLED"}
ObsWords == {{}, {"SOURCE", "TIMEOUT"}, {"ENGINE", "TIMEOUT"}, {"CANCEL", "SOURCE"}, {"SOURCE", "ACCESS"}, {"UNKNOWN_SIDE_EFFECT"}}
ObsOperations ==
    [op : {"stage"}, stage : {"SOURCE_SNAPSHOT_STAGE", "VALIDATION_RECONCILIATION", "REVIEW_EVIDENCE_DECISIONS"}, status : ObsStatuses \cup {"CANCELLED_BEFORE"}, words : ObsWords]
    \cup [op : {"claim", "finalize"}, stage : {""}, status : Obs!JobStatuses, words : {{}, {"STALE"}}]
    \cup [op : {"review"}, stage : {""}, status : {"ACCEPTED", "REJECTED", "DEFERRED", "SKIPPED", "INVALIDATED"}, words : {{}}]
    \cup [op : {"run"}, stage : {""}, status : ObsStatuses \cup {"CREATED", "RUNNING"}, words : {{}}]
    \cup [op : {"idle"}, stage : {""}, status : {""}, words : {{}}]
    \cup [op : {"api"}, stage : {"plain", "marked", "unsafe"}, status : {"plain", "marked", "unsafe"}, words : {{}, {"raises"}}]
    \cup [op : {"note"}, stage : {""}, status : {""}, words : SUBSET {"secret", "windows_path", "posix_path", "plain"}]
ObsApply(client, o) ==
    CASE o.op = "stage" -> Obs!ExecuteStage(client, ObsIds("plain"), o.stage, o.status, 4, o.words)
      [] o.op = "claim" -> Obs!Claimed(client, ObsIds("plain"), ObsJob("COMMAND", o.status, 0, ""), ObsQueue)
      [] o.op = "finalize" -> Obs!ObserveFinalization(client, ObsIds("plain"), ObsJob("STAGE", o.status, 0, "PROFILING"), o.words,
                                                      IF o.words = {} THEN <<>> ELSE <<"REVIEW_EVIDENCE_DECISIONS", "REVIEW_ANALYTICAL_PLAN">>)
      [] o.op = "review" -> Obs!ObserveReview(client, ObsIds(Obs!Absent), "REVIEW_CANONICAL_IDENTITY", o.status)
      [] o.op = "run" -> Obs!ObserveRunStatus(client, ObsIds(Obs!Absent), o.status)
      [] o.op = "idle" -> Obs!Claimed(client, ObsIds("plain"), <<>>, {})
      [] o.op = "api" -> Obs!ApiRequest(client, o.stage, o.status, o.words # {})
      [] o.op = "note" -> Obs!EmitEvent(client, "test.event", ObsIds("plain"), "OK", [detail |-> o.words])
ObsFirst == {o \in ObsOperations : (o.op \in {"idle", "note"} /\ o.words \in {{}, {"secret"}}) \/ o = [op |-> "claim", stage |-> "", status |-> "QUEUED", words |-> {}]}
TelemetryCases == [first : ObsFirst, second : ObsOperations]
ObsTraces == {Obs!Context([run_id |-> "plain", job_id |-> "plain"], "run1").trace}
ObsAfter(enabled, failing, limit, c) == FoldLeft(ObsApply, Obs!Fresh(enabled, ObsTraces, limit, failing), <<c.first, c.second>>)
ObsBundleTrue(client, bundle, st) ==
    /\ Obs!DegradationTold(client, bundle)
    /\ bundle.stages = [stage \in {"PROFILING"} |-> st]
    /\ \A e \in Range(bundle.events) : e.context.run = "run1"
ObsTrue(client, healthy, silent, store) ==
    /\ Obs!Isolated(client, silent)
    /\ Obs!ExportsIndependent(client, healthy) /\ Obs!MemoryBounded(client) /\ Obs!NothingSecret(client)
    /\ client.events = SubSeq(healthy.events, Max({1, Len(healthy.events) - client.limit + 1}), Len(healthy.events))
    /\ \A span \in Range(client.spans) : span.context.trace \in ObsTraces
    /\ ObsBundleTrue(client, Obs!DiagnosticBundle(client, "run1", store), store.status)

-----------------------------------------------------------------------------
(* Artifacts under review at each checkpoint, and what may happen to one of   *)
(* them before the reviewer answers or after.                                *)

Subjects == INSTANCE ReviewSubjects
SubRef(id, kind) == [id |-> id, kind |-> kind, run |-> "run1", stage |-> "COMPILATION", attempt |-> 1, state |-> "PUBLISHED"]
SubDecision(id, from, policy) == [type |-> "decision", id |-> id, input |-> from, scope |-> <<id, "to">>, policy |-> policy, subject |-> id]
SubAssertion(id, says) == [type |-> "assertion", id |-> id, says |-> says]
SubResult(id, family, links) == [type |-> "er", id |-> id, family |-> family, links |-> links]
SubHypothesis(id, facts) == [type |-> "hypothesis", id |-> id, version |-> "v1", facts |-> facts]
SubProposal(hypothesis, refs, hashes, groups) ==
    [type |-> "proposal", id |-> "p1", hypothesis |-> hypothesis, erRefs |-> refs, erHashes |-> hashes, source |-> "s1", domains |-> <<"A1">>, types |-> <<"order">>, groups |-> groups]
SubPlan(version, of, specs, policy) ==
    [type |-> "plan", id |-> "l1", version |-> version, model |-> of, specs |-> specs, source |-> "s1", policy |-> policy, binding |-> "b1", domains |-> <<"A1">>]
SubTarget(place) == [type |-> "target", engine |-> "duckdb", place |-> place]
SubSql(statements, planHash, kept) == [type |-> "sql", id |-> "q1", plan |-> "l1", planHash |-> planHash, statements |-> statements, quarantine |-> kept]
SubCompiled(statements, place, specs) ==
    [type |-> "compiled", id |-> "c1", plan |-> "l1", planHash |-> "h1", sql |-> "q1", sqlHash |-> statements, target |-> SubTarget(place), compiler |-> "k1",
     domains |-> <<"A1">>, specs |-> specs]
SubEntry(id, kind, body) == [ref |-> SubRef(id, kind), body |-> body]
SubShelf ==
    [REVIEW_EVIDENCE_DECISIONS |->
        <<SubEntry("d1", "RelationshipDecision", SubDecision("d1", "i1", "v1")), SubEntry("d2", "SemanticMappingDecision", SubDecision("d2", "i1", "v1")),
          SubEntry("a1", "DomainAssertion", SubAssertion("A1", "x")), SubEntry("a2", "DomainAssertion", SubAssertion("A1", "x")),
          SubEntry("f1", "EvidenceFusionResult", [type |-> "fusion", decisions |-> {"d9"}])>>,
     REVIEW_CANONICAL_IDENTITY |->
        <<SubEntry("e1", "EntityResolutionResult", SubResult("e1", "customer", {})), SubEntry("e2", "EntityResolutionResult", SubResult("e2", "order", {})),
          SubEntry("p1", "CanonicalIdentityProposal", SubProposal("h1", <<"e1", "e2">>, [customer |-> SubResult("e1", "customer", {}), order |-> SubResult("e2", "order", {})], "g1")),
          SubEntry("h1", "CanonicalModelHypothesis", SubHypothesis("h1", "f1"))>>,
     REVIEW_ANALYTICAL_PLAN |-> <<SubEntry("l1", "AnalyticalPlan", SubPlan("v1", "m1", "s1", "v1")), SubEntry("n1", "Note", [type |-> "note"])>>,
     REVIEW_MATERIALIZATION_PLAN |->
        <<SubEntry("c1", "CompiledPlan", SubCompiled("x", "a", "s1")), SubEntry("q1", "GeneratedSQL", SubSql("x", "h1", {})),
          SubEntry("t1", "TargetConfig", SubTarget("a")), SubEntry("t2", "TargetConfig", SubTarget("b"))>>]
SubBodies ==
    [d1 |-> {SubDecision("d1", "i2", "v1"), SubDecision("d1", "i1", "v2")}, d2 |-> {}, a1 |-> {SubAssertion("A2", "x")}, a2 |-> {SubAssertion("A1", "y")}, f1 |-> {},
     e1 |-> {SubResult("e1", "customer", {"link"}), SubResult("e1", "order", {})}, e2 |-> {SubResult("e2", "order", {"link"})},
     p1 |-> {SubProposal("h1", <<>>, <<>>, "g1"), SubProposal("h1", <<"e1">>, [customer |-> SubResult("e1", "customer", {"link"})], "g2"),
             SubProposal("h9", <<>>, <<>>, "g1"), SubProposal("h1", <<>>, [customer |-> SubResult("e1", "customer", {})], "g1")},
     h1 |-> {SubHypothesis("h1", "f2")}, l1 |-> {SubPlan("v1", "m1", "s2", "v1"), SubPlan("v1", "m2", "s1", "v1"), SubPlan("v1", "m1", "s1", "v2")}, n1 |-> {},
     c1 |-> {SubCompiled("y", "a", "s1"), SubCompiled("x", "b", "s1"), SubCompiled("x", "a", "s2")},
     q1 |-> {SubSql("y", "h1", {}), SubSql("x", "h2", {}), SubSql("x", "h1", {"r1"})}, t1 |-> {SubTarget("b")}, t2 |-> {SubTarget("a")}]
SubWorldOf(shelf, hidden) ==
    LET ids == {shelf[i].ref.id : i \in DOMAIN shelf}
        entry(id) == CHOOSE e \in Range(shelf) : e.ref.id = id
        refs == [id \in ids |-> entry(id).ref]
    IN [run |-> "run1", upstream |-> SelectSeq([i \in DOMAIN shelf |-> shelf[i].ref], LAMBDA ref : ref.id \notin hidden),
        registered |-> refs, stored |-> refs, bytes |-> [id \in ids |-> "VERIFIED"], body |-> [id \in ids |-> entry(id).body]]
SubEdits(checkpoint) ==
    LET ids == {e.ref.id : e \in Range(SubShelf[checkpoint])}
    IN {[id |-> id, what |-> what, body |-> Subjects!Unreadable] : id \in ids, what \in {"corrupt", "foreign", "withdrawn", "retired", "attempt", "unreadable", "unlisted"}}
       \cup UNION {{[id |-> id, what |-> "body", body |-> body] : body \in SubBodies[id]} : id \in ids}
       \cup {[id |-> CHOOSE id \in ids : TRUE, what |-> "nothing", body |-> Subjects!Unreadable]}
SubEdited(w, e) ==
    LET everywhere(new) == [w EXCEPT !.upstream = [i \in DOMAIN @ |-> IF @[i].id = e.id THEN new ELSE @[i]], !.registered[e.id] = new, !.stored[e.id] = new]
        ref == w.registered[e.id]
    IN CASE e.what = "corrupt" -> [w EXCEPT !.bytes[e.id] = "CORRUPT"]
         [] e.what = "foreign" -> everywhere([ref EXCEPT !.run = "run2"])
         [] e.what = "withdrawn" -> [w EXCEPT !.registered[e.id].state = "TOMBSTONED"]
         [] e.what = "retired" -> everywhere([ref EXCEPT !.state = "TOMBSTONED"])
         [] e.what = "attempt" -> everywhere([ref EXCEPT !.attempt = 2])
         [] e.what \in {"unreadable", "body"} -> [w EXCEPT !.body[e.id] = e.body]
         [] e.what = "unlisted" -> [w EXCEPT !.upstream = SelectSeq(@, LAMBDA r : r.id # e.id)]
         [] e.what = "nothing" -> w
SubBefore(c) == SubEdited(SubWorldOf(SubShelf[c.checkpoint], c.hidden), c.first)
SubLaters(c) == {SubEdited(w, e) : w \in {SubBefore(c), SubWorldOf(SubShelf[c.checkpoint], c.hidden)}, e \in SubEdits(c.checkpoint)}
SubDoubts(c) == IF c.checkpoint = "REVIEW_EVIDENCE_DECISIONS" THEN {{}, {"d2"}} ELSE {{}}
SubjectsCases == UNION {{[checkpoint |-> k, first |-> e, hidden |-> h] : e \in SubEdits(k), h \in IF k = "REVIEW_CANONICAL_IDENTITY" THEN {{}, {"h1"}} ELSE {{}}} : k \in DOMAIN SubShelf}

-----------------------------------------------------------------------------
(* Headers of the order product: its columns in any spelling, other tables    *)
(* beside it, and requests to the planner changed in one place.              *)

Planning == INSTANCE PlanningRequests
PlanName(base, exact, safe) == [base |-> base, exact |-> exact, safe |-> safe]
PlanHeader == <<"order_id", "customer_id", "customer_id_ref", "order_date", "quantity", "unit_price">>
PlanColumn(t, n) == [id |-> <<t, n>>, table |-> t, name |-> n]
PlanColumns(t, names) == [i \in DOMAIN names |-> PlanColumn(t, names[i])]
PlanHeaders ==
    LET plain == [i \in DOMAIN PlanHeader |-> Planning!Spelled(PlanHeader[i])]
    IN {plain} \cup {Append(plain, n) : n \in {PlanName("note", TRUE, TRUE), PlanName("note", TRUE, FALSE), PlanName("order_id", FALSE, TRUE), Planning!Spelled("canonical_entity_id")}}
       \cup {<<PlanName("order_id", FALSE, TRUE)>> \o plain}
       \cup {[plain EXCEPT ![i] = n] : i \in DOMAIN plain, n \in {PlanName("note", TRUE, TRUE)}}
       \cup {[plain EXCEPT ![i].exact = FALSE] : i \in DOMAIN plain}
       \cup {[plain EXCEPT ![1] = Planning!Spelled("id")], Reverse(plain)}
PlanningCases ==
    {[source |-> "s1", tables |-> tabs, columns |-> IF first THEN PlanColumns("t1", one) \o PlanColumns("t2", two) ELSE PlanColumns("t2", two) \o PlanColumns("t1", one)] :
        tabs \in {<<[id |-> "t1", name |-> "orders"]>>, <<[id |-> "t1", name |-> "upload"]>>, <<[id |-> "t2", name |-> "people"], [id |-> "t1", name |-> "orders"]>>,
                  <<[id |-> "t1", name |-> "upload"], [id |-> "t2", name |-> "people"]>>},
        one \in PlanHeaders, two \in {<<>>, <<PlanName("order_id", TRUE, TRUE), PlanName("name", TRUE, TRUE)>>}, first \in BOOLEAN}
PlanModel(id) == [id |-> id, hash |-> <<id>>, types |-> {"cet_order"}, relations |-> {"r1"}, entities |-> {"o1", "o2"}]
\* Requests changed in one place
PlanChanges(r) ==
    {r}
    \cup {[r EXCEPT !.facts[1].relations = x] : x \in {{"r1"}, {"r1", Planning!TimeRole, "r9"}, {}}}
    \cup {[r EXCEPT !.relations = x] : x \in {{}, {"r1", Planning!TimeRole}, {"r9"}}}
    \cup {[r EXCEPT !.facts[1].keys = Append(@, Planning!ForeignKey(relation, scope, d, from))] :
            relation \in {"r1", "r9", Planning!TimeRole}, scope \in {"CANONICAL_ACCEPTED", "ANALYTICAL_TIME_ROLE"}, d \in {"dim_order", "dim_x"}, from \in {"order_date", "none"}}
    \cup {[r EXCEPT !.facts[1].keys[1].dimension = "dim_x"], [r EXCEPT !.facts[1].measures = {"grain_orders"}], [r EXCEPT !.facts[1].measures = {"measure_quantity", "m2"}],
          [r EXCEPT !.measures[1].fact = "fact_x"], [r EXCEPT !.measures[1].field = "none"], [r EXCEPT !.measures = @ \o @], [r EXCEPT !.grains[1].id = "grain_x"],
          [r EXCEPT !.grains = Append(@, [@[1] EXCEPT !.id = "grain_x"])], [r EXCEPT !.grains[1].columns = <<"order_id", "order_id">>], [r EXCEPT !.facts[1].table = "t9"],
          [r EXCEPT !.dimensions[1].table = "t9"], [r EXCEPT !.dimensions[1].alternate = <<"name">>], [r EXCEPT !.dimensions[1].key.name = "order_id"],
          [r EXCEPT !.dimensions[2].unknown.key = 0], [r EXCEPT !.dimensions[1].unknown.key = 7], [r EXCEPT !.dimensions[2].range = <<3, 1>>],
          [r EXCEPT !.dimensions[1].attributes = SubSeq(@, 2, 3)], [r EXCEPT !.dimensions = <<@[1], @[1], @[2]>>], [r EXCEPT !.dimensions = <<@[1]>>],
          [r EXCEPT !.state = "ACCEPTED"], [r EXCEPT !.facts[1].event = "cet_x"], [r EXCEPT !.dimensions[1].key.collision = "OVERWRITE"], [r EXCEPT !.dimensions[1].scd = "TYPE2_PREPARED"]}

-----------------------------------------------------------------------------
(* Exposures, deletions and reports an operator may ask for; values of a       *)
(* record that disagree.                                                    *)

PrivacyContexts == {"LOG", "DEBUG", "EXPORT", "UI_PREVIEW", "EXTERNAL_PROCESSING", "RAW_STAGING", "ENTITY_RESOLUTION_LOCAL_ANALYSIS"}
PrivacyPaths == {<<>>, <<"p">>, <<"p", "eph">>, <<"p", "eph", "x">>, <<"p", "eph", "x", "y">>, <<"p", "eph", "staging">>, <<"p", "eph", "staging", "x">>, <<"q">>, <<"p", "src">>}
ViewReports ==
    {[id |-> "v1", hash |-> "h1", run |-> "run1", policy |-> "p1", required |-> {"a", "b"}, checks |-> checks,
      gate |-> IF \A id \in {"a", "b"} : \E c \in checks : c.id = id /\ c.status = "PASS" THEN "PASS"
               ELSE IF \E c \in checks : c.status = "FAIL" THEN "FAIL" ELSE "REVIEW_REQUIRED"] :
        checks \in {{[id |-> "a", status |-> s], [id |-> "b", status |-> t]} : s, t \in {"PASS", "FAIL", "REVIEW_REQUIRED"}} \cup {{[id |-> "a", status |-> "PASS"]}}}
ViewBindings(of) ==
    {[report |-> id, hash |-> hash, run |-> "run1", policy |-> "p1", checks |-> checks, required |-> required] :
        id \in {"v1", "v2"}, hash \in {"h1", "h2"}, checks \in {{"a"}, {"a", "b"}}, required \in {{"a"}, {"a", "b"}}}
ViewProfiles == [sensitivity : {"PUBLIC", "REDACTED", "RESTRICTED"}, evidence : {"OBSERVED", "NOT_OBSERVED"}, points : {{}, {1}}]
PrivacyCases == {{k, l} : k, l \in ValueKinds \ {"none"}}
SurvivorCandidates ==
    {c \in [source : {"a", "b"}, value : {"x", "y", Absent}, state : {"PRESENT", "UNKNOWN", "WITHHELD"}, time : 0 .. 2] :
        c.state = "WITHHELD" => c.value = Absent}
SurvivorCases == {<<c>> : c \in SurvivorCandidates} \cup {<<c, d>> : c, d \in SurvivorCandidates}

-----------------------------------------------------------------------------
PureScenes ==
    {"star", "semantic", "view", "fusion", "sql", "connect", "evidence", "match", "link", "multi",
     "advice", "ranking", "evaluation", "subjects", "planning", "privacy", "survivor", "telemetry", "gates"}
Init ==
    /\ case = Null
    /\ \/ scene \in PureScenes /\ PipelineIdle /\ IdentityIdle /\ ScaleIdle /\ SourceIdle
       \/ scene = "pipeline" /\ PipelineInit /\ IdentityIdle /\ ScaleIdle /\ SourceIdle
       \/ scene = "identity" /\ PipelineIdle /\ IdentityInit /\ ScaleIdle /\ SourceIdle
       \/ scene = "scale" /\ PipelineIdle /\ IdentityIdle /\ ScaleInit /\ SourceIdle
       \/ scene = "source" /\ PipelineIdle /\ IdentityIdle /\ ScaleIdle /\ SourceInit

\* The input of a pure algorithm
Pose ==
    /\ case = Null
    /\ \/ scene = "star" /\ case' \in StarCases
       \/ scene = "semantic" /\ case' \in SemanticCases
       \/ scene = "view" /\ case' \in ViewGraphs
       \/ scene = "fusion" /\ case' \in FusionCases
       \/ scene = "sql" /\ case' \in SqlCases
       \/ scene = "connect" /\ case' \in ConnectCases
       \/ scene = "evidence" /\ case' \in EvidenceCases
       \/ scene = "match" /\ case' \in MatchCases
       \/ scene = "link" /\ case' \in LinkCases
       \/ scene = "multi" /\ case' \in MultiCases
       \/ scene = "advice" /\ case' \in AdviceCases
       \/ scene = "ranking" /\ case' \in RankingCases
       \/ scene = "evaluation" /\ case' \in EvalCases
       \/ scene = "subjects" /\ case' \in SubjectsCases
       \/ scene = "planning" /\ case' \in PlanningCases
       \/ scene = "privacy" /\ case' \in PrivacyCases
       \/ scene = "survivor" /\ case' \in SurvivorCases
       \/ scene = "telemetry" /\ case' \in TelemetryCases
       \/ scene = "gates" /\ case' \in GateCases
    /\ UNCHANGED <<scene, pipeVars, identityVars, scaleVars, sourceVars>>
Posed(name) == scene = name /\ case # Null

Next ==
    \/ Pose
    \/ scene = "pipeline" /\ PipelineNext /\ UNCHANGED <<scene, case, identityVars, scaleVars, sourceVars>>
    \/ scene = "identity" /\ IdentityNext(Metadata) /\ UNCHANGED <<scene, case, pipeVars, scaleVars, sourceVars>>
    \/ scene = "scale" /\ ScaleNext /\ UNCHANGED <<scene, case, pipeVars, identityVars, sourceVars>>
    \/ scene = "source" /\ SourceNext /\ UNCHANGED <<scene, case, pipeVars, identityVars, scaleVars>>

Spec == Init /\ [][Next]_allVars

-----------------------------------------------------------------------------
\* A star schema the compiler did not refuse has every input row loaded once or
\* quarantined once (unless its plan names the column source_record_refs: then
\* no row is loaded and those that would be are in no quarantine either), and every loaded fact points at the member its row names,
\* at the unknown member, or at nothing where that is allowed, whatever the
\* policies and the order of the foreign keys (AnalyticalCompilerService.compile).
\* So has a run over several sources: what it loads are the orders of customers
\* linked on real agreement, each once under its source, the rest is counted as
\* quarantined, and a run that stops leaves the earlier target as it was
\* (MultiSourceProductService.prepare, resume).  Of values that disagree the
\* one with the best claim survives, and the others leave a conflict on record,
\* except those MOST_COMPLETE passes over because none is present
\* (CanonicalFinalizationService.survivorship).  The requests the product policy
\* makes of a clean header pass their contracts and the planner, whatever other
\* tables the source has, and the planner takes no request with a reference that
\* leads nowhere and nothing made for another canonical model
\* (OrderProductPolicy, AnalyticalPlannerService.build_plan).
NothingLost ==
    /\ Posed("planning") =>
        /\ \A aliases \in {<<>>, [order_id |-> {"id", "order_id"}]} : Planning!RequestsSound(case, PlanModel("m1"), "snap1", "r1", aliases)
        /\ Planning!PlansBound(case, PlanModel("m1"), PlanModel("m2"), "snap1", "r1", PlanChanges(Planning!AnalyticalRequest(case, PlanModel("m1"), "r1")))
    /\ Posed("survivor") =>
        \A policy \in {"PREFERRED_SOURCE", "MOST_RECENT_VALID", "MOST_COMPLETE", "CONSENSUS", "REVIEW_REQUIRED"},
           priority \in {<<>>, <<"a">>, <<"b", "a">>, <<"a", "b", "a">>}, more \in {<<>>} \cup {<<c>> : c \in {d \in SurvivorCandidates : d.source = "b" /\ d.time = 1}} :
            SurvivorTrue(policy, case \o more, priority)
    /\ Posed("star") =>
        LET members == [dim_shop |-> MembersOf(case.members), dim_date |-> {}]
            star == Compile(case.design, members, case.rows)
        IN /\ WellPosed(case.design, members, case.rows)
           /\ star.ok => IF KeepsLineage(case.design) THEN Accounts(case.design, case.rows, star) ELSE star.facts = {}
    /\ Posed("multi") =>
        \A engine \in {LinkEngine, [LinkEngine EXCEPT !.trains = FALSE], [LinkEngine EXCEPT !.score = [c \in LinkPairs |-> [p |-> 10, w |-> -4]]]} :
            LET world == MultiWorld(case, engine)
                true(w, said) == Multi!MultiTrue(w, said, [subject |-> "fusion", hash |-> "h"], [facts |-> {}])
            IN /\ \A said \in MultiReviews : true(world, said)
               /\ \A other \in MultiVariants(world) : true(other, [k \in Multi!Checkpoints |-> [subject |-> Null, hash |-> "h"]])

\* A semantic query that is not refused gives the table the source rows give,
\* grouped by the members they name, whatever the time role, the unknown-member
\* policy and the nulls: no join loses, doubles or misplaces a fact
\* (SemanticLayerService.compile_query, DuckDBSemanticQueryExecutor.execute).
QueryMatchesSource ==
    Posed("semantic") =>
        LET members == [dim_shop |-> MembersOf({"s1"}), dim_date |-> {}]
            star == Compile(case.design, members, case.rows)
            loadedStar == IF star.ok THEN Materialize(case.design, star) ELSE Raised
            layer == BuildModel(case.design, "sales", {case.measure}, QueryAttributes, {"ratio"}, loadedStar, case.current)
            loaded == {r \in case.rows : r.ref \notin star.quarantine}
        IN star.ok /\ layer.ok =>
              /\ WellPosed(case.design, members, case.rows)
              /\ \A q \in Requests : /\ QueryPosed(case.design, QueryAttributes, case.rows, q)
                                     /\ AnswersMatch(layer, q, members, loaded)

\* What an operator is shown is what happened.  A view that is not refused
\* shows the nodes a walk of the allowed length reaches and no others, keeps
\* its focus, discloses whatever it leaves out, and never shows a value that is
\* not a number or a plain check status (VisualizationService.build_graph,
\* _bounded_refs, _safe_validation_value).  Telemetry keeps no secret, credential
\* url, e-mail address, canary or drive-letter path of a text, drops the oldest
\* record first and tells of every exporter that failed; and an operation ends
\* the same with exporters that work, exporters that fail and telemetry switched
\* off (TelemetryClient, JobWorker.run_once, execute_with_context,
\* telemetry_request).
ViewTellsTruth ==
    /\ Posed("view") =>
        /\ \A q \in ViewRequests : ViewPosed(case, q) /\ GraphViewTrue(case, q)
        /\ \A kind \in ValueKinds, rule \in FieldRules : DisplayAccepted(Displayed(kind, rule))
        /\ \A profile \in ViewProfiles : ChartPoints(profile) # {} => profile.sensitivity = "PUBLIC" /\ profile.evidence = "OBSERVED"
    /\ Posed("privacy") =>
        /\ \A rule \in FieldRules, context \in PrivacyContexts, purpose \in PrivacyContexts, type \in {"raw", "profile"} :
              NothingLeaks(case, rule, context, purpose, type)
        /\ \A path, root, owned \in PrivacyPaths : CleanupInside(path, root, owned, PrivacyPaths)
        /\ \A report \in ViewReports : \A binding \in ViewBindings(report) : ValidationViewTrue(report, binding)
    /\ Posed("telemetry") =>
        \A failing \in {<<{}, {}>>, <<{"log", "metric", "trace"}, {}>>, <<{"metric"}, {"log"}>>}, limit \in {2, 30} :
            ObsTrue(ObsAfter(TRUE, failing, limit, case), ObsAfter(TRUE, <<{}, {}>>, 30, case), ObsAfter(FALSE, failing, limit, case),
                    [status |-> case.second.status, artifacts |-> [a \in {"a1"} |-> IF case.first.op = "idle" THEN "raises" ELSE "VALID"],
                     jobs |-> <<ObsJob("STAGE", "FAILED", 0, "PROFILING"), ObsJob("COMMAND", "SUCCEEDED", 0, ""), ObsJob("STAGE", case.second.status, 0, "PROFILING")>>])

\* A fusion offered for review left no candidate out, rests on required
\* analyses that all ran to their end and on measurements of the snapshot each
\* candidate names, and rates high only candidates whose types agree, whatever
\* arrived late, twice, from another snapshot or beyond a bound
\* (EvidenceFusionService.fuse).  A checkpoint passes only on contexts that were
\* asked and accepted, whatever was corrupted, withdrawn, replaced or compiled
\* again in between; and while at least one subject can be derived, only on
\* artifacts that are verified, belong to the run and read as they were judged
\* (ReviewCheckpointSubjectResolver.derive, ReviewPolicyService,
\* JobWorker._review_stage_result; AcceptanceIsCurrent says what happens where
\* none can).
ReviewReadyIsSound ==
    /\ Posed("fusion") => \A limits \in Limits : ReadyIsSound(case.policy, case.given, limits)
    /\ Posed("subjects") =>
        /\ \A world \in SubLaters(case) \cup {SubBefore(case)} : Subjects!WorldPosed(world)
        /\ Subjects!SubjectsIntact(SubBefore(case), case.checkpoint)
        /\ \A later \in SubLaters(case), said \in {"ACCEPTED", "REJECTED", "SKIPPED", "INVALIDATED"}, doubtful \in SubDoubts(case) :
            /\ Subjects!ReviewEarned(SubBefore(case), later, case.checkpoint, said, doubtful)
            /\ Subjects!Contexts(later, case.checkpoint) # {} =>
                   Subjects!ReviewCurrent(SubBefore(case), later, case.checkpoint, said, doubtful)

\* Violated: a passed checkpoint always rests on artifacts that stand and read as
\* the reviewer judged them, "Review subject artifact, schema/model version,
\* policy/domain scope or applicability fingerprint change invalidates the
\* dependent review decision" (ARTIFACT_AND_CACHE_LIFECYCLE.md).  When no subject
\* can be derived any more, JobWorker._review_stage_result takes the context the
\* waiting job carries, whatever has become of its artifact.
AcceptanceIsCurrent ==
    Posed("subjects") =>
        \A later \in SubLaters(case), doubtful \in SubDoubts(case) :
            Subjects!ReviewCurrent(SubBefore(case), later, case.checkpoint, "ACCEPTED", doubtful)

\* Nothing a source session or dlt runs writes to a source database; a bounded
\* extraction takes a prefix of every table and says FULLY_OBSERVED only of
\* tables it took whole, wherever the bound falls; a SQLite catalog lists
\* exactly the selected tables, a provider's every selected table and no table
\* that was not named, where names are given (exclusions it does not know), and
\* neither a view nobody asked for; and a provider is connected to only through
\* the driver of its engine with a read-only credential verified for this very
\* source, on the host of the profile where the profile names one
\* (classify_query, _install_sqlite_authorizer, DltSqlSourceAdapter).
DatabaseReadAsGranted ==
    /\ Posed("sql") =>
        /\ \A s \in Statements : Sql!NeverWrites(s) /\ Sql!GuardKeepsOut(s)
        /\ \A said \in DriverTexts : Sql!NotRetried(said)
        /\ \A policy \in RowBounds : Sql!ExtractionTrue(policy, <<case.orders, case.people>>)
        /\ \A chosen, configured \in DbScopes : Sql!CatalogTrue({case.orders, case.people}, chosen, configured)
        /\ \A chosen \in DbScopes : Sql!ProviderCatalogTrue({case.orders, case.people}, chosen)
        /\ Sql!ConstraintsTrue(case.orders)
        /\ \A path \in DbPaths, on \in {0, 1} : Sql!Confined(path, on)
        /\ \A request \in SampleRequests, n \in 0 .. 2 : Sql!SampleTrue(request, SubSeq(SampleRows, 1, n))
    /\ Posed("connect") =>
        \A granted \in SUBSET {"SELECT", "INSERT", "SUPER"} :
            /\ \A setup \in Setups : Sql!ConnectionEarned(setup, "db", case.credentials, "all", case.verification, Need, granted)
            /\ \A setup \in Setups : Sql!NoVerifierNoConnection("db", setup.profile, case.credentials, "all", Need)

\* What is said of a snapshot is true of its staged rows: a complete profile
\* counted every row it was asked for, a rule said to apply names exactly the
\* rows at fault, a listed dependency holds of the rows it counts, what could
\* not be read or finished is never reported as complete, and a rule that could
\* not be decided leaves its dimension inconclusive, whatever the damage, the
\* bounds and the null markers (ProfilingService.profile,
\* QualityAnalysisService.analyze, DesbordanteDependencyAdapter.discover; what a
\* rule that failed leaves its dimension is FailureIsNotClean's).
EvidenceMatchesRows ==
    Posed("evidence") =>
        /\ \A ask \in ProfileAsks, draws \in Draws, most \in {1, 5} :
               Dep!RequestValid(ask) => Dep!ProfileTrue(ask, case, ColumnSets, draws, most)
        /\ \A ask \in {x \in ProfileAsks : x.columns = {} /\ Dep!RequestValid(x)}, rules \in QualityRuleLists, bound \in {1, 9} :
               (\A k \in DOMAIN rules : Dep!RuleValid(rules[k])) =>
                   QualityOf(rules, Dep!Profile(ask, case, ColumnSets, [i \in 1 .. 3 |-> 0], 5), bound)
        /\ \A ask \in DepAsks, engine \in DepEngines : Dep!DepRequestValid(ask) => Dep!DependenciesTrue(ask, case, DepCatalog, engine)

\* Violated: a rule that could not be looked at is never turned into a clean
\* bill: "an incomplete prerequisite is not `MEASURED`" (QUALITY_VECTOR.md) and
\* "it is never converted to zero defects or a PASS" (QUALITY_CONTRACT.md).
\* QualityAnalysisService._dimension_summaries reports a dimension all of whose
\* rules failed as MEASURED with no affected record.
FailureIsNotClean ==
    Posed("evidence") =>
        \A ask \in {x \in ProfileAsks : x.columns = {} /\ Dep!RequestValid(x)}, rules \in QualityRuleLists, bound \in {1, 9}, default \in BOOLEAN :
            LET profiles == Dep!Profile(ask, case, ColumnSets, [i \in 1 .. 3 |-> 0], 5)
            IN profiles.ok /\ (\A k \in DOMAIN rules : Dep!RuleValid(rules[k])) /\ Dep!RuleSetValid(rules, default) =>
                   Dep!FailedUnmeasured(rules, Dep!Analyze(QualityAsk(rules, profiles, "s1", default), case, profiles, EvidenceColumns, bound))

\* The release record is judged alike by every later validator: after each
\* accepted step the steps so far, and only those, are recognised under every
\* later pointer, and a record edited by hand never passes a gate ahead of its
\* step (execution_state.prior_gate_state_is_coherent and the step predicates).
ReleaseRecordJudged ==
    Posed("gates") =>
        /\ Gates!HandoverTrue(Handover(case.done), case.done)
        /\ Gates!EditJudged(Edited(Handover(case.done), case.kind, case.x), case.done, case.kind, case.x)

\* What the matching and linking engines return stays bounded evidence: a
\* complete match lists exactly the pairs of columns worth listing and nothing
\* outside the selected ones; clusters are the connected components of the
\* authorized edges, and one offered as a candidate is a clique without
\* conflicting anchors; rows are read only under the last grant issued for
\* exactly these batches (ValentineSchemaMatchingAdapter.discover,
\* SplinkEntityResolutionAdapter.run, the verify_*_authorization methods).
MatchesAreEvidence ==
    /\ Posed("match") /\ Mat!RequestValid(case) =>
        LET of(f) == [s \in Range(case.scope.sources) |-> f[s]]
        IN
        /\ \A provider \in MatchProviders, intact \in BOOLEAN :
            /\ \A g \in IF Mat!Instances(case) THEN MatchGrants(case) ELSE {[service |-> NoGrants, grant |-> Mat!NoGrant]} :
                   Mat!MatchTrue(case, of(MatchCatalogs), of(MatchStaged(intact)), g.service, g.grant, provider)
            /\ \A context \in MatchContexts :
                   Mat!ServiceTrue([case EXCEPT !.context = context], of(MatchCatalogs), of(MatchStaged(intact)), NoGrants, provider, 1)
        /\ \A context \in {AnalysisContext("DEPENDENCY", network, temp) : network \in BOOLEAN, temp \in {"inside", "outside"}} :
               \A s \in Range(case.scope.sources) :
                   Mat!DependencyGrantTrue(NoGrants, context, SourceScope(case.scope, s), {SourceScope(case.scope, x) : x \in Range(case.scope.sources)}, <<"b1">>)
    /\ Posed("link") =>
        LET from(intact) == LinkStaged(case.shape, case.r2, case.r3, intact)
            first(spec) == Link!AuthorizeLinking(NoGrants, spec.context, spec.scope, Link!BatchesOf(spec, from(TRUE)), 1)
            true(spec, staging, g, engine) == Link!LinksTrue(spec, LinkCatalogs(case.shape), staging, g.service, g.grant, engine)
        IN \A spec \in LinkSpecs(case) :
            /\ \A engine \in LinkEngines \cup BrokenEngines : true(spec, from(TRUE), first(spec), engine)
            /\ \A other \in LinkVariants(spec) : true(other, from(TRUE), first(other), LinkEngine)
            /\ \A g \in LinkGrants(spec, from(TRUE)), intact \in BOOLEAN : true(spec, from(intact), g, LinkEngine)

\* Violated: strong evidence of a link rests on two identity fields that agree,
\* "a single matching field can never become strong evidence through the weight
\* alone" (SplinkEntityResolutionAdapter._prediction_band) and "still requiring
\* two independent agreements" (MultiSourceProductService._er_spec).
\* _independent_evidence counts bindings: a field bound in both sources of a
\* link, as the product binds every one, counts twice.
StrongNeedsTwoFields ==
    Posed("link") /\ case.shape = "both" /\ case.mode = "LINK_ONLY" =>
        LET from == LinkStaged(case.shape, case.r2, case.r3, TRUE)
        IN \A spec \in LinkSpecs(case) :
            LET g == Link!AuthorizeLinking(NoGrants, spec.context, spec.scope, Link!BatchesOf(spec, from), 1)
            IN \A engine \in LinkEngines : Link!LinksIndependent(spec, LinkCatalogs(case.shape), from, g.service, g.grant, engine)

\* A suggestion never becomes more than a candidate: the context of a request
\* is sent cleaned, within its budgets, to a loopback host and after the verified
\* model was listed as installed; evidence is kept only if it is listed again
\* afterwards (what answers in between is not looked at), cites only items that
\* were sent and holds no word of authority, whatever the provider answers or
\* becomes in between (SemanticEvidenceService.analyze,
\* OllamaSemanticEvidenceAdapter.generate).  A learned ranking whose labels have
\* ids of their own trains on nothing of a held-out group or of its reversed
\* pairs; none takes an absent measurement for a zero, and each is explained by
\* its contributions and reads back from its file unchanged or not at all
\* (AppliedMLService.rank, make_grouped_split, SklearnRelationshipRanker).
AdviceStaysAdvice ==
    /\ Posed("ranking") =>
        /\ Ranking!SchemaValid(Ranking!FeatureOrder, Ranking!FeatureOrder)
        /\ \A ask \in RankAsks(RankLabels(case.groups, case.labels, FALSE), RankLabels(case.groups, case.labels, TRUE)) :
               Ranking!RankingTrue(ask[1], ask[2], case.facts, ask[3])
    /\ Posed("advice") =>
        LET request == AiRequest(case.most)
            list == {AiPlain, AiContent("json", 1, <<AiHypothesis("SUPPORTS", "email", {"e1"})>>, <<"text">>), AiContent("text", 1, <<>>, <<>>)}
            answer(content) == Ai!Analyze(request, case.items, AiPolicy, AiFiles,
                                          [i \in 1 .. 10 |-> IF i = 7 THEN [AiMoment EXCEPT !.content = content] ELSE AiMoment])
        IN /\ Ai!RequestValid(request) /\ \A policy \in AiPolicies : Ai!PolicyValid(policy)
           /\ \A policy \in AiPolicies, world \in AiWorlds : Ai!AdviceTrue(request, case.items, policy, AiFiles, world)
           /\ \A files \in {[AiFiles EXCEPT !.task = "absent"], [AiFiles EXCEPT !.hashedSystem = "s2"]} :
                  Ai!AdviceTrue(request, case.items, AiPolicy, files, [i \in 1 .. 10 |-> AiMoment])
           /\ \A one, two, three \in list : Ai!RepetitionTrue(<<answer(one), answer(two), answer(three)>>)

\* An evaluation claims no more than its held-out rows show: test rows and
\* tuning rows come from different groups, the counts of predictions, errors,
\* bands and metrics agree with each other, clusters and pairs tell the same
\* story, ranks do not depend on the order of the input, a provider's output
\* counts only as it was sealed, and review-only validity needs the reversed
\* pairs checked and every provider run; otherwise nothing is written
\* (InferenceEvaluationService.run, metrics.py, bind_provider_output).
EvaluationIsHonest ==
    Posed("evaluation") =>
        LET world == EvalWorld(case)
            true(entities, roles, providers) == Eval!ReportTrue(world, EvalTruth(case.right, entities), roles, providers, "FAILED")
            reversed == {<<"g1", "g2">>}
        IN /\ \A entities \in EvalEntities : true(entities, CHOOSE r \in EvalRoles : r["g1"] = "TEST", CHOOSE p \in EvalProviders : TRUE)
           /\ \A roles \in EvalRoles : true(CHOOSE e \in EvalEntities : TRUE, roles, CHOOSE p \in EvalProviders : TRUE)
           /\ \A providers \in EvalProviders : true(CHOOSE e \in EvalEntities : TRUE, CHOOSE r \in EvalRoles : TRUE, providers)
           /\ \A roles \in EvalRoles :
                  Eval!LeakagePass(Eval!LeakageAudit(Eval!AssignGroups({"g1", "g2", "g3"}, roles), reversed)) => roles["g1"] = roles["g2"]
           /\ \A c \in Eval!MlCandidates(world.relationship) :
                  Cardinality({l \in Eval!MlLabels(world.relationship, EvalTruth(case.right, <<>>).relationship) : l.candidate = c.id /\ l.pair = {c.from, c.to}}) = 1
           /\ case = [score |-> 50, mark |-> "none", right |-> 1, token |-> "a", phone |-> "t", place |-> "g1"] =>
                  \A receipt \in EvalReceipts, output \in {"", "h1", "h2"} :
                      (Eval!Binding(receipt, output, {"f1"}, "p1").status = "EXECUTED") <=>
                          receipt = [state |-> "object", fields |-> {"output_artifact", "output_hash", "all"}, sealed |-> TRUE, complete |-> TRUE, hash |-> output,
                                     post |-> FALSE, fixtures |-> {"f1"}, population |-> "p1"]
           /\ \A kind \in {"orphan", "duplicate_target", "null_heavy", "missing_candidate", "multiple_target", "composite", "same_domain"}, n \in {1, 7} :
                  LET tables == Eval!ScenarioTables(kind, 7, IF kind = "orphan" THEN n ELSE 0)
                  IN /\ Eval!ObservedOrphans(tables) = (IF kind = "orphan" THEN n ELSE 0)
                     /\ \A k \in Range(tables.orders) : k.kind = "customer" <=> k \in Range(tables.customers)
=============================================================================
