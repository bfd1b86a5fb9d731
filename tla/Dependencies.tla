---------------------------- MODULE Dependencies ----------------------------
(***************************************************************************)
(* Discovery of keys, functional and inclusion dependencies over staged     *)
(* tables (adapters/dependencies/desbordante.py and staged.py,              *)
(* domain/contracts/dependency.py).  The search engine is external: it is    *)
(* given the encoded rows and returns what holds of them; the metrics of    *)
(* what it found are computed again from the staged rows.                   *)
(*                                                                          *)
(*   catalog : a sequence of [table, columns, types]                         *)
(*   policy  : [nulls, maxTables, maxColumns, maxPairs, ucc, fd, maxOutput,  *)
(*              lowLimit, kinds, granted]                                    *)
(*   engine  : [available, fails, late, slow], fails and late the calls that *)
(*              raise and that run out of time                               *)
(***************************************************************************)
EXTENDS QualityRules

\* the members of a set in some order
Listed(S) == FoldSet(LAMBDA x, list : Append(list, x), <<>>, S)
Total(numbers) == FoldLeft(LAMBDA a, b : a + b, 0, numbers)

-----------------------------------------------------------------------------
(* Input.                                                                   *)

\* DependencyStagedReader.iter_table: unlike the quality reader it reconciles
\* the batches with the observation.
ReconciledWith(snapshot, t, batches) ==
    /\ t \in DOMAIN snapshot.seen
    /\ snapshot.rows[t] > 0 => Total([i \in DOMAIN batches |-> batches[i].counted]) = snapshot.rows[t]
    /\ \A i \in DOMAIN batches : BatchBound(batches[i], snapshot)
Reconciled(snapshot, t) == ReconciledWith(snapshot, t, BatchesOf(snapshot, t))

\* The tables and columns left after the bounds
Bounded(catalog, policy) ==
    [i \in 1 .. Min({Len(catalog), policy.maxTables}) |->
        [catalog[i] EXCEPT !.columns = SubSeq(@, 1, Min({Len(@), policy.maxColumns}))]]
Pairs(tables) == Total([i \in DOMAIN tables |-> Total([j \in DOMAIN tables |->
                     IF i = j THEN 0 ELSE Len(tables[i].columns) * Len(tables[j].columns)])])
\* _search_stats: why the search is not the whole one
Truncations(catalog, chosen, policy) ==
    (IF \E i \in DOMAIN catalog : Len(catalog[i].columns) > (IF i \in DOMAIN chosen THEN Len(chosen[i].columns) ELSE 0)
     THEN {"max_columns_per_table"} ELSE {})
    \cup (IF Len(chosen) < Len(catalog) THEN {"max_tables"} ELSE {})
    \cup (IF Pairs(chosen) > policy.maxPairs THEN {"max_column_pairs"} ELSE {})

-----------------------------------------------------------------------------
(* Values: what the engine is given, and what the metrics compare.          *)

IsNull(v) == v.kind = "null"
\* _row_eligible: with EXCLUDE, no null in any projected column
Eligible(row, columns, nulls) == nulls = "EXCLUDE" => \A c \in Range(columns) : ~IsNull(row.cells[c])
\* _metric_value: a null is a value of its own, or unlike every other
MetricValue(row, i, c, nulls) ==
    IF IsNull(row.cells[c]) /\ nulls = "BREAK" THEN <<"row", c, i>> ELSE <<row.cells[c].kind, "", row.cells[c].id>>
MetricTuple(rows, i, columns, nulls) == [k \in DOMAIN columns |-> MetricValue(rows[i], i, columns[k], nulls)]
\* _encode_cell, _write_engine_input: the relation the engine reads
Encoded(rows, columns, nulls) ==
    [i \in {k \in DOMAIN rows : Eligible(rows[k], columns, nulls)} |->
        [c \in Range(columns) |-> MetricValue(rows[i], i, c, nulls)]]

\* External: minimal unique column sets, minimal determinants, inclusions
Small(S, n) == {x \in SUBSET S : x # {} /\ Cardinality(x) <= n}
Minimal(S) == {x \in S : \A y \in S : y \subseteq x => y = x}
Agree(rel, i, j, C) == \A c \in C : rel[i][c] = rel[j][c]
ProviderUcc(rel, columns, arity) ==
    Minimal({C \in Small(Range(columns), arity) : \A i, j \in DOMAIN rel : Agree(rel, i, j, C) => i = j})
ProviderFd(rel, columns, arity) ==
    UNION {{[lhs |-> L, rhs |-> c] :
              L \in Minimal({C \in Small(Range(columns) \ {c}, arity) : \A i, j \in DOMAIN rel : Agree(rel, i, j, C) => rel[i][c] = rel[j][c]})} :
           c \in Range(columns)}
ProviderInd(rel1, rel2, columns1, columns2) ==
    {<<a, b>> \in Range(columns1) \X Range(columns2) : \A i \in DOMAIN rel1 : \E j \in DOMAIN rel2 : rel1[i][a] = rel2[j][b]}

-----------------------------------------------------------------------------
(* Metrics, from the staged rows.                                           *)

\* _discover_keys: a null equals a null here, whatever the policy says
UccMetrics(rows, columns, C, nulls) ==
    LET eligible == {i \in DOMAIN rows : Eligible(rows[i], columns, nulls)}
        distinct == {[c \in C |-> ValueKey(rows[i].cells[c])] : i \in eligible}
    IN [eligible |-> Cardinality(eligible), distinct |-> Cardinality(distinct),
        missing |-> Len(rows) - Cardinality(eligible), duplicates |-> Cardinality(eligible) - Cardinality(distinct)]

\* _fd_metrics: the alternatives of a determinant beyond its first
FdMetrics(rows, columns, lhs, rhs, nulls) ==
    LET eligible == {i \in DOMAIN rows : Eligible(rows[i], columns, nulls)}
        groups == {MetricTuple(rows, i, lhs, nulls) : i \in eligible}
        images(g) == {MetricValue(rows[i], i, rhs, nulls) : i \in {k \in eligible : MetricTuple(rows, k, lhs, nulls) = g}}
    IN [eligible |-> Cardinality(eligible), violations |-> MapThenSumSet(LAMBDA g : Cardinality(images(g)) - 1, groups)]

\* _ind_metrics: only the compared columns decide which rows take part
IndMetrics(left, right, a, b, nulls) ==
    LET used(rows, c) == {i \in DOMAIN rows : nulls = "EXCLUDE" => ~IsNull(rows[i].cells[c])}
        values(rows, c) == {MetricValue(rows[i], i, c, nulls) : i \in used(rows, c)}
        orphans == {i \in used(left, a) : MetricValue(left[i], i, a, nulls) \notin values(right, b)}
    IN [leftRows |-> Cardinality(used(left, a)), leftDistinct |-> Cardinality(values(left, a)),
        rightRows |-> Cardinality(used(right, b)), rightDistinct |-> Cardinality(values(right, b)),
        orphans |-> {left[i].ref : i \in orphans}, covered |-> Cardinality(values(left, a) \cap values(right, b))]

\* _types_compatible
Compatible(x, y) == x = y \/ {x, y} \in {{"integer", "numeric"}, {"string", "unknown"}}
\* a candidate relationship: a target that is unique and not a small domain
LowCardinality(m, policy) == m.rightDistinct <= policy.lowLimit
Related(m, compatible, policy) == ~LowCardinality(m, policy) /\ compatible /\ m.rightRows > 0 /\ m.rightDistinct = m.rightRows

-----------------------------------------------------------------------------
(* The search: discover.                                                    *)

DepFailed(kinds) == [status |-> "FAILED", failures |-> kinds, uccs |-> <<>>, fds |-> <<>>, inds |-> <<>>, rels |-> <<>>]
\* DependencySearchPolicy, DependencyPrivacyContext.fail_closed
DepRequestValid(request) == request.local /\ request.temp = "inside" /\ request.policy.maxOutput > 0
\* _validate_entry
EntryValid(request, snapshot, catalog) ==
    /\ request.snapshot = snapshot.id /\ request.tables \subseteq {catalog[i].table : i \in DOMAIN catalog}
EntryGranted(request, snapshot) == request.granted = [snapshot |-> snapshot.id, tables |-> request.tables, network |-> FALSE]


UccsOf(t, rows, policy, found) ==
    [i \in DOMAIN found |-> [table |-> t.table, columns |-> found[i], metrics |-> UccMetrics(rows, t.columns, found[i], policy.nulls)]]
FdsOf(t, rows, policy, found) ==
    [i \in DOMAIN found |-> [table |-> t.table, lhs |-> found[i].lhs, rhs |-> found[i].rhs,
                             metrics |-> FdMetrics(rows, t.columns, Listed(found[i].lhs), found[i].rhs, policy.nulls)]]
IndOf(l, r, x, rowsOf, policy) ==
    [left |-> l.table, right |-> r.table, from |-> x.from, to |-> x.to, compatible |-> Compatible(l.types[x.from], r.types[x.to]),
     metrics |-> IndMetrics(rowsOf[l.table], rowsOf[r.table], x.from, x.to, policy.nulls)]
IndsOf(tables, rowsOf, policy, found) ==
    [i \in DOMAIN found |-> IndOf(tables[found[i].left], tables[found[i].right], found[i], rowsOf, policy)]
UccEvidence(tables, rowsOf, policy, failing) ==
    FlattenSeq([k \in DOMAIN tables |->
        IF "UCC" \notin policy.kinds \/ <<"ucc", tables[k].table>> \in failing THEN <<>>
        ELSE UccsOf(tables[k], rowsOf[tables[k].table], policy,
                    Listed(ProviderUcc(Encoded(rowsOf[tables[k].table], tables[k].columns, policy.nulls), tables[k].columns, policy.ucc)))])
FdEvidence(tables, rowsOf, policy, failing) ==
    FlattenSeq([k \in DOMAIN tables |->
        IF "FD" \notin policy.kinds \/ <<"fd", tables[k].table>> \in failing THEN <<>>
        ELSE FdsOf(tables[k], rowsOf[tables[k].table], policy,
                   Listed(ProviderFd(Encoded(rowsOf[tables[k].table], tables[k].columns, policy.nulls), tables[k].columns, policy.fd)))])
IndEvidence(tables, rowsOf, policy, failing) ==
    IF "IND" \notin policy.kinds \/ <<"ind", "">> \in failing THEN <<>>
    ELSE LET rel(k) == Encoded(rowsOf[tables[k].table], tables[k].columns, policy.nulls)
         IN IndsOf(tables, rowsOf, policy,
                   Listed(UNION {{[left |-> k, right |-> n, from |-> x[1], to |-> x[2]] :
                                     x \in ProviderInd(rel(k), rel(n), tables[k].columns, tables[n].columns)} :
                                 <<k, n>> \in {y \in (DOMAIN tables) \X (DOMAIN tables) : y[1] # y[2]}}))
\* RelationshipCandidate.enforce_candidate_only: never more than a candidate
RelationshipsOf(inds, policy) == SelectSeq(inds, LAMBDA x : Related(x.metrics, x.compatible, policy))
Calls(tables, policy) ==
    {<<kind, tables[k].table>> : kind \in {x \in {"ucc", "fd"} : [ucc |-> "UCC", fd |-> "FD"][x] \in policy.kinds}, k \in DOMAIN tables}
    \cup {<<"ind", "">> : x \in policy.kinds \cap {"IND"}}

\* what still fits when used entries have been emitted
FirstOf(list, used, most) == SubSeq(list, 1, Max({0, Min({Len(list), most - used})}))
Emitted(policy, complete, failures, uccs, fds, inds, rels) ==
    [status |-> IF complete /\ failures = {} /\ 2 * Len(uccs) + Len(fds) + Len(inds) + Len(rels) <= policy.maxOutput
                THEN "COMPLETE" ELSE "INCOMPLETE",
     failures |-> failures, uccs |-> FirstOf(uccs, 0, policy.maxOutput), fds |-> FirstOf(fds, 2 * Len(uccs), policy.maxOutput),
     inds |-> FirstOf(inds, 2 * Len(uccs) + Len(fds), policy.maxOutput),
     rels |-> FirstOf(rels, 2 * Len(uccs) + Len(fds) + Len(inds), policy.maxOutput)]
EmittedWith(policy, complete, failures, uccs, fds, inds) ==
    Emitted(policy, complete, failures, uccs, fds, inds, RelationshipsOf(inds, policy))
SearchTables(tables, rowsOf, policy, complete, failures, engine) ==
    EmittedWith(policy, complete, failures, UccEvidence(tables, rowsOf, policy, engine.fails),
                FdEvidence(tables, rowsOf, policy, engine.fails), IndEvidence(tables, rowsOf, policy, engine.fails))
\* one call for each kind and table, until one runs out of time
CallEngine(tables, snapshot, policy, bounds, cut, calls, engine) ==
    LET failures == cut \cup {"ENGINE_FAILED" : c \in calls \cap engine.fails} \cup {"BUDGET_EXCEEDED" : x \in {TRUE} \cap {engine.slow}}
    IN IF calls \cap engine.late # {} THEN DepFailed(failures \cup {"BUDGET_EXCEEDED"})
       ELSE SearchTables(tables, [t \in {x.table : x \in Range(tables)} |-> StagedRows(snapshot, t)], policy,
                         bounds = {} /\ \A x \in Range(tables) : snapshot.seen[x.table] = "FULLY_OBSERVED", failures, engine)
SearchWithin(asked, tables, snapshot, policy, bounds, cut, engine) ==
    IF \E x \in Range(tables) : ~Reconciled(snapshot, x.table) THEN DepFailed({"STAGED_INPUT_INTEGRITY_FAILED"})
    ELSE IF Pairs(asked) > policy.maxPairs THEN DepFailed(cut \cup {"BUDGET_EXCEEDED"})
    ELSE IF ~engine.available THEN DepFailed(cut \cup {"CAPABILITY_UNAVAILABLE"})
    ELSE CallEngine(tables, snapshot, policy, bounds, cut, Calls(tables, policy), engine)
SearchBounded(asked, tables, snapshot, policy, bounds, engine) ==
    SearchWithin(asked, tables, snapshot, policy, bounds,
                 IF bounds \cap {"max_tables", "max_columns_per_table"} # {} THEN {"BUDGET_EXCEEDED"} ELSE {}, engine)
SearchSome(asked, tables, snapshot, policy, engine) ==
    SearchBounded(asked, tables, snapshot, policy, Truncations(asked, tables, policy), engine)
SearchAsked(asked, snapshot, policy, engine) == SearchSome(asked, Bounded(asked, policy), snapshot, policy, engine)
Discover(request, snapshot, catalog, engine) ==
    IF ~EntryValid(request, snapshot, catalog) THEN DepFailed({"INPUT_INVALID"})
    ELSE IF ~EntryGranted(request, snapshot) THEN DepFailed({"PRIVACY_BLOCKED"})
    ELSE SearchAsked(SelectSeq(catalog, LAMBDA t : t.table \in request.tables), snapshot, request.policy, engine)

-----------------------------------------------------------------------------
(* What the discovery promises.                                             *)

\* A complete search read every row of every table asked for and lists every
\* column on which no two rows agree; with nulls excluded, what it lists holds
\* of the rows it counted; a candidate relationship leads to rows told apart
\* by their key; and nothing is found where the search was not allowed.
KeyedBy(rows, C) == \A r, s \in rows : (\A c \in C : r.cells[c] = s.cells[c]) => r.ref = s.ref
KeysTrue(t, rows, columns, uccs) ==
    \A c \in columns :
        KeyedBy({r \in rows : \A x \in columns : ~IsNull(r.cells[x])}, {c})
            <=> \E i \in DOMAIN uccs : uccs[i].table = t /\ uccs[i].columns = {c}
RelationTrue(rel, left, targets) ==
    /\ KeyedBy(targets, {rel.to})
    /\ rel.metrics.orphans = {r.ref : r \in {y \in left : ~IsNull(y.cells[rel.from]) /\ \A s \in targets : s.cells[rel.to] # y.cells[rel.from]}}
DiscoveryTrue(request, snapshot, catalog, result) ==
    /\ result.status = "FAILED" => result.uccs = <<>> /\ result.rels = <<>> /\ result.failures # {}
    /\ result.status = "COMPLETE" => \A t \in request.tables :
         /\ snapshot.seen[t] = "FULLY_OBSERVED" /\ snapshot.rows[t] = Len(StagedRows(snapshot, t))
         /\ request.policy.nulls = "EXCLUDE" /\ "UCC" \in request.policy.kinds =>
              KeysTrue(t, Range(StagedRows(snapshot, t)),
                       UNION {Range(catalog[i].columns) : i \in {k \in DOMAIN catalog : catalog[k].table = t}}, result.uccs)
    /\ request.policy.nulls = "EXCLUDE" =>
         /\ \A i \in DOMAIN result.uccs : result.uccs[i].metrics.duplicates = 0
         /\ \A i \in DOMAIN result.fds : result.fds[i].metrics.violations = 0
         /\ \A x \in Range(result.rels) :
                RelationTrue(x, Range(StagedRows(snapshot, x.left)),
                             {r \in Range(StagedRows(snapshot, x.right)) : ~IsNull(r.cells[x.to])})
    /\ result.status # "FAILED" => request.granted.snapshot = snapshot.id /\ ~request.granted.network
DependenciesTrue(request, snapshot, catalog, engine) ==
    DiscoveryTrue(request, snapshot, catalog, Discover(request, snapshot, catalog, engine))
=============================================================================
