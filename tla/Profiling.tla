----------------------------- MODULE Profiling -----------------------------
(***************************************************************************)
(* Profiles of staged tables (application/profiling.py,                     *)
(* adapters/profiling/dataprofiler.py, domain/contracts/profiling.py).      *)
(*                                                                          *)
(*   value    : [kind, id, length, patterns, padded, date, finite]; id tells *)
(*              the values of a kind apart, and is the number of an integer  *)
(*   row      : [ref, cells], cells a function from column names             *)
(*   batch    : [table, snapshot, state, place, intact, counted, rows]       *)
(*   snapshot : [id, mode, batches, seen], seen the observation status of    *)
(*              each table it covers                                         *)
(***************************************************************************)
EXTENDS Integers, Sequences, FiniteSets, SequencesExt, FiniteSetsExt, Functions

Unknown == -1
Refusal == [ok |-> FALSE]
Kinds == {"boolean", "integer", "real", "datetime", "string", "nested"}
PatternTypes == {"EMAIL_LIKE", "DATE_STRING"}

-----------------------------------------------------------------------------
(* One column: _ColumnAccumulator.                                          *)

ValueKey(v) == <<v.kind, v.id>>
Marked(v, markers) == v.kind = "string" /\ v.id \in markers
Absent(v, markers) == v.kind = "null" \/ Marked(v, markers)
Numeric(v) == v.kind \in {"integer", "real"} /\ v.finite
Parsed(v) == v.kind = "datetime" \/ (v.kind = "string" /\ v.date # "none")

Fresh == [rows |-> 0, nulls |-> 0, marked |-> 0, present |-> 0, kinds |-> [k \in Kinds |-> 0],
          distinct |-> {}, overflow |-> FALSE, lengths |-> <<>>, numbers |-> <<>>, kept |-> <<>>,
          dates |-> 0, zones |-> <<>>, patterns |-> [x \in PatternTypes |-> 0]]

Counted(acc, v, limit) ==
    LET seen == acc.distinct \cup {ValueKey(v)}
        over == acc.overflow \/ Cardinality(seen) > limit
    IN [acc EXCEPT
           !.present = @ + 1, !.kinds[v.kind] = @ + 1,
           !.distinct = IF over THEN {} ELSE seen, !.overflow = over,
           !.lengths = IF v.kind = "string" THEN Append(@, v.length) ELSE @,
           !.patterns = [x \in PatternTypes |-> @[x] + (IF v.kind = "string" /\ x \in v.patterns THEN 1 ELSE 0)],
           !.numbers = IF Numeric(v) THEN Append(@, v.id) ELSE @,
           !.kept = IF Numeric(v) /\ Len(@) < limit THEN Append(@, v.id) ELSE @,
           !.dates = IF v.kind \in {"string", "datetime"} THEN @ + 1 ELSE @,
           !.zones = IF Parsed(v) THEN Append(@, v.date) ELSE @]

\* Mutant: a configured marker is counted and kept as a value.
AddMarkers(acc, v, markers, limit) ==
    LET next == [acc EXCEPT !.rows = @ + 1]
    IN IF v.kind = "null" THEN [next EXCEPT !.nulls = @ + 1]
       ELSE Counted([next EXCEPT !.marked = @ + (IF Marked(v, markers) THEN 1 ELSE 0)], v, limit)
Add(acc, v, markers, limit) ==
    LET next == [acc EXCEPT !.rows = @ + 1]
    IN IF v.kind = "null" THEN [next EXCEPT !.nulls = @ + 1]
       ELSE IF Marked(v, markers) THEN [next EXCEPT !.marked = @ + 1]
       ELSE Counted(next, v, limit)
Accumulate(values, markers, limit) == FoldLeft(LAMBDA acc, v : Add(acc, v, markers, limit), Fresh, values)
\* A time with a zone is not comparable with one without: add() raises.
Incomparable(acc) == Cardinality(Range(acc.zones)) > 1

Sorted(numbers) == SortSeq(numbers, LAMBDA a, b : a < b)
\* quantile k/4 of the numbers kept
Quantile(numbers, k) == Sorted(numbers)[1 + Min({Len(numbers) - 1, (k * (Len(numbers) - 1)) \div 4})]
NumericSummary(acc) ==
    [count |-> Len(acc.numbers), minimum |-> Min(Range(acc.numbers)), maximum |-> Max(Range(acc.numbers)),
     zeros |-> Len(SelectSeq(acc.numbers, LAMBDA n : n = 0)),
     negatives |-> Len(SelectSeq(acc.numbers, LAMBDA n : n < 0)),
     quartiles |-> [k \in 1 .. 3 |-> Quantile(acc.kept, k)]]
LengthSummary(acc) ==
    [count |-> Len(acc.lengths), minimum |-> Min(Range(acc.lengths)), maximum |-> Max(Range(acc.lengths)),
     empty |-> Len(SelectSeq(acc.lengths, LAMBDA n : n = 0))]
PatternSummary(acc, x) == [matches |-> acc.patterns[x], eligible |-> acc.present, excluded |-> acc.rows - acc.present]

\* column_profile: a summary is a set of at most one record
ColumnProfile(acc, mode) ==
    [rows |-> acc.rows, nulls |-> acc.nulls, marked |-> acc.marked, present |-> acc.present, kinds |-> acc.kinds,
     distinct |-> IF acc.overflow THEN Unknown ELSE Cardinality(acc.distinct),
     uniqueness |-> IF acc.overflow THEN "NOT_COMPUTED_BOUNDED"
                    ELSE IF mode = "FULL" THEN "EXACT_ON_FULL_SCOPE" ELSE "SAMPLE_OBSERVATION",
     numeric |-> {NumericSummary(acc) : n \in {x \in {acc.numbers} : x # <<>>}},
     lengths |-> {LengthSummary(acc) : n \in {x \in {acc.lengths} : x # <<>>}},
     dates |-> [observed |-> acc.dates, parsed |-> Len(acc.zones)],
     patterns |-> [x \in {y \in PatternTypes : acc.patterns[y] > 0} |-> PatternSummary(acc, x)]]

-----------------------------------------------------------------------------
(* One table: DataProfilerAdapter.profile_table.                            *)

\* NullMarkerPolicy, ExpensiveStatisticsPolicy and SemanticLabelPolicy,
\* ProfileRequest.validate_sampling
MarkersValid(markers) == IsInjective(markers)
OptionsValid(options) == (options.expensive => options.bound >= 2) /\ (options.labels => options.model)
RequestValid(request) ==
    /\ request.tables # <<>> /\ IsInjective(request.tables)
    /\ MarkersValid(request.markers) /\ OptionsValid(request.options)
    /\ request.mode = "SAMPLE" => request.limit > 0 /\ request.seeded
    /\ request.mode = "FULL" => request.limit = 0

\* _path_for_batch, _iter_rows: what is wrong with a batch is found before
\* its first row is handed out.
BatchIntact(b) == b.state = "COMPLETE" /\ b.place = "inside" /\ b.intact /\ b.counted = Len(b.rows)
RowsBefore(batches, n) == FlattenSeq([i \in 1 .. n - 1 |-> batches[i].rows])
FirstFault(batches) == Min({i \in DOMAIN batches : ~BatchIntact(batches[i])} \cup {Len(batches) + 1})

\* The reservoir: draws[i] is the random place the i-th row is offered.
Reservoir(rows, limit, draws) ==
    FoldLeft(LAMBDA kept, i :
                 IF Len(kept) < limit THEN Append(kept, rows[i])
                 ELSE IF draws[i] < limit THEN [kept EXCEPT ![draws[i] + 1] = rows[i]]
                 ELSE kept,
             <<>>, [i \in DOMAIN rows |-> i])

\* Rows seen before, while at most limit different rows were seen.
Duplicates(rows, limit) ==
    FoldLeft(LAMBDA acc, r :
                 IF ~acc.complete THEN acc
                 ELSE IF r.cells \in acc.seen THEN [acc EXCEPT !.count = @ + 1]
                 ELSE IF Cardinality(acc.seen) < limit THEN [acc EXCEPT !.seen = @ \cup {r.cells}]
                 ELSE [acc EXCEPT !.complete = FALSE, !.seen = {}],
             [seen |-> {}, count |-> 0, complete |-> TRUE], rows)

\* _scope and ProfileObservationScope.validate_scope
Scope(request, snapshot, table, available, profiled, refs) ==
    LET covered == profiled = available /\ snapshot.seen[table] # "NOT_OBSERVED"
    IN [mode |-> request.mode, status |-> snapshot.seen[table], snapshotMode |-> snapshot.mode,
        available |-> available, profiled |-> profiled, covered |-> covered,
        refs |-> IF request.mode = "SAMPLE" THEN refs ELSE <<>>,
        completeness |-> IF snapshot.seen[table] = "NOT_OBSERVED" THEN "NOT_OBSERVED"
                         ELSE IF covered /\ request.mode = "FULL" THEN "FULLY_OBSERVED"
                         ELSE IF profiled > 0 THEN "PARTIALLY_OBSERVED" ELSE "NOT_OBSERVED"]
ScopeValid(scope) ==
    /\ scope.profiled <= scope.available
    /\ IF scope.status = "NOT_OBSERVED" THEN scope.available = 0 /\ scope.completeness = "NOT_OBSERVED"
       ELSE /\ scope.mode = "SAMPLE" => Len(scope.refs) = scope.profiled
            /\ scope.mode = "FULL" => scope.profiled = scope.available /\ scope.covered
            /\ scope.completeness = "NOT_OBSERVED" => scope.profiled = 0

\* _table_profile_from_output
TableProfile(failure, scope, columns, duplicates) ==
    IF ~ScopeValid(scope) THEN Refusal
    ELSE [ok |-> TRUE, failures |-> failure, scope |-> scope, columns |-> columns,
          duplicates |-> IF duplicates.complete THEN duplicates.count ELSE Unknown]
NoDuplicates == [count |-> 0, complete |-> FALSE]
RefsOf(rows) == [i \in DOMAIN rows |-> rows[i].ref]

Unprofiled(kind, request, snapshot, table, available, refs) ==
    TableProfile({kind}, Scope(request, snapshot, table, available, 0, refs), <<>>, NoDuplicates)
\* accs holds the accumulator of each chosen column
ProfileColumns(request, snapshot, table, available, rows, accs, limit) ==
    IF \E c \in DOMAIN accs : Incomparable(accs[c])
    THEN Unprofiled("ENGINE_FAILED", request, snapshot, table, available, RefsOf(rows))
    ELSE TableProfile({}, Scope(request, snapshot, table, available, Len(rows), RefsOf(rows)),
                      [c \in DOMAIN accs |-> ColumnProfile(accs[c], request.mode)], Duplicates(rows, limit))
ProfileRows(request, snapshot, table, columns, intact, available, rows, limit) ==
    IF ~intact THEN Unprofiled("BATCH_INTEGRITY_FAILED", request, snapshot, table, available, RefsOf(rows))
    ELSE ProfileColumns(request, snapshot, table, available, rows,
                        [c \in {x \in columns : request.columns = {} \/ x \in request.columns} |->
                            Accumulate([i \in DOMAIN rows |-> rows[i].cells[c]], Range(request.markers), limit)], limit)
\* the rows profiled of those read
Chosen(request, read, draws) == IF request.mode = "SAMPLE" THEN Reservoir(read, request.limit, draws) ELSE read
ProfileRead(request, snapshot, table, columns, intact, read, draws, limit) ==
    ProfileRows(request, snapshot, table, columns, intact, Len(read), Chosen(request, read, draws), limit)
ProfileUpTo(request, snapshot, table, columns, batches, bad, draws, limit) ==
    ProfileRead(request, snapshot, table, columns, bad > Len(batches), RowsBefore(batches, bad), draws, limit)
ProfileBatches(request, snapshot, table, columns, batches, draws, limit) ==
    ProfileUpTo(request, snapshot, table, columns, batches, FirstFault(batches), draws, limit)
ProfileTable(request, snapshot, table, columns, draws, limit) ==
    IF snapshot.seen[table] = "NOT_OBSERVED" THEN Unprofiled("TABLE_NOT_OBSERVED", request, snapshot, table, 0, <<>>)
    ELSE ProfileBatches(request, snapshot, table, columns, SelectSeq(snapshot.batches, LAMBDA b : b.table = table), draws, limit)

-----------------------------------------------------------------------------
(* The service: ProfilingService.profile.  catalog is a function from table *)
(* names to their columns.                                                  *)

ProfileBound(request, snapshot, catalog) ==
    /\ request.snapshot = snapshot.id /\ Range(request.tables) \subseteq DOMAIN catalog
    /\ request.columns \subseteq UNION {catalog[t] : t \in Range(request.tables)}
    /\ Range(request.tables) \subseteq DOMAIN snapshot.seen
FailuresOf(out) ==
    UNION {IF out[t].ok THEN {<<t, f>> : f \in out[t].failures} ELSE {<<t, "ENGINE_FAILED">>} : t \in DOMAIN out}
ProfileResult(request, out, failures) ==
    [ok |-> TRUE, snapshot |-> request.snapshot, tables |-> [t \in {x \in DOMAIN out : out[x].ok} |-> out[t]], failures |-> failures,
     markers |-> Range(request.markers), completeness |-> IF failures # {} THEN "INCOMPLETE" ELSE "COMPLETE"]
ProfileTables(request, out) == ProfileResult(request, out, FailuresOf(out))
Profile(request, snapshot, catalog, draws, limit) ==
    IF ~ProfileBound(request, snapshot, catalog) THEN Refusal
    ELSE ProfileTables(request, [t \in Range(request.tables) |-> ProfileTable(request, snapshot, t, catalog[t], draws, limit)])

-----------------------------------------------------------------------------
(* What the profile promises, against the staged rows themselves.           *)

\* Counts are those of the values; a distinct count is exact or absent; a
\* quartile is a number of the column with the right share below and above.
NumbersTrue(values, numbers, summary) ==
    \A k \in 1 .. 3 :
        /\ 4 * Cardinality({i \in numbers : values[i].id < summary.quartiles[k]}) <= k * (summary.count - 1)
        /\ 4 * Cardinality({i \in numbers : values[i].id > summary.quartiles[k]}) <= (4 - k) * (summary.count - 1) + 3
CountsTrue(values, limit, profile, present, keys, numbers) ==
    /\ profile.rows = Len(values) /\ profile.present = Cardinality(present)
    /\ profile.nulls + profile.marked + profile.present = profile.rows
    /\ profile.nulls = Cardinality({i \in DOMAIN values : values[i].kind = "null"})
    /\ MapThenSumSet(LAMBDA k : profile.kinds[k], Kinds) = profile.present
    /\ profile.distinct = IF Cardinality(keys) <= limit THEN Cardinality(keys) ELSE Unknown
    /\ (profile.numeric = {}) <=> (numbers = {})
    /\ \A s \in profile.numeric : Cardinality(numbers) <= limit => NumbersTrue(values, numbers, s)
    /\ \A x \in DOMAIN profile.patterns : profile.patterns[x].matches <= profile.patterns[x].eligible
PresentTrue(values, limit, profile, present) ==
    CountsTrue(values, limit, profile, present, {ValueKey(values[i]) : i \in present}, {i \in present : Numeric(values[i])})
ColumnTrue(values, markers, limit, profile) ==
    PresentTrue(values, limit, profile, {i \in DOMAIN values : ~Absent(values[i], markers)})

\* A complete profile read every staged row of every table it was asked for;
\* a sample is of rows of the table, each at most once; a table that was not
\* observed is never said to be empty.
RowsTrue(request, staged, rows, markers, limit, table) ==
    /\ table.scope.available = Len(staged)
    /\ request.mode = "FULL" => table.scope.profiled = Len(staged) /\ table.scope.completeness = "FULLY_OBSERVED"
    /\ request.mode = "SAMPLE" =>
         /\ table.scope.profiled = Min({request.limit, Len(staged)})
         /\ IsInjective(table.scope.refs) /\ Range(table.scope.refs) \subseteq {r.ref : r \in Range(staged)}
         /\ table.scope.completeness # "FULLY_OBSERVED"
    /\ \A c \in DOMAIN table.columns : ColumnTrue([i \in DOMAIN rows |-> rows[i].cells[c]], markers, limit, table.columns[c])
    /\ table.duplicates # Unknown => table.duplicates = Len(rows) - Cardinality({r.cells : r \in Range(rows)})
TableTrue(request, staged, draws, markers, limit, table) ==
    RowsTrue(request, staged, Chosen(request, staged, draws), markers, limit, table)
ProfileOf(request, snapshot, draws, limit, result) ==
    result.ok /\ result.completeness = "COMPLETE" =>
        /\ DOMAIN result.tables = Range(request.tables)
        /\ \A i \in DOMAIN snapshot.batches : snapshot.batches[i].table \in Range(request.tables) => BatchIntact(snapshot.batches[i])
        /\ \A t \in DOMAIN result.tables :
               /\ snapshot.seen[t] # "NOT_OBSERVED"
               /\ TableTrue(request, FlattenSeq([i \in DOMAIN snapshot.batches |->
                                                    IF snapshot.batches[i].table = t THEN snapshot.batches[i].rows ELSE <<>>]),
                            draws, result.markers, limit, result.tables[t])
ProfileTrue(request, snapshot, catalog, draws, limit) ==
    ProfileOf(request, snapshot, draws, limit, Profile(request, snapshot, catalog, draws, limit))
=============================================================================
