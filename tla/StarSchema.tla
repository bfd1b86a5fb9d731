----------------------------- MODULE StarSchema -----------------------------
(***************************************************************************)
(* The star schema a reviewed analytical plan describes, and its            *)
(* compilation: grain validation (application/analytical_planner.py), the   *)
(* rows of dimensions and facts (application/compiler.py), and what the     *)
(* generated tables accept when DuckDB loads them.                          *)
(*                                                                          *)
(* A design d has                                                           *)
(*   d.dims  : dimension id -> [role, refs, attrs, nullable, policy, key,   *)
(*             range]; refs is the column holding the reference, key the    *)
(*             deterministic warehouse key of each reference, range the     *)
(*             reviewed dates of a date dimension                           *)
(*   d.grain : [columns, nulls];  d.fks : sequence of [column, target,     *)
(*             dim, required], column being that of the input and target    *)
(*             that of the fact;  d.plain : degenerate columns;  d.measure  *)
(* and an input row is [ref, entity, cells], cells a function of columns.   *)
(* Amounts are whole numbers of the smallest unit a source can write;       *)
(* DECIMAL(38, 9) keeps multiples of Tick.                                  *)
(***************************************************************************)
EXTENDS Integers, FiniteSets, Sequences, SequencesExt, FiniteSetsExt

CONSTANTS
    Null,      \* SQL NULL, Python None
    Bad,       \* text that the column's logical type cannot parse
    Tick       \* the smallest unit DECIMAL(38, 9) stores

ASSUME TickAssumption == Tick \in Nat \ {0}

NoKey == "no key"
UnknownKey == "unknown key"

\* What a compiler or a planner that raised leaves behind.
Raised == [ok |-> FALSE]

IsDate(d, dim) == d.dims[dim].role = "DATE"

\* compiler: AnalyticalInputRow.value_for over the grain's key columns
GrainOf(d, row) == [c \in d.grain.columns |-> row.cells[c]]
NullGrain(d, row) == \E c \in d.grain.columns : row.cells[c] = Null

\* validate_grain: an empty input, a null key under REJECT_NULLS and a
\* repeated key are refused.
GrainValidates(d, rows) ==
    LET keyed == {r \in rows : ~NullGrain(d, r)}
    IN /\ rows # {}
       /\ d.grain.nulls = "REJECT_NULLS" => keyed = rows
       /\ Cardinality({GrainOf(d, r) : r \in keyed}) = Cardinality(keyed)

\* _row_reference: the canonical entity, or the text of a column
RowReference(d, dim, row) ==
    IF d.dims[dim].refs = "canonical_entity_id" THEN row.entity
    ELSE row.cells[d.dims[dim].refs]

\* _dimension_rows raises on a null or repeated reference, a key collision, a
\* null in a non-null attribute, and an unknown-member key already in use.
DimensionRaises(d, dim, rows) ==
    LET spec == d.dims[dim]
        refs == {RowReference(d, dim, r) : r \in rows}
        keys == {spec.key[x] : x \in refs \ {Null}}
    IN \/ Null \in refs
       \/ Cardinality(refs) < Cardinality(rows)
       \/ Cardinality(keys) < Cardinality(refs)
       \/ \E r \in rows, a \in spec.attrs \ spec.nullable : r.cells[a] = Null
       \/ spec.policy = "EXPLICIT_UNKNOWN_MEMBER" /\ UnknownKey \in keys

DimensionRow(d, dim, row) ==
    [key |-> d.dims[dim].key[RowReference(d, dim, row)],
     entity |-> RowReference(d, dim, row),
     attrs |-> [a \in d.dims[dim].attrs |-> row.cells[a]],
     refs |-> {row.ref}]

\* _unknown_value supplies a value for each attribute of the unknown member.
UnknownRow(d, dim) ==
    [key |-> UnknownKey, entity |-> "unknown",
     attrs |-> [a \in d.dims[dim].attrs |-> "UNKNOWN"], refs |-> {}]

DimensionRows(d, dim, rows) ==
    {DimensionRow(d, dim, r) : r \in rows}
        \cup IF d.dims[dim].policy = "EXPLICIT_UNKNOWN_MEMBER"
             THEN {UnknownRow(d, dim)} ELSE {}

\* Mutant: a date is looked up like any other reference.
LookedUpAlways(d, members, fk, row) ==
    IF row.cells[fk.column] \in {RowReference(d, fk.dim, r) : r \in members[fk.dim]} \ {Null}
    THEN d.dims[fk.dim].key[row.cells[fk.column]] ELSE NoKey

\* A date key is computed from the date; another key is looked up among the
\* rows of the dimension.  members: dimension id -> its input rows.
LookedUp(d, members, fk, row) ==
    LET value == row.cells[fk.column]
        known == {RowReference(d, fk.dim, r) : r \in members[fk.dim]}
    IN IF value = Null \/ (~IsDate(d, fk.dim) /\ value \notin known) THEN NoKey
       ELSE d.dims[fk.dim].key[value]

\* Mutant: a fact of a quarantining dimension is loaded without its key.
MissingKeyLoaded(d, fk) ==
    IF d.dims[fk.dim].policy = "EXPLICIT_UNKNOWN_MEMBER" THEN "unknown" ELSE "null"

\* What the foreign-key loop does with a key it could not find.  The unknown
\* member of a date dimension is looked up among another dimension's keys, so
\* it is never there.
MissingKey(d, fk) ==
    CASE d.dims[fk.dim].policy = "QUARANTINE_FACT" -> "quarantine"
      [] d.dims[fk.dim].policy = "NULLABLE_FK" -> IF fk.required THEN "raise" ELSE "null"
      [] d.dims[fk.dim].policy = "EXPLICIT_UNKNOWN_MEMBER" ->
            IF IsDate(d, fk.dim) THEN "raise" ELSE "unknown"

ForeignKey(d, members, fk, row) ==
    IF IsDate(d, fk.dim) /\ row.cells[fk.column] = Bad THEN "raise"
    ELSE IF LookedUp(d, members, fk, row) # NoKey THEN "found"
    ELSE MissingKey(d, fk)

\* The loop stops at the first foreign key that raises or quarantines.
StopsAt(d, members, row) ==
    {i \in DOMAIN d.fks : ForeignKey(d, members, d.fks[i], row) \in {"raise", "quarantine"}}
Visited(d, members, row) ==
    {i \in DOMAIN d.fks : \A j \in StopsAt(d, members, row) : i <= j}

\* _coerce_value_for_logical_type, _assert_value_compatible
MeasureRaises(d, row) == row.cells[d.measure] = Bad

\* One row of the fact's input table.
Fate(d, members, row) ==
    LET stops == StopsAt(d, members, row)
    IN IF NullGrain(d, row)
       THEN IF d.grain.nulls = "REJECT_NULLS" THEN "raise" ELSE "quarantine"
       ELSE IF stops # {} THEN ForeignKey(d, members, d.fks[Min(stops)], row)
       ELSE IF MeasureRaises(d, row) THEN "raise" ELSE "load"

KeyFor(d, members, fk, row) ==
    CASE ForeignKey(d, members, fk, row) = "found" -> LookedUp(d, members, fk, row)
      [] ForeignKey(d, members, fk, row) = "unknown" -> UnknownKey
      [] OTHER -> Null

FactRow(d, members, row) ==
    [grain |-> GrainOf(d, row), event |-> row.entity,
     keys |-> [i \in DOMAIN d.fks |-> KeyFor(d, members, d.fks[i], row)],
     plain |-> [c \in d.plain |-> row.cells[c]],
     measure |-> row.cells[d.measure], refs |-> {row.ref}]

\* Dates met before a row is quarantined enter the date dimension too, beside
\* the reviewed range of the dimension.
DatesMet(d, members, row, dim) ==
    {row.cells[d.fks[i].column] : i \in {j \in Visited(d, members, row) : d.fks[j].dim = dim}}
DatesOf(d, members, rows, dim) ==
    ((UNION {DatesMet(d, members, r, dim) : r \in {x \in rows : ~NullGrain(d, x)}}) \ {Null, Bad})
        \cup d.dims[dim].range

\* The columns of the fact table, and the ones that would be there twice.
KeyTargets(d) == {d.fks[i].target : i \in DOMAIN d.fks}
TargetNames(d) == d.grain.columns \cup {"canonical_event_id"} \cup KeyTargets(d) \cup d.plain \cup {d.measure}
TargetsClash(d) ==
    LET first == d.grain.columns \cup {"canonical_event_id"}
    IN \/ KeyTargets(d) \cap first # {}
       \/ \E i, j \in DOMAIN d.fks : i # j /\ d.fks[i].target = d.fks[j].target
       \/ (d.plain \ d.grain.columns) \cap (first \cup KeyTargets(d)) # {}
       \/ d.measure \in first \cup KeyTargets(d) \cup d.plain

\* A fact row gets its lineage column, and is inserted at all, only where the
\* plan does not name that column itself.
KeepsLineage(d) == "source_record_refs" \notin TargetNames(d)

\* _generate_sql
Compile(d, members, rows) ==
    LET plainDims == {x \in DOMAIN d.dims : ~IsDate(d, x)}
        fates == [r \in rows |-> Fate(d, members, r)]
        dates(dim) == DatesOf(d, members, rows, dim)
    IN IF \/ \E x \in plainDims : DimensionRaises(d, x, members[x])
          \/ TargetsClash(d)
          \/ \E r \in rows : fates[r] = "raise"
          \/ \E x \in DOMAIN d.dims \ plainDims : dates(x) = {}
       THEN Raised
       ELSE [ok |-> TRUE,
             dims |-> [x \in DOMAIN d.dims |->
                          IF x \in plainDims THEN DimensionRows(d, x, members[x])
                          ELSE {[key |-> d.dims[x].key[t], entity |-> t,
                                 attrs |-> <<>>, refs |-> {}] : t \in dates(x)}],
             facts |-> IF KeepsLineage(d)
                       THEN {FactRow(d, members, r) : r \in {x \in rows : fates[x] = "load"}} ELSE {},
             quarantine |-> {r.ref : r \in {x \in rows : fates[x] = "quarantine"}}]

\* DECIMAL(38, 9) rounds what it is given.
Stored(amount) ==
    IF amount \in {Null, Bad} THEN amount ELSE ((amount + Tick \div 2) \div Tick) * Tick

\* DuckDB: primary keys, UNIQUE, NOT NULL and REFERENCES of the generated DDL.
\* A required foreign key is declared without NOT NULL.
LoadRejects(d, star) ==
    \/ \E x \in DOMAIN d.dims : \E r1, r2 \in star.dims[x] :
            r1 # r2 /\ (r1.key = r2.key \/ r1.entity = r2.entity)
    \/ \E f1, f2 \in star.facts : f1 # f2 /\ f1.grain = f2.grain
    \/ \E f \in star.facts : \/ \E c \in d.plain : f.plain[c] = Null
                             \/ \E i \in DOMAIN d.fks :
                                    /\ f.keys[i] # Null
                                    /\ f.keys[i] \notin {r.key : r \in star.dims[d.fks[i].dim]}

\* DuckDBMaterializer.materialize: one transaction into a temporary file that
\* replaces the target, or nothing.
Materialize(d, star) ==
    IF LoadRejects(d, star) THEN Raised
    ELSE [ok |-> TRUE, dims |-> star.dims,
          facts |-> {[f EXCEPT !.measure = Stored(f.measure)] : f \in star.facts}]

-----------------------------------------------------------------------------

\* What planning hands to compilation: each row has a record reference of its
\* own, foreign keys name dimensions of the plan, and every member and date has a
\* key (a digest, never None).
WellPosed(d, members, rows) ==
    /\ IsFiniteSet(rows)
    /\ \A r, s \in rows : r.ref = s.ref => r = s
    /\ d.fks \in Seq(ToSet(d.fks))
    /\ \A fk \in ToSet(d.fks) :
          /\ fk.dim \in DOMAIN d.dims
          /\ IsDate(d, fk.dim) => \A r \in rows :
                r.cells[fk.column] \in DOMAIN d.dims[fk.dim].key \cup {Null, Bad}
    /\ \A dim \in DOMAIN d.dims :
          /\ d.dims[dim].policy \in {"QUARANTINE_FACT", "NULLABLE_FK", "EXPLICIT_UNKNOWN_MEMBER"}
          /\ Null \notin d.dims[dim].range
          /\ \A x \in DOMAIN d.dims[dim].key : d.dims[dim].key[x] # NoKey
          /\ ~IsDate(d, dim) => \A m \in members[dim] :
                RowReference(d, dim, m) \in DOMAIN d.dims[dim].key \cup {Null}

\* The reference: what compilation promises of each input row, where the plan
\* leaves the lineage column to the compiler.  Every row is loaded once or
\* quarantined once, and a loaded row points at the member it names, at the
\* unknown member, or (a nullable key) at nothing.
Accounts(d, rows, star) ==
    LET loaded == UNION {f.refs : f \in star.facts}
    IN /\ loaded \cap star.quarantine = {}
       /\ loaded \cup star.quarantine = {r.ref : r \in rows}
       /\ Cardinality(star.facts) = Cardinality(loaded)
       /\ \A f \in star.facts, i \in DOMAIN d.fks :
            LET fk == d.fks[i]
                row == CHOOSE r \in rows : r.ref \in f.refs
                names == {m \in star.dims[fk.dim] : m.entity = row.cells[fk.column]}
            IN IF names # {} THEN \A m \in names : f.keys[i] = m.key
               ELSE \/ f.keys[i] = UnknownKey /\ d.dims[fk.dim].policy = "EXPLICIT_UNKNOWN_MEMBER"
                    \/ f.keys[i] = Null /\ ~fk.required
=============================================================================
