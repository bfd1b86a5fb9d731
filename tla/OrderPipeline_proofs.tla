------------------------ MODULE OrderPipeline_proofs ------------------------
(***************************************************************************)
(* The order product, for every file, design and request: a run whose gate *)
(* passes shows the facts its input says (GateTruth), a clean file that    *)
(* meets no fault passes every stage (CleanRuns), a star that compiles and *)
(* loads accounts for every input row (StarAccounts), a finalized model    *)
(* gives each record one entity and merges only what links hold together   *)
(* (Identities), the value with the best claim survives (Survivorship),    *)
(* and a semantic query answers what its question means over the input     *)
(* rows (QueriesMatch).                                                    *)
(***************************************************************************)
EXTENDS OrderPipeline, IdentityLifecycle, SemanticQueries, DataInduction, SequenceTheorems

-----------------------------------------------------------------------------
(* What the compiled star says of an input row.                            *)

DateKey == [column |-> "date", target |-> "order_date_key", dim |-> "dim_date", required |-> TRUE]

LEMMA DesignParts ==
  ASSUME NEW rows
  PROVE  /\ DOMAIN OrderDesign(rows).fks = {1, 2}
         /\ OrderDesign(rows).fks[2] = DateKey
         /\ OrderDesign(rows).grain.columns = {"order"}
         /\ OrderDesign(rows).measure = "qty"
         /\ DOMAIN OrderDesign(rows).dims = {"dim_order", "dim_date"}
         /\ IsDate(OrderDesign(rows), "dim_date")
         /\ OrderDesign(rows).dims["dim_date"].policy = "EXPLICIT_UNKNOWN_MEMBER"
         /\ OrderDesign(rows).dims["dim_date"].range = {}
<1>1. DOMAIN OrderDesign(rows).fks = 1 .. 2
  BY DEF OrderDesign
<1>2. 1 .. 2 = {1, 2}
  OBVIOUS
<1>3. OrderDesign(rows).fks[2] = DateKey
  BY DEF OrderDesign, DateKey
<1>4. /\ OrderDesign(rows).grain.columns = {"order"}
      /\ OrderDesign(rows).measure = "qty"
      /\ DOMAIN OrderDesign(rows).dims = {"dim_order", "dim_date"}
      /\ IsDate(OrderDesign(rows), "dim_date")
      /\ OrderDesign(rows).dims["dim_date"].policy = "EXPLICIT_UNKNOWN_MEMBER"
      /\ OrderDesign(rows).dims["dim_date"].range = {}
  BY DEF OrderDesign, IsDate
<1> QED
  BY <1>1, <1>2, <1>3, <1>4

\* The key of a date that is in the dataset is the date.
LEMMA DateKeys ==
  ASSUME NEW rows, NEW row \in rows
  PROVE  OrderDesign(rows).dims["dim_date"].key[row.cells.date] = row.cells.date
BY DEF OrderDesign

\* A row is loaded only when its foreign-key loop does not stop.
LEMMA LoadedPasses ==
  ASSUME NEW rows, NEW members, NEW row,
         Fate(OrderDesign(rows), members, row) = "load"
  PROVE  StopsAt(OrderDesign(rows), members, row) = {}
<1> DEFINE d == OrderDesign(rows)
           stops == StopsAt(d, members, row)
<1> SUFFICES ASSUME stops # {}
             PROVE  FALSE
  OBVIOUS
<1>1. \A i \in stops : i \in {1, 2} /\ ForeignKey(d, members, d.fks[i], row) \in {"raise", "quarantine"}
  BY DesignParts DEF StopsAt
<1>2. ~NullGrain(d, row)
  BY DEF Fate
<1>3. ForeignKey(d, members, d.fks[Min(stops)], row) = "load"
  BY <1>2 DEF Fate
<1> HIDE DEF stops, d
<1>4. \E x \in stops : \A y \in stops : x <= y
  <2>1. CASE 1 \in stops
    BY <2>1, <1>1
  <2>2. CASE 1 \notin stops
    BY <2>2, <1>1
  <2> QED
    BY <2>1, <2>2
<1>5. Min(stops) \in stops
  BY <1>4, Zenon DEF Min
<1> QED
  BY <1>1, <1>3, <1>5

\* The key of its date is the date, whatever else the row says.
LEMMA LoadedDate ==
  ASSUME NEW rows, NEW members, NEW row \in rows,
         Fate(OrderDesign(rows), members, row) = "load"
  PROVE  KeyFor(OrderDesign(rows), members, DateKey, row) = row.cells.date
<1> DEFINE d == OrderDesign(rows)
           fk == ForeignKey(d, members, DateKey, row)
<1>1. StopsAt(d, members, row) = {}
  BY LoadedPasses
<1>2. fk \notin {"raise", "quarantine"}
  BY <1>1, DesignParts DEF StopsAt
<1>3. DateKey.column = "date" /\ DateKey.dim = "dim_date"
  BY DEF DateKey
<1>4. MissingKey(d, DateKey) = "raise"
  <2>1. d.dims["dim_date"].policy = "EXPLICIT_UNKNOWN_MEMBER" /\ IsDate(d, "dim_date")
    BY DesignParts
  <2> HIDE DEF d
  <2>2. /\ d.dims[DateKey.dim].policy = "EXPLICIT_UNKNOWN_MEMBER"
        /\ IsDate(d, DateKey.dim)
    BY <1>3, <2>1
  <2> QED
    BY <2>2, SMTT(30) DEF MissingKey
<1>5. fk = "found" /\ LookedUp(d, members, DateKey, row) # NoKey
  BY <1>2, <1>4 DEF ForeignKey
<1>6. LookedUp(d, members, DateKey, row) = d.dims["dim_date"].key[row.cells["date"]]
  BY <1>5, <1>3 DEF LookedUp
<1>7. d.dims["dim_date"].key[row.cells["date"]] = row.cells["date"]
  BY DateKeys
<1> QED
  BY <1>5, <1>6, <1>7 DEF KeyFor

\* The compiled star of an order dataset, as the target holds it.
Target(rows, members) ==
    Build(OrderDesign(rows), Compile(OrderDesign(rows), members, rows))

FactOf(rows, members, row) ==
    [FactRow(OrderDesign(rows), members, row) EXCEPT !.measure = Stored(@)]

LEMMA FactSays ==
  ASSUME NEW rows, NEW members, NEW row \in rows,
         Fate(OrderDesign(rows), members, row) = "load"
  PROVE  LET f == FactOf(rows, members, row)
         IN /\ f.refs = {row.ref}
            /\ f.grain.order = row.cells.order
            /\ f.keys[2] = row.cells.date
<1> DEFINE d == OrderDesign(rows)
           g == FactRow(d, members, row)
<1>1. g.refs = {row.ref}
  BY DEF FactRow
<1>2. g.grain.order = row.cells.order
  BY DesignParts DEF FactRow, GrainOf
<1>3. g.keys = [i \in DOMAIN d.fks |-> KeyFor(d, members, d.fks[i], row)]
  BY DEF FactRow
<1>4. 2 \in DOMAIN d.fks /\ d.fks[2] = DateKey
  BY DesignParts
<1>6. KeyFor(d, members, DateKey, row) = row.cells.date
  BY LoadedDate
<1>7. g.keys[2] = row.cells.date
  <2> HIDE DEF d, g
  <2> QED
    BY <1>3, <1>4, <1>6
<1>5. FactOf(rows, members, row).refs = g.refs /\ FactOf(rows, members, row).grain = g.grain
      /\ FactOf(rows, members, row).keys = g.keys
  BY DEF FactOf, FactRow
<1> QED
  BY <1>1, <1>2, <1>7, <1>5

\* Every fact of the target is that of a loaded row, and a date's key is the date.
LEMMA TargetSays ==
  ASSUME NEW rows, NEW members, Target(rows, members).ok
  PROVE  /\ \A f \in Target(rows, members).facts : \E row \in rows :
               f = FactOf(rows, members, row) /\ Fate(OrderDesign(rows), members, row) = "load"
         /\ \A m \in Target(rows, members).dims["dim_date"] : m.key = m.entity
<1> DEFINE d == OrderDesign(rows)
           star == Compile(d, members, rows)
<1>1. star.ok /\ ~LoadRejects(d, star)
  BY DEF Target, Build, Materialize, Raised
<1>2. /\ Target(rows, members).dims = star.dims
      /\ Target(rows, members).facts = {[f EXCEPT !.measure = Stored(f.measure)] : f \in star.facts}
  BY <1>1 DEF Target, Build, Materialize
<1>3. star # Raised
  BY <1>1 DEF Raised
<1>4. star.facts \subseteq {FactRow(d, members, r) : r \in {x \in rows : Fate(d, members, x) = "load"}}
  BY <1>3 DEF Compile
<1>5. \A f \in Target(rows, members).facts : \E row \in rows :
        f = FactOf(rows, members, row) /\ Fate(d, members, row) = "load"
  BY <1>2, <1>4 DEF FactOf
<1>6. star.dims["dim_date"] = {[key |-> d.dims["dim_date"].key[t], entity |-> t, attrs |-> <<>>, refs |-> {}] :
                                  t \in DatesOf(d, members, rows, "dim_date")}
  BY <1>3, DesignParts DEF Compile
<1>7. \A t \in DatesOf(d, members, rows, "dim_date") : \E r \in rows : t = r.cells.date
  <2> SUFFICES ASSUME NEW t \in DatesOf(d, members, rows, "dim_date")
               PROVE  \E r \in rows : t = r.cells.date
    OBVIOUS
  <2>1. d.dims["dim_date"].range = {} /\ DOMAIN d.fks = {1, 2} /\ d.fks[2].column = "date"
    BY DesignParts DEF DateKey
  <2>2. d.fks[1].dim = "dim_order"
    BY DEF OrderDesign
  <2> HIDE DEF d
  <2>3. PICK r \in rows : \E i \in Visited(d, members, r) :
           d.fks[i].dim = "dim_date" /\ t = r.cells[d.fks[i].column]
    BY <2>1 DEF DatesOf, DatesMet
  <2>4. PICK i \in {1, 2} : d.fks[i].dim = "dim_date" /\ t = r.cells[d.fks[i].column]
    BY <2>1, <2>3 DEF Visited
  <2>5. i = 2
    BY <2>2, <2>4
  <2> QED
    BY <2>1, <2>4, <2>5
<1>8. \A m \in star.dims["dim_date"] : m.key = m.entity
  <2> SUFFICES ASSUME NEW m \in star.dims["dim_date"]
               PROVE  m.key = m.entity
    OBVIOUS
  <2>1. PICK t \in DatesOf(d, members, rows, "dim_date") :
           m = [key |-> d.dims["dim_date"].key[t], entity |-> t, attrs |-> <<>>, refs |-> {}]
    BY <1>6
  <2>2. d.dims["dim_date"].key[t] = t
    BY <1>7, DateKeys
  <2> QED
    BY <2>1, <2>2
<1> QED
  BY <1>2, <1>5, <1>8

-----------------------------------------------------------------------------
(* What the gate compares.                                                 *)

LEMMA GatePasses ==
  ASSUME NEW x, Gate(x) = "PASS"
  PROVE  x.target.ok /\ FactBusinessValues(x) /\ ForeignKeyIntegrity(x)
<1>1. "FAIL" \notin Statuses(x) /\ "NOT_EVALUATED" \notin Statuses(x)
  BY DEF Gate
<1>2. \A c \in TargetChecks : TargetCheck(x, c) \in Statuses(x)
  BY DEF Statuses
<1>3. "fact_business_values" \in TargetChecks /\ "foreign_key_integrity" \in TargetChecks
  BY DEF TargetChecks
<1>4. x.target.ok
  BY <1>1, <1>2, <1>3 DEF TargetCheck
<1>5. /\ TargetCheck(x, "fact_business_values") = Verdict(FactBusinessValues(x))
      /\ TargetCheck(x, "foreign_key_integrity") = Verdict(ForeignKeyIntegrity(x))
  BY <1>4, SMTT(30) DEF TargetCheck
<1>6. \A b \in BOOLEAN : Verdict(b) # "FAIL" => b
  BY DEF Verdict
<1>7. FactBusinessValues(x) \in BOOLEAN /\ ForeignKeyIntegrity(x) \in BOOLEAN
  BY DEF FactBusinessValues, ForeignKeyIntegrity
<1> QED
  BY <1>1, <1>2, <1>3, <1>4, <1>5, <1>6, <1>7

\* What the truth expects of a row of the dataset.
Expected(r) ==
    [grain |-> [order |-> r.cells.order], event |-> r.entity, measure |-> r.cells.qty,
     dims |-> [dim_order |-> r.entity], date |-> r.cells.date, refs |-> {r.ref}]

LEMMA TruthExpects ==
  ASSUME NEW snap, NEW dataset, NEW canon
  PROVE  Truth(snap, dataset, canon).facts = {Expected(r) : r \in dataset.rows}
BY DEF Truth, TruthWith, Expected

\* A row that passes the gate, as a target tells it.
TellsRow(r) == <<r.ref, r.cells.order, r.cells.date, r.cells.qty>>
TellsFact(star, f) == <<CHOOSE r \in f.refs : TRUE, f.grain.order, DateOf(star, f), f.measure>>

LEMMA DateFound ==
  ASSUME NEW star, NEW f,
         \A m \in star.dims["dim_date"] : m.key = m.entity,
         \E m \in star.dims["dim_date"] : m.key = f.keys[2]
  PROVE  DateOf(star, f) = f.keys[2]
<1> DEFINE days == {m.entity : m \in star.dims["dim_date"]}
           P(t) == \E m \in star.dims["dim_date"] : m.entity = t /\ m.key = f.keys[2]
<1>1. \A t \in days : P(t) => t = f.keys[2]
  OBVIOUS
<1>2. f.keys[2] \in days /\ P(f.keys[2])
  OBVIOUS
<1>3. DateOf(star, f) = CHOOSE t \in days : P(t)
  BY DEF DateOf
<1> HIDE DEF days, P
<1>4. P(CHOOSE t \in days : P(t)) /\ (CHOOSE t \in days : P(t)) \in days
  BY <1>2, Zenon
<1> QED
  BY <1>1, <1>3, <1>4

\* Of a target that passes the gate each fact tells its row.
LEMMA GateTells ==
  ASSUME NEW rows, NEW members, NEW x, NEW star,
         star = Target(rows, members), star.ok, x.target = star,
         x.compiled.design = OrderDesign(rows),
         x.truth.facts = {Expected(r) : r \in rows},
         \A r, s \in rows : r.ref = s.ref => r = s,
         Gate(x) = "PASS"
  PROVE  /\ \A f \in star.facts : \E r \in rows : TellsFact(star, f) = TellsRow(r)
         /\ \A r \in rows : \E f \in star.facts : TellsFact(star, f) = TellsRow(r)
<1>1. FactBusinessValues(x) /\ ForeignKeyIntegrity(x)
  BY GatePasses
<1>2. \A r \in rows : \E f \in star.facts : r.ref \in f.refs /\ f.measure = r.cells.qty
  <2> SUFFICES ASSUME NEW r \in rows
               PROVE  \E f \in star.facts : r.ref \in f.refs /\ f.measure = r.cells.qty
    OBVIOUS
  <2>1. Expected(r) \in x.truth.facts
    OBVIOUS
  <2>2. PICK f \in star.facts : f.measure = Expected(r).measure /\ Expected(r).refs \subseteq f.refs
    BY <1>1, <2>1 DEF FactBusinessValues, Facts
  <2>3. Expected(r).measure = r.cells.qty /\ Expected(r).refs = {r.ref}
    BY DEF Expected
  <2> QED
    BY <2>2, <2>3
<1>3. \A f \in star.facts : \E m \in star.dims["dim_date"] : m.key = f.keys[2]
  <2>1. 2 \in DOMAIN x.compiled.design.fks /\ x.compiled.design.fks[2].dim = "dim_date"
    BY DesignParts DEF DateKey
  <2> QED
    BY <1>1, <2>1 DEF ForeignKeyIntegrity, Facts, Members
<1>4. /\ \A f \in star.facts : \E row \in rows :
            f = FactOf(rows, members, row) /\ Fate(OrderDesign(rows), members, row) = "load"
      /\ \A m \in star.dims["dim_date"] : m.key = m.entity
  BY TargetSays
<1>5. ASSUME NEW f \in star.facts, NEW row \in rows,
             f = FactOf(rows, members, row), Fate(OrderDesign(rows), members, row) = "load"
      PROVE  f.refs = {row.ref} /\ TellsFact(star, f) = <<row.ref, row.cells.order, row.cells.date, f.measure>>
  <2>1. f.refs = {row.ref} /\ f.grain.order = row.cells.order /\ f.keys[2] = row.cells.date
    BY <1>5, FactSays
  <2>2. DateOf(star, f) = row.cells.date
    BY <1>3, <1>4, <2>1, DateFound
  <2>3. (CHOOSE r \in f.refs : TRUE) = row.ref
    BY <2>1
  <2> QED
    BY <2>1, <2>2, <2>3 DEF TellsFact
<1>6. \A r \in rows : \E f \in star.facts :
          f = FactOf(rows, members, r) /\ TellsFact(star, f) = TellsRow(r)
  <2> SUFFICES ASSUME NEW r \in rows
               PROVE  \E f \in star.facts : f = FactOf(rows, members, r) /\ TellsFact(star, f) = TellsRow(r)
    OBVIOUS
  <2>1. PICK f \in star.facts : r.ref \in f.refs /\ f.measure = r.cells.qty
    BY <1>2
  <2>2. PICK row \in rows : f = FactOf(rows, members, row) /\ Fate(OrderDesign(rows), members, row) = "load"
    BY <1>4
  <2>3. f.refs = {row.ref} /\ TellsFact(star, f) = <<row.ref, row.cells.order, row.cells.date, f.measure>>
    BY <1>5, <2>2
  <2>4. row = r
    BY <2>1, <2>3
  <2> QED
    BY <2>1, <2>2, <2>3, <2>4 DEF TellsRow
<1>7. \A f \in star.facts : \E r \in rows : TellsFact(star, f) = TellsRow(r)
  BY <1>4, <1>6
<1> QED
  BY <1>6, <1>7

-----------------------------------------------------------------------------
(* Publishing.                                                             *)

IsList(s) == s \in Seq(ToSet(s))

LEMMA LastListed ==
  ASSUME NEW s, IsList(s), s # <<>>
  PROVE  Last(s) \in ToSet(s)
<1>1. Len(s) \in Nat /\ DOMAIN s = 1 .. Len(s) /\ Len(s) # 0
  BY DEF IsList
<1>2. Len(s) \in DOMAIN s
  BY <1>1
<1> QED
  BY <1>2 DEF Last, ToSet

LEMMA PublishLists ==
  ASSUME NEW s, NEW v, NEW first, IsList(s)
  PROVE  /\ IsList(Publish(s, v, first))
         /\ ToSet(Publish(s, v, first)) = ToSet(s) \cup {v}
         /\ Publish(s, v, first) # <<>>
<1> DEFINE new == Publish(s, v, first)
           T == ToSet(s) \cup {v}
<1>1. s \in Seq(T) /\ Len(s) \in Nat /\ DOMAIN s = 1 .. Len(s)
  BY DEF IsList
<1>2. CASE v \in ToSet(s)
  <2>1. new = s /\ T = ToSet(s)
    BY <1>2 DEF Publish
  <2>2. s # <<>>
    BY <1>2 DEF ToSet
  <2> QED
    BY <2>1, <2>2
<1>3. CASE v \notin ToSet(s) /\ first
  <2>1. new = <<v>> \o s
    BY <1>3 DEF Publish
  <2>2. <<v>> \in Seq(T) /\ Len(<<v>>) = 1 /\ <<v>>[1] = v
    OBVIOUS
  <2>3. new \in Seq(T) /\ Len(new) = 1 + Len(s)
    BY <1>1, <2>1, <2>2, ConcatProperties
  <2>4. new[1] = v /\ \A i \in 1 .. Len(s) : new[i + 1] = s[i]
    BY <1>1, <2>1, <2>2
  <2>5. DOMAIN new = 1 .. (1 + Len(s))
    BY <2>3
  <2>6. ToSet(new) \subseteq T
    BY <2>3 DEF ToSet
  <2>7. T \subseteq ToSet(new)
    <3>1. v \in ToSet(new)
      BY <1>1, <2>4, <2>5 DEF ToSet
    <3>2. \A i \in 1 .. Len(s) : s[i] \in ToSet(new)
      BY <1>1, <2>4, <2>5 DEF ToSet
    <3> QED
      BY <3>1, <3>2, <1>1 DEF ToSet
  <2>8. new # <<>>
    BY <2>3, <1>1
  <2> QED
    BY <2>3, <2>6, <2>7, <2>8 DEF IsList
<1>4. CASE v \notin ToSet(s) /\ ~first
  <2>1. new = Append(s, v)
    BY <1>4 DEF Publish
  <2>2. new \in Seq(T) /\ Len(new) = Len(s) + 1 /\ new[Len(s) + 1] = v
        /\ \A i \in 1 .. Len(s) : new[i] = s[i]
    BY <1>1, <2>1
  <2>3. DOMAIN new = 1 .. (Len(s) + 1)
    BY <2>2
  <2>4. ToSet(new) \subseteq T
    BY <2>2 DEF ToSet
  <2>5. T \subseteq ToSet(new)
    <3>1. v \in ToSet(new)
      BY <1>1, <2>2, <2>3 DEF ToSet
    <3>2. \A i \in 1 .. Len(s) : s[i] \in ToSet(new)
      BY <1>1, <2>2, <2>3 DEF ToSet
    <3> QED
      BY <3>1, <3>2, <1>1 DEF ToSet
  <2>6. new # <<>>
    BY <2>2, <1>1
  <2> QED
    BY <2>2, <2>4, <2>5, <2>6 DEF IsList
<1> QED
  BY <1>2, <1>3, <1>4

LEMMA PublishAllLists ==
  ASSUME NEW arts, NEW outputs, NEW upto, NEW first, NEW k \in Kinds, IsList(arts[k]),
         NEW new, new = PublishAll(arts, outputs, upto, first)
  PROVE  /\ IsList(new[k])
         /\ \A v \in ToSet(new[k]) : \/ v \in ToSet(arts[k])
                                     \/ \E i \in 1 .. upto : outputs[i].kind = k /\ v = outputs[i].value
         /\ (\A i \in 1 .. upto : outputs[i].kind # k) => new[k] = arts[k]
         /\ arts[k] # <<>> \/ (\E i \in 1 .. upto : outputs[i].kind = k) => new[k] # <<>>
<1> DEFINE mine == {i \in 1 .. upto : outputs[i].kind = k}
           j == CHOOSE i \in mine : TRUE
<1>1. new[k] = IF mine = {} THEN arts[k] ELSE Publish(arts[k], outputs[j].value, first)
  BY DEF PublishAll
<1>2. CASE mine = {}
  BY <1>1, <1>2
<1>3. CASE mine # {}
  <2>1. j \in mine
    BY <1>3
  <2>2. new[k] = Publish(arts[k], outputs[j].value, first)
    BY <1>1, <1>3
  <2> HIDE DEF j
  <2>3. IsList(new[k]) /\ ToSet(new[k]) = ToSet(arts[k]) \cup {outputs[j].value} /\ new[k] # <<>>
    BY <2>2, PublishLists
  <2> QED
    BY <2>1, <2>3
<1> QED
  BY <1>2, <1>3

-----------------------------------------------------------------------------
(* The artifacts the star rests on.  A stage publishes only while it is the *)
(* current one, and the run never goes back: what a later stage reads is    *)
(* settled.                                                                *)

Settled == {"SourceSnapshotResult", "CanonicalModel", "AnalyticalInputDataset",
            "AnalyticalPlan", "CompiledPlan", "MaterializationArtifact"}
StageOf(k) ==
    IF k = "SourceSnapshotResult" THEN 2
    ELSE IF k = "CanonicalModel" THEN 11
    ELSE IF k \in {"AnalyticalInputDataset", "AnalyticalPlan"} THEN 12
    ELSE IF k = "CompiledPlan" THEN 14 ELSE 16

\* The rows that planning makes of the snapshot and the canonical model.
RowsIn(arts) ==
    {DatasetRow(Last(arts["CanonicalModel"]), r) : r \in Last(arts["SourceSnapshotResult"]).rows}
OrderTables(rows) == [dim_order |-> rows, dim_date |-> {}]

\* What an artifact of a kind says.
Says(k, v, rows) ==
    /\ k = "SourceSnapshotResult" => v.rows \in Contents \cup Faulty
    /\ k = "AnalyticalInputDataset" => v.rows = rows
    /\ k \in {"AnalyticalPlan", "CompiledPlan"} => v.design = OrderDesign(rows)
    /\ k = "MaterializationArtifact" => v.file = Target(rows, OrderTables(rows))

ArtsOK(arts, n) ==
    /\ \A k \in Kinds : IsList(arts[k])
    /\ \A k \in Settled : n > StageOf(k) => arts[k] # <<>>
    /\ \A k \in Settled : n < StageOf(k) => arts[k] = <<>>
    /\ \A k \in Settled : \A v \in ToSet(arts[k]) : Says(k, v, RowsIn(arts))

HandlerOK(h, arts, n) ==
    /\ \E m \in 0 .. 4 : DOMAIN h.outputs = 1 .. m
    /\ \A i \in DOMAIN h.outputs : h.outputs[i].kind \in Settled =>
          /\ n = StageOf(h.outputs[i].kind)
          /\ Says(h.outputs[i].kind, h.outputs[i].value, RowsIn(arts))
    /\ h.ok => \A k \in Settled : n = StageOf(k) => \E i \in DOMAIN h.outputs : h.outputs[i].kind = k

LEMMA PublishKeeps ==
  ASSUME NEW arts, NEW n \in 1 .. 18, ArtsOK(arts, n), NEW h, HandlerOK(h, arts, n),
         NEW m \in 0 .. 4, DOMAIN h.outputs = 1 .. m, NEW upto \in 0 .. m, NEW first,
         NEW new, new = PublishAll(arts, h.outputs, upto, first),
         NEW next, next = n \/ (next = n + 1 /\ h.ok /\ upto = m)
  PROVE  ArtsOK(new, next)
<1>1. Settled \subseteq Kinds
  BY DEF Settled, Kinds
<1>2. \A k \in Kinds : IsList(arts[k])
  BY DEF ArtsOK
<1>3. \A k \in Kinds : IsList(new[k])
  BY <1>2, PublishAllLists
<1>4. \A k \in Settled : n # StageOf(k) => new[k] = arts[k]
  <2> SUFFICES ASSUME NEW k \in Settled, n # StageOf(k)
               PROVE  new[k] = arts[k]
    OBVIOUS
  <2>1. \A i \in 1 .. upto : h.outputs[i].kind # k
    BY DEF HandlerOK
  <2> QED
    BY <1>1, <1>2, <2>1, PublishAllLists
<1>5. \A k \in Settled : StageOf(k) \in Nat
  BY DEF StageOf
<1>6. ASSUME NEW k \in Settled, next > StageOf(k)
      PROVE  new[k] # <<>>
  <2>1. CASE n > StageOf(k)
    BY <1>1, <1>2, <2>1, PublishAllLists DEF ArtsOK
  <2>2. CASE ~(n > StageOf(k))
    <3>1. n = StageOf(k) /\ h.ok /\ upto = m
      BY <1>5, <1>6, <2>2
    <3>2. \E i \in 1 .. upto : h.outputs[i].kind = k
      BY <3>1 DEF HandlerOK
    <3> QED
      BY <1>1, <1>2, <3>2, PublishAllLists
  <2> QED
    BY <2>1, <2>2
<1>7. ASSUME NEW k \in Settled, next < StageOf(k)
      PROVE  new[k] = <<>>
  <2>1. n < StageOf(k)
    BY <1>5, <1>7
  <2> QED
    BY <1>4, <1>5, <2>1 DEF ArtsOK
<1>8. ASSUME NEW k \in Settled, NEW v \in ToSet(new[k])
      PROVE  Says(k, v, RowsIn(arts))
  <2>1. CASE v \in ToSet(arts[k])
    BY <2>1 DEF ArtsOK
  <2>2. CASE \E i \in 1 .. upto : h.outputs[i].kind = k /\ v = h.outputs[i].value
    BY <2>2 DEF HandlerOK
  <2> QED
    BY <1>1, <1>2, <2>1, <2>2, PublishAllLists
<1>9. ASSUME NEW k \in Settled, NEW v \in ToSet(new[k])
      PROVE  Says(k, v, RowsIn(new))
  <2>1. CASE k \in {"SourceSnapshotResult", "CanonicalModel"}
    BY <1>8, <2>1 DEF Says
  <2>2. CASE k \notin {"SourceSnapshotResult", "CanonicalModel"} /\ n >= 12
    <3>1. /\ new["SourceSnapshotResult"] = arts["SourceSnapshotResult"]
          /\ new["CanonicalModel"] = arts["CanonicalModel"]
      BY <1>4, <2>2 DEF Settled, StageOf
    <3>2. RowsIn(new) = RowsIn(arts)
      BY <3>1 DEF RowsIn
    <3> QED
      BY <1>8, <3>2
  <2>3. CASE k \notin {"SourceSnapshotResult", "CanonicalModel"} /\ n < 12
    <3>1. n < StageOf(k)
      BY <2>3 DEF StageOf, Settled
    <3>2. new[k] = <<>>
      BY <1>4, <1>5, <3>1 DEF ArtsOK
    <3> QED
      BY <3>2 DEF ToSet
  <2> QED
    BY <2>1, <2>2, <2>3
<1> QED
  BY <1>3, <1>6, <1>7, <1>9 DEF ArtsOK

-----------------------------------------------------------------------------
(* The handlers.                                                           *)

PipeInv ==
    /\ at \in 1 .. 18
    /\ file \in Contents \cup Faulty
    /\ ArtsOK(art, at)

LEMMA StageNames ==
  /\ Len(Stages) = 18
  /\ Stages[1] = "SOURCE_DISCOVERY"
  /\ Stages[2] = "SOURCE_SNAPSHOT_STAGE"
  /\ Stages[3] = "PROFILING"
  /\ Stages[4] = "DEPENDENCY_DISCOVERY"
  /\ Stages[5] = "QUALITY_ANALYSIS"
  /\ Stages[6] = "EVIDENCE_FUSION"
  /\ Stages[7] = "EVIDENCE"
  /\ Stages[8] = "CANONICAL_HYPOTHESES"
  /\ Stages[9] = "CANONICAL_IDENTITY_PREPARATION"
  /\ Stages[10] = "IDENTITY"
  /\ Stages[11] = "CANONICAL_FINALIZATION"
  /\ Stages[12] = "ANALYTICAL_PLANNING"
  /\ Stages[13] = "PLAN"
  /\ Stages[14] = "COMPILATION"
  /\ Stages[15] = "MATERIALIZATION_PLAN"
  /\ Stages[16] = "MATERIALIZATION"
  /\ Stages[17] = "SEMANTIC_MODELING"
  /\ Stages[18] = "VALIDATION_RECONCILIATION"
BY DEF Stages

\* Which handler runs.
LEMMA HandlerNames ==
  ASSUME at \in 1 .. 18, Stage \notin Checkpoints, NEW complete
  PROVE  \/ at = 1 /\ Handler(complete) = SourceDiscovery
         \/ at = 2 /\ Handler(complete) = SourceSnapshot
         \/ at = 3 /\ Handler(complete) = Engine("ProfileResult", complete)
         \/ at = 4 /\ Handler(complete) = DependencyDiscovery
         \/ at = 5 /\ Handler(complete) = Engine("QualityResult", complete)
         \/ at = 6 /\ Handler(complete) = EvidenceFusion(complete)
         \/ at = 8 /\ Handler(complete) = CanonicalHypotheses
         \/ at = 9 /\ Handler(complete) = IdentityProposal
         \/ at = 11 /\ Handler(complete) = CanonicalFinalization
         \/ at = 12 /\ Handler(complete) = AnalyticalPlanning
         \/ at = 14 /\ Handler(complete) = Compilation
         \/ at = 16 /\ Handler(complete) = Materialization
         \/ at = 17 /\ Handler(complete) = SemanticModeling
         \/ at = 18 /\ Handler(complete) = ValidationStage
<1>1. CASE at = 1
  <2>1. Stage = "SOURCE_DISCOVERY"
    BY <1>1, StageNames DEF Stage
  <2>2. Handler(complete) = SourceDiscovery
    BY <2>1, Zenon DEF Handler
  <2> QED
    BY <1>1, <2>2
<1>2. CASE at = 2
  <2>1. Stage = "SOURCE_SNAPSHOT_STAGE"
    BY <1>2, StageNames DEF Stage
  <2>2. Handler(complete) = SourceSnapshot
    BY <2>1, Zenon DEF Handler
  <2> QED
    BY <1>2, <2>2
<1>3. CASE at = 3
  <2>1. Stage = "PROFILING"
    BY <1>3, StageNames DEF Stage
  <2>2. Handler(complete) = Engine("ProfileResult", complete)
    BY <2>1, Zenon DEF Handler
  <2> QED
    BY <1>3, <2>2
<1>4. CASE at = 4
  <2>1. Stage = "DEPENDENCY_DISCOVERY"
    BY <1>4, StageNames DEF Stage
  <2>2. Handler(complete) = DependencyDiscovery
    BY <2>1, Zenon DEF Handler
  <2> QED
    BY <1>4, <2>2
<1>5. CASE at = 5
  <2>1. Stage = "QUALITY_ANALYSIS"
    BY <1>5, StageNames DEF Stage
  <2>2. Handler(complete) = Engine("QualityResult", complete)
    BY <2>1, Zenon DEF Handler
  <2> QED
    BY <1>5, <2>2
<1>6. CASE at = 6
  <2>1. Stage = "EVIDENCE_FUSION"
    BY <1>6, StageNames DEF Stage
  <2>2. Handler(complete) = EvidenceFusion(complete)
    BY <2>1, Zenon DEF Handler
  <2> QED
    BY <1>6, <2>2
<1>7. CASE at = 7
  <2>1. Stage = "EVIDENCE"
    BY <1>7, StageNames DEF Stage
  <2> QED
    BY <2>1 DEF Checkpoints
<1>8. CASE at = 8
  <2>1. Stage = "CANONICAL_HYPOTHESES"
    BY <1>8, StageNames DEF Stage
  <2>2. Handler(complete) = CanonicalHypotheses
    BY <2>1, Zenon DEF Handler
  <2> QED
    BY <1>8, <2>2
<1>9. CASE at = 9
  <2>1. Stage = "CANONICAL_IDENTITY_PREPARATION"
    BY <1>9, StageNames DEF Stage
  <2>2. Handler(complete) = IdentityProposal
    BY <2>1, Zenon DEF Handler
  <2> QED
    BY <1>9, <2>2
<1>10. CASE at = 10
  <2>1. Stage = "IDENTITY"
    BY <1>10, StageNames DEF Stage
  <2> QED
    BY <2>1 DEF Checkpoints
<1>11. CASE at = 11
  <2>1. Stage = "CANONICAL_FINALIZATION"
    BY <1>11, StageNames DEF Stage
  <2>2. Handler(complete) = CanonicalFinalization
    BY <2>1, Zenon DEF Handler
  <2> QED
    BY <1>11, <2>2
<1>12. CASE at = 12
  <2>1. Stage = "ANALYTICAL_PLANNING"
    BY <1>12, StageNames DEF Stage
  <2>2. Handler(complete) = AnalyticalPlanning
    BY <2>1, Zenon DEF Handler
  <2> QED
    BY <1>12, <2>2
<1>13. CASE at = 13
  <2>1. Stage = "PLAN"
    BY <1>13, StageNames DEF Stage
  <2> QED
    BY <2>1 DEF Checkpoints
<1>14. CASE at = 14
  <2>1. Stage = "COMPILATION"
    BY <1>14, StageNames DEF Stage
  <2>2. Handler(complete) = Compilation
    BY <2>1, Zenon DEF Handler
  <2> QED
    BY <1>14, <2>2
<1>15. CASE at = 15
  <2>1. Stage = "MATERIALIZATION_PLAN"
    BY <1>15, StageNames DEF Stage
  <2> QED
    BY <2>1 DEF Checkpoints
<1>16. CASE at = 16
  <2>1. Stage = "MATERIALIZATION"
    BY <1>16, StageNames DEF Stage
  <2>2. Handler(complete) = Materialization
    BY <2>1, Zenon DEF Handler
  <2> QED
    BY <1>16, <2>2
<1>17. CASE at = 17
  <2>1. Stage = "SEMANTIC_MODELING"
    BY <1>17, StageNames DEF Stage
  <2>2. Handler(complete) = SemanticModeling
    BY <2>1, Zenon DEF Handler
  <2> QED
    BY <1>17, <2>2
<1>18. CASE at = 18
  <2>1. Stage = "VALIDATION_RECONCILIATION"
    BY <1>18, StageNames DEF Stage
  <2>2. Handler(complete) = ValidationStage
    BY <2>1, Zenon DEF Handler
  <2> QED
    BY <1>18, <2>2
<1> QED
  BY <1>1, <1>2, <1>3, <1>4, <1>5, <1>6, <1>7, <1>8, <1>9, <1>10, <1>11, <1>12, <1>13, <1>14, <1>15, <1>16, <1>17, <1>18

LEMMA OutKind ==
  ASSUME NEW kind, NEW id, NEW fields
  PROVE  Out(kind, id, fields).kind = kind
BY DEF Out

\* A handler that publishes none of the settled kinds.
Aside(h) ==
    \E m \in 0 .. 4 : DOMAIN h.outputs = 1 .. m /\ \A i \in 1 .. m : h.outputs[i].kind \notin Settled

LEMMA AsideOK ==
  ASSUME NEW h, Aside(h), NEW n \in (1 .. 18) \ {2, 11, 12, 14, 16}
  PROVE  HandlerOK(h, art, n)
BY DEF Aside, HandlerOK, StageOf

LEMMA AsideNone ==
  Aside(Done(<<>>)) /\ Aside(Failing(<<>>))
<1>1. DOMAIN <<>> = 1 .. 0 /\ 0 \in 0 .. 4
  OBVIOUS
<1> QED
  BY <1>1 DEF Aside, Done, Failing

LEMMA AsideOne ==
  ASSUME NEW o, o.kind \notin Settled
  PROVE  Aside(Done(<<o>>)) /\ Aside(Failing(<<o>>))
<1>1. DOMAIN <<o>> = 1 .. 1 /\ \A i \in 1 .. 1 : <<o>>[i] = o
  OBVIOUS
<1> QED
  BY <1>1 DEF Aside, Done, Failing

LEMMA AsideTwo ==
  ASSUME NEW o, NEW p, o.kind \notin Settled, p.kind \notin Settled
  PROVE  Aside(Done(<<o, p>>)) /\ Aside(Failing(<<o, p>>))
<1>1. DOMAIN <<o, p>> = 1 .. 2 /\ \A i \in 1 .. 2 : <<o, p>>[i] \in {o, p}
  OBVIOUS
<1> QED
  BY <1>1 DEF Aside, Done, Failing

LEMMA AsideThree ==
  ASSUME NEW o, NEW p, NEW q, o.kind \notin Settled, p.kind \notin Settled, q.kind \notin Settled
  PROVE  Aside(Done(<<o, p, q>>)) /\ Aside(Failing(<<o, p, q>>))
<1>1. DOMAIN <<o, p, q>> = 1 .. 3 /\ \A i \in 1 .. 3 : <<o, p, q>>[i] \in {o, p, q}
  OBVIOUS
<1> QED
  BY <1>1 DEF Aside, Done, Failing

LEMMA AsideFour ==
  ASSUME NEW o, NEW p, NEW q, NEW r,
         o.kind \notin Settled, p.kind \notin Settled, q.kind \notin Settled, r.kind \notin Settled
  PROVE  Aside(Done(<<o, p, q, r>>)) /\ Aside(Failing(<<o, p, q, r>>))
<1>1. DOMAIN <<o, p, q, r>> = 1 .. 4 /\ \A i \in 1 .. 4 : <<o, p, q, r>>[i] \in {o, p, q, r}
  OBVIOUS
<1> QED
  BY <1>1 DEF Aside, Done, Failing

LEMMA AnalysesAside ==
  ASSUME NEW complete
  PROVE  /\ Aside(SourceDiscovery)
         /\ Aside(Engine("ProfileResult", complete)) /\ Aside(Engine("QualityResult", complete))
         /\ Aside(DependencyDiscovery)
         /\ Aside(EvidenceFusion(complete))
         /\ Aside(CanonicalHypotheses) /\ Aside(IdentityProposal)
<1>1. Aside(SourceDiscovery)
  BY OutKind, AsideOne DEF SourceDiscovery, Settled
<1>2. ASSUME NEW k, k \notin Settled
      PROVE  Aside(Engine(k, complete))
  BY <1>2, OutKind, AsideOne DEF Engine
<1>3. Aside(Engine("ProfileResult", complete)) /\ Aside(Engine("QualityResult", complete))
  BY <1>2 DEF Settled
<1>4. Aside(DependencyDiscovery)
  BY OutKind, AsideOne DEF DependencyDiscovery, Settled
<1>5. Aside(EvidenceFusion(complete))
  BY OutKind, AsideNone, AsideThree DEF EvidenceFusion, Settled
<1>6. Aside(CanonicalHypotheses)
  BY OutKind, AsideNone, AsideOne DEF CanonicalHypotheses, Settled
<1>7. Aside(IdentityProposal)
  BY OutKind, AsideNone, AsideOne DEF IdentityProposal, Settled
<1> QED
  BY <1>1, <1>3, <1>4, <1>5, <1>6, <1>7

LEMMA ReportsAside ==
  Aside(SemanticModeling) /\ Aside(ValidationStage)
<1>1. Aside(SemanticModeling)
  BY OutKind, AsideNone, AsideTwo DEF SemanticModeling, Settled
<1>2. ASSUME NEW snap, NEW mat, NEW gate
      PROVE  Aside(Reported(snap, mat, gate))
  BY OutKind, AsideFour DEF Reported, Settled
<1>3. Aside(ValidationStage)
  BY <1>2, AsideNone DEF ValidationStage
<1> QED
  BY <1>1, <1>3

\* The stages that settle something.
LEMMA SnapshotOK ==
  ASSUME PipeInv
  PROVE  HandlerOK(SourceSnapshot, art, 2)
<1> DEFINE o == Out("SourceSnapshotResult", file, [snap |-> file, rows |-> file])
<1>1. o.kind = "SourceSnapshotResult" /\ o.value.rows = file
  BY DEF Out
<1>2. Says("SourceSnapshotResult", o.value, RowsIn(art))
  BY <1>1 DEF Says, PipeInv
<1>3. SourceSnapshot.outputs = <<o>>
  BY DEF SourceSnapshot, Done
<1> HIDE DEF o
<1>4. DOMAIN <<o>> = 1 .. 1 /\ \A i \in 1 .. 1 : <<o>>[i] = o
  OBVIOUS
<1>5. \A k \in Settled : 2 = StageOf(k) <=> k = "SourceSnapshotResult"
  BY DEF Settled, StageOf
<1> QED
  BY <1>1, <1>2, <1>3, <1>4, <1>5 DEF HandlerOK, Settled

LEMMA FinalizationOK ==
  HandlerOK(CanonicalFinalization, art, 11)
<1>1. \A k \in Settled : 11 = StageOf(k) <=> k = "CanonicalModel"
  BY DEF Settled, StageOf
<1>2. ASSUME NEW o, o.kind = "CanonicalModel"
      PROVE  HandlerOK(Done(<<o>>), art, 11)
  <2>1. DOMAIN <<o>> = 1 .. 1 /\ \A i \in 1 .. 1 : <<o>>[i] = o
    OBVIOUS
  <2>2. Done(<<o>>).outputs = <<o>>
    BY DEF Done
  <2>3. Says("CanonicalModel", o.value, RowsIn(art))
    BY DEF Says
  <2> QED
    BY <1>1, <1>2, <2>1, <2>2, <2>3 DEF HandlerOK, Settled
<1>3. HandlerOK(Failing(<<>>), art, 11)
  <2>1. DOMAIN <<>> = 1 .. 0 /\ Failing(<<>>).outputs = <<>> /\ ~Failing(<<>>).ok
    BY DEF Failing
  <2> QED
    BY <2>1 DEF HandlerOK
<1> QED
  BY <1>2, <1>3, OutKind DEF CanonicalFinalization

LEMMA PlanningOK ==
  HandlerOK(AnalyticalPlanning, art, 12)
<1> DEFINE canon == Latest("CanonicalModel")
           s == Snapshot
           rows == {DatasetRow(canon, r) : r \in s.rows}
           dataset == Out("AnalyticalInputDataset", s.snap,
                          [snap |-> s.snap, canonical |-> canon.ref, rows |-> rows])
           binding == Out("AnalyticalInputBinding", s.snap,
                          [snap |-> s.snap, canonical |-> canon.ref, dataset |-> dataset.value.ref])
           design == OrderDesign(rows)
           plan == Out("AnalyticalPlan", s.snap, [snap |-> s.snap, canonical |-> canon.ref,
                          binding |-> binding.value.ref, design |-> design])
           specs == Out("Specs", s.snap, [plan |-> plan.value.ref, design |-> design])
<1>1. AnalyticalPlanning \in {Failing(<<>>), Failing(<<dataset, binding>>),
                             Done(<<dataset, binding, plan, specs>>)}
  BY DEF AnalyticalPlanning
<1>2. rows = RowsIn(art)
  BY DEF RowsIn, Latest, Snapshot
<1>3. dataset.kind = "AnalyticalInputDataset" /\ dataset.value.rows = rows
  BY DEF Out
<1>4. plan.kind = "AnalyticalPlan" /\ plan.value.design = OrderDesign(rows)
  <2> HIDE DEF binding, rows
  <2> QED
    BY DEF Out
<1>5. binding.kind = "AnalyticalInputBinding" /\ specs.kind = "Specs"
  BY OutKind
<1> HIDE DEF rows, dataset, binding, plan, specs
<1>6. /\ Says("AnalyticalInputDataset", dataset.value, RowsIn(art))
      /\ Says("AnalyticalPlan", plan.value, RowsIn(art))
  BY <1>2, <1>3, <1>4 DEF Says
<1>7. \A k \in Settled : 12 = StageOf(k) <=> k \in {"AnalyticalInputDataset", "AnalyticalPlan"}
  BY DEF Settled, StageOf
<1>8. HandlerOK(Failing(<<>>), art, 12)
  <2>1. DOMAIN <<>> = 1 .. 0 /\ Failing(<<>>).outputs = <<>> /\ ~Failing(<<>>).ok
    BY DEF Failing
  <2> QED
    BY <2>1 DEF HandlerOK
<1>9. HandlerOK(Failing(<<dataset, binding>>), art, 12)
  <2> DEFINE h == Failing(<<dataset, binding>>)
  <2>1. /\ DOMAIN h.outputs = 1 .. 2 /\ ~h.ok
        /\ h.outputs[1] = dataset /\ h.outputs[2] = binding
    BY DEF Failing
  <2> HIDE DEF h
  <2>2. \A i \in 1 .. 2 : i = 1 \/ i = 2
    OBVIOUS
  <2>3. HandlerOK(h, art, 12)
    BY <1>3, <1>5, <1>6, <1>7, <2>1, <2>2 DEF HandlerOK, Settled
  <2> QED
    BY <2>3 DEF h
<1>10. HandlerOK(Done(<<dataset, binding, plan, specs>>), art, 12)
  <2> DEFINE h == Done(<<dataset, binding, plan, specs>>)
  <2>1. /\ DOMAIN h.outputs = 1 .. 4
        /\ h.outputs[1] = dataset /\ h.outputs[2] = binding
        /\ h.outputs[3] = plan /\ h.outputs[4] = specs
    BY DEF Done
  <2> HIDE DEF h
  <2>2. \A i \in 1 .. 4 : i = 1 \/ i = 2 \/ i = 3 \/ i = 4
    OBVIOUS
  <2>3. \A i \in DOMAIN h.outputs : h.outputs[i].kind \in Settled =>
          /\ 12 = StageOf(h.outputs[i].kind)
          /\ Says(h.outputs[i].kind, h.outputs[i].value, RowsIn(art))
    BY <1>3, <1>4, <1>5, <1>6, <1>7, <2>1, <2>2 DEF Settled
  <2>4. \A k \in Settled : 12 = StageOf(k) => \E i \in DOMAIN h.outputs : h.outputs[i].kind = k
    BY <1>3, <1>4, <1>7, <2>1
  <2>5. HandlerOK(h, art, 12)
    BY <2>1, <2>3, <2>4 DEF HandlerOK
  <2> QED
    BY <2>5 DEF h
<1> QED
  BY <1>1, <1>8, <1>9, <1>10

\* The last artifact of a settled kind says what every artifact of it does.
LEMMA LatestSays ==
  ASSUME PipeInv, NEW k \in Settled, at > StageOf(k)
  PROVE  Latest(k) \in All(k) /\ Says(k, Latest(k), RowsIn(art))
<1>1. art[k] # <<>> /\ IsList(art[k])
  BY DEF PipeInv, ArtsOK, Settled, Kinds
<1>2. Last(art[k]) \in ToSet(art[k])
  BY <1>1, LastListed
<1> QED
  BY <1>2 DEF PipeInv, ArtsOK, Latest, All

LEMMA CompilationOK ==
  ASSUME PipeInv, at = 14
  PROVE  HandlerOK(Compilation, art, 14)
<1> DEFINE plan == Latest("AnalyticalPlan")
<1>1. plan.design = OrderDesign(RowsIn(art))
  BY LatestSays DEF Says, Settled, StageOf
<1>2. \A k \in Settled : 14 = StageOf(k) <=> k = "CompiledPlan"
  BY DEF Settled, StageOf
<1>3. HandlerOK(Failing(<<>>), art, 14)
  <2>1. DOMAIN <<>> = 1 .. 0 /\ Failing(<<>>).outputs = <<>> /\ ~Failing(<<>>).ok
    BY DEF Failing
  <2> QED
    BY <2>1 DEF HandlerOK
<1>4. ASSUME NEW binding, NEW sql, sql.kind = "GeneratedSQL"
      PROVE  HandlerOK(Done(CompiledOutputs(plan, binding, sql)), art, 14)
  <2> DEFINE o == Out("CompiledPlan", plan.snap,
                      [snap |-> plan.snap, plan |-> plan.ref, binding |-> binding.ref,
                       canonical |-> plan.canonical, design |-> plan.design, sql |-> sql.value.ref])
             h == Done(CompiledOutputs(plan, binding, sql))
  <2> HIDE DEF plan
  <2>1. o.kind = "CompiledPlan" /\ o.value.design = plan.design
    BY DEF Out
  <2>2. h.outputs = <<o, sql>>
    BY DEF Done, CompiledOutputs
  <2> HIDE DEF o, h
  <2>3. DOMAIN h.outputs = 1 .. 2 /\ h.outputs[1] = o /\ h.outputs[2] = sql
    BY <2>2
  <2>4. Says("CompiledPlan", o.value, RowsIn(art))
    BY <1>1, <2>1 DEF Says
  <2>5. \A i \in 1 .. 2 : i = 1 \/ i = 2
    OBVIOUS
  <2>6. HandlerOK(h, art, 14)
    BY <1>2, <1>4, <2>1, <2>3, <2>4, <2>5 DEF HandlerOK, Settled
  <2> QED
    BY <2>6 DEF h
<1>5. ASSUME NEW dataset, NEW binding, NEW star
      PROVE  HandlerOK(CompileStar(plan, dataset, binding, star), art, 14)
  BY <1>3, <1>4, OutKind DEF CompileStar
<1> QED
  BY <1>5 DEF Compilation

LEMMA MaterializationOK ==
  ASSUME PipeInv, at = 16
  PROVE  HandlerOK(Materialization, art, 16)
<1> DEFINE compiled == Latest("CompiledPlan")
           dataset == Latest("AnalyticalInputDataset")
           rows == RowsIn(art)
<1>1. compiled.design = OrderDesign(rows) /\ dataset.rows = rows
  BY LatestSays DEF Says, Settled, StageOf
<1>2. Build(compiled.design, Compile(compiled.design, Tables(dataset), dataset.rows))
        = Target(rows, OrderTables(rows))
  BY <1>1 DEF Target, Tables, OrderTables
<1>3. \A k \in Settled : 16 = StageOf(k) <=> k = "MaterializationArtifact"
  BY DEF Settled, StageOf
<1>4. HandlerOK(Failing(<<>>), art, 16)
  <2>1. DOMAIN <<>> = 1 .. 0 /\ Failing(<<>>).outputs = <<>> /\ ~Failing(<<>>).ok
    BY DEF Failing
  <2> QED
    BY <2>1 DEF HandlerOK
<1>5. ASSUME NEW sql, NEW binding, NEW built, built = Target(rows, OrderTables(rows))
      PROVE  HandlerOK(MaterializeInto(compiled, sql, dataset, binding, built), art, 16)
  <2> DEFINE o == Out("MaterializationArtifact", compiled.snap,
                     [snap |-> compiled.snap, ok |-> built.ok, file |-> built, compiled |-> compiled.ref,
                      quarantine |-> sql.quarantine])
             h == MaterializeInto(compiled, sql, dataset, binding, built)
  <2> HIDE DEF compiled, dataset, rows
  <2>1. o.kind = "MaterializationArtifact" /\ o.value.file = built
    BY DEF Out
  <2>2. (h.outputs = <<>> /\ ~h.ok) \/ h.outputs = <<o>>
    BY DEF MaterializeInto, Done, Failing
  <2> HIDE DEF o, h
  <2>3. CASE h.outputs = <<>> /\ ~h.ok
    <3>1. DOMAIN h.outputs = 1 .. 0
      BY <2>3
    <3>2. HandlerOK(h, art, 16)
      BY <2>3, <3>1 DEF HandlerOK
    <3> QED
      BY <3>2 DEF h
  <2>4. CASE h.outputs = <<o>>
    <3>1. DOMAIN h.outputs = 1 .. 1 /\ \A i \in 1 .. 1 : h.outputs[i] = o
      BY <2>4
    <3>2. Says("MaterializationArtifact", o.value, RowsIn(art))
      BY <1>5, <2>1 DEF Says, rows
    <3>3. HandlerOK(h, art, 16)
      BY <1>3, <2>1, <3>1, <3>2 DEF HandlerOK, Settled
    <3> QED
      BY <3>3 DEF h
  <2> QED
    BY <2>2, <2>3, <2>4
<1> QED
  BY <1>2, <1>5 DEF Materialization

LEMMA HandlersOK ==
  ASSUME PipeInv, Stage \notin Checkpoints, NEW complete
  PROVE  HandlerOK(Handler(complete), art, at)
<1>1. at \in 1 .. 18
  BY DEF PipeInv
<1>2. CASE at = 2
  BY <1>1, <1>2, HandlerNames, SnapshotOK
<1>3. CASE at = 11
  BY <1>1, <1>3, HandlerNames, FinalizationOK
<1>4. CASE at = 12
  BY <1>1, <1>4, HandlerNames, PlanningOK
<1>5. CASE at = 14
  BY <1>1, <1>5, HandlerNames, CompilationOK
<1>6. CASE at = 16
  BY <1>1, <1>6, HandlerNames, MaterializationOK
<1>7. CASE at \notin {2, 11, 12, 14, 16}
  <2>1. Aside(Handler(complete))
    BY <1>1, <1>7, HandlerNames, AnalysesAside, ReportsAside
  <2> QED
    BY <1>1, <1>7, <2>1, AsideOK
<1> QED
  BY <1>2, <1>3, <1>4, <1>5, <1>6, <1>7

-----------------------------------------------------------------------------
(* The steps.                                                              *)

LEMMA AcceptedCount ==
  ASSUME NEW arts, NEW outputs, NEW m \in 0 .. 4, DOMAIN outputs = 1 .. m
  PROVE  /\ Cardinality(Accepted(arts, outputs)) \in 0 .. m
         /\ Accepted(arts, outputs) = DOMAIN outputs => Cardinality(Accepted(arts, outputs)) = m
<1> DEFINE A == Accepted(arts, outputs)
<1>1. IsFiniteSet(1 .. m) /\ Cardinality(1 .. m) = m
  <2>1. m \in Int /\ 1 \in Int
    OBVIOUS
  <2>2. IsFiniteSet(1 .. m) /\ Cardinality(1 .. m) = IF 1 > m THEN 0 ELSE m - 1 + 1
    BY <2>1, FS_Interval
  <2> QED
    BY <2>2
<1>2. A \subseteq 1 .. m
  BY DEF Accepted
<1>3. IsFiniteSet(A) /\ Cardinality(A) <= m
  BY <1>1, <1>2, FS_Subset
<1>4. Cardinality(A) \in Nat
  BY <1>3, FS_CardinalityType
<1> QED
  BY <1>1, <1>3, <1>4

LEMMA InitKeeps ==
  ASSUME PipelineInit
  PROVE  PipeInv
<1>1. at = 1 /\ file \in Contents /\ \A k \in Kinds : art[k] = <<>>
  BY DEF PipelineInit
<1>2. Settled \subseteq Kinds
  BY DEF Settled, Kinds
<1>3. IsList(<<>>) /\ ToSet(<<>>) = {}
  BY DEF IsList, ToSet
<1>4. \A k \in Settled : StageOf(k) \in Nat /\ StageOf(k) >= 2
  BY DEF StageOf
<1>5. \A k \in Settled : art[k] = <<>> /\ ToSet(art[k]) = {} /\ ~(at > StageOf(k))
  BY <1>1, <1>2, <1>3, <1>4
<1>6. \A k \in Kinds : IsList(art[k])
  BY <1>1, <1>3
<1>7. ArtsOK(art, at)
  <2>1. \A k \in Settled : at > StageOf(k) => art[k] # <<>>
    BY <1>5
  <2>2. \A k \in Settled : at < StageOf(k) => art[k] = <<>>
    BY <1>5
  <2>3. \A k \in Settled : \A v \in ToSet(art[k]) : Says(k, v, RowsIn(art))
    BY <1>5
  <2> QED
    BY <1>6, <2>1, <2>2, <2>3 DEF ArtsOK
<1> QED
  BY <1>1, <1>7 DEF PipeInv

LEMMA ExecuteKeeps ==
  ASSUME PipeInv, NEW complete, NEW first, Execute(complete, first)
  PROVE  PipeInv'
<1> DEFINE h == Handler(complete)
           accepted == Accepted(art, h.outputs)
<1>1. HandlerOK(h, art, at)
  BY HandlersOK DEF Execute
<1>2. PICK m \in 0 .. 4 : DOMAIN h.outputs = 1 .. m
  BY <1>1 DEF HandlerOK
<1>3. Cardinality(accepted) \in 0 .. m /\ (accepted = DOMAIN h.outputs => Cardinality(accepted) = m)
  BY <1>2, AcceptedCount
<1>4. /\ art' = PublishAll(art, h.outputs, Cardinality(accepted), first)
      /\ IF h.ok /\ accepted = DOMAIN h.outputs THEN Advance
         ELSE status' = "FAILED" /\ UNCHANGED <<at, attempt>>
      /\ file' = file
  BY DEF Execute, SettleStage
<1>5. at \in 1 .. 18
  BY DEF PipeInv
<1> HIDE DEF h, accepted
<1>6. at' = at \/ (at' = at + 1 /\ at # 18 /\ h.ok /\ accepted = DOMAIN h.outputs)
  BY <1>4, StageNames DEF Advance
<1>7. ArtsOK(art', at')
  <2>1. at' = at \/ (at' = at + 1 /\ h.ok /\ Cardinality(accepted) = m)
    BY <1>3, <1>6
  <2>2. ArtsOK(art, at)
    BY DEF PipeInv
  <2> QED
    BY <1>1, <1>2, <1>3, <1>4, <1>5, <2>1, <2>2, PublishKeeps
<1> QED
  BY <1>4, <1>5, <1>6, <1>7 DEF PipeInv

LEMMA BreakOffKeeps ==
  ASSUME PipeInv, NEW upto, NEW first, BreakOff(upto, first)
  PROVE  PipeInv'
<1> DEFINE h == Handler(TRUE)
<1>1. HandlerOK(h, art, at)
  BY HandlersOK DEF BreakOff
<1>2. PICK m \in 0 .. 4 : DOMAIN h.outputs = 1 .. m
  BY <1>1 DEF HandlerOK
<1>3. Cardinality(Accepted(art, h.outputs)) \in 0 .. m
  BY <1>2, AcceptedCount
<1>4. /\ upto \in 0 .. Cardinality(Accepted(art, h.outputs))
      /\ art' = PublishAll(art, h.outputs, upto, first)
      /\ at' = at /\ file' = file
  BY DEF BreakOff, LeaveOff
<1>5. at \in 1 .. 18
  BY DEF PipeInv
<1> HIDE DEF h
<1>6. upto \in 0 .. m
  BY <1>3, <1>4
<1>7. ArtsOK(art', at')
  <2>1. ArtsOK(art, at)
    BY DEF PipeInv
  <2> QED
    BY <1>1, <1>2, <1>4, <1>5, <1>6, <2>1, PublishKeeps
<1> QED
  BY <1>4, <1>5, <1>7 DEF PipeInv

\* A review passes a checkpoint, and no checkpoint settles anything.
LEMMA ReviewKeeps ==
  ASSUME PipeInv, NEW verdict, Review(verdict)
  PROVE  PipeInv'
<1>1. art' = art /\ file' = file /\ (at' = at \/ at' = at + 1) /\ Stage \in Checkpoints
  BY DEF Review
<1>2. at \in {7, 10, 13, 15}
  <2>1. at \in 1 .. 18
    BY DEF PipeInv
  <2> QED
    BY <1>1, <2>1, StageNames DEF Stage, Checkpoints
<1>3. ArtsOK(art, at)
  BY DEF PipeInv
<1>4. ArtsOK(art, at')
  <2>1. PICK next : next = at'
    OBVIOUS
  <2>2. ASSUME NEW k \in Settled
        PROVE  /\ next > StageOf(k) => art[k] # <<>>
               /\ next < StageOf(k) => art[k] = <<>>
    <3>1. /\ at > StageOf(k) => art[k] # <<>>
          /\ at < StageOf(k) => art[k] = <<>>
      BY <1>3 DEF ArtsOK
    <3>2. StageOf(k) \in {2, 11, 12, 14, 16}
      BY DEF StageOf
    <3> QED
      BY <1>1, <1>2, <2>1, <3>1, <3>2
  <2>3. /\ \A k \in Settled : next > StageOf(k) => art[k] # <<>>
        /\ \A k \in Settled : next < StageOf(k) => art[k] = <<>>
    BY <2>2
  <2>4. /\ \A k \in Kinds : IsList(art[k])
        /\ \A k \in Settled : \A v \in ToSet(art[k]) : Says(k, v, RowsIn(art))
    BY <1>3 DEF ArtsOK
  <2>5. ArtsOK(art, next)
    BY <2>3, <2>4 DEF ArtsOK
  <2> QED
    BY <2>1, <2>5
<1> QED
  BY <1>1, <1>2, <1>4 DEF PipeInv

LEMMA OthersKeep ==
  ASSUME PipeInv,
         \/ Resume
         \/ \E i \in DOMAIN reviews : Withdraw(i)
         \/ \E content \in Faulty : EditSource(content)
         \/ target.ok /\ \E f \in target.facts : EditTarget(f)
         \/ UNCHANGED pipeVars
  PROVE  PipeInv'
<1>1. art' = art /\ at' = at /\ file' \in Contents \cup Faulty
  BY DEF Resume, Withdraw, EditSource, EditTarget, pipeVars, PipeInv
<1> QED
  BY <1>1 DEF PipeInv

LEMMA StepKeeps ==
  ASSUME PipeInv, [PipelineNext]_pipeVars
  PROVE  PipeInv'
BY ExecuteKeeps, BreakOffKeeps, ReviewKeeps, OthersKeep DEF PipelineNext

-----------------------------------------------------------------------------
(* The gate.                                                               *)

\* What the last stage saw when it passes.
LEMMA PassSeen ==
  ASSUME PipeInv, at = 18, ValidationStage.ok
  PROVE  target.ok /\ \E s \in All("SourceSnapshotResult") : Loaded(target) = Told(s.rows)
<1> DEFINE dataset == Latest("AnalyticalInputDataset")
           canon == Latest("CanonicalModel")
           mat == Latest("MaterializationArtifact")
           truth == Truth(Snapshot.snap, dataset, canon)
           x == GateInputs(truth, dataset, canon, mat)
           rows == RowsIn(art)
           source == Snapshot.rows
<1>1. Gate(x) = "PASS"
  BY DEF ValidationStage, Reported, Failing
<1>2. /\ x.target = ReadTarget(target, mat) /\ x.truth = truth
      /\ x.compiled = Latest("CompiledPlan")
  BY DEF GateInputs
<1>3. x.target.ok
  BY <1>1, GatePasses
<1>4. target = mat.file /\ target.ok /\ x.target = target
  BY <1>2, <1>3 DEF ReadTarget, Raised
<1>5. /\ dataset.rows = rows
      /\ mat.file = Target(rows, OrderTables(rows))
      /\ Latest("CompiledPlan").design = OrderDesign(rows)
      /\ Snapshot \in All("SourceSnapshotResult")
      /\ source \in Contents \cup Faulty
  BY LatestSays DEF Says, Settled, StageOf, Snapshot
<1>6. x.truth.facts = {Expected(r) : r \in rows}
  BY <1>2, <1>5, TruthExpects
<1>7. rows = {DatasetRow(canon, r) : r \in source}
  BY DEF RowsIn, Latest, Snapshot
<1>8. \A r : /\ DatasetRow(canon, r).ref = r.ref
             /\ DatasetRow(canon, r).cells.order = r.order
             /\ DatasetRow(canon, r).cells.date = r.date
             /\ DatasetRow(canon, r).cells.qty = r.qty
  BY DEF DatasetRow
<1>9. \A r, s \in rows : r.ref = s.ref => r = s
  <2>1. \A r, s \in source : r.ref = s.ref => r = s
    BY <1>5, ContentsAssumption
  <2> QED
    BY <1>7, <1>8, <2>1
<1> HIDE DEF dataset, canon, mat, truth, x, rows, source
<1>10. /\ \A f \in target.facts : \E r \in rows : TellsFact(target, f) = TellsRow(r)
       /\ \A r \in rows : \E f \in target.facts : TellsFact(target, f) = TellsRow(r)
  BY <1>1, <1>2, <1>4, <1>5, <1>6, <1>9, GateTells
<1>11. Loaded(target) = {TellsFact(target, f) : f \in target.facts}
  BY DEF Loaded, TellsFact
<1>12. Told(source) = {TellsRow(r) : r \in rows}
  BY <1>7, <1>8 DEF Told, TellsRow
<1>13. Loaded(target) = Told(source)
  BY <1>10, <1>11, <1>12
<1> QED
  BY <1>4, <1>5, <1>13 DEF source

LEMMA GateStep ==
  ASSUME PipeInv, [PipelineNext]_pipeVars, status' = "SUCCEEDED", status # "SUCCEEDED"
  PROVE  target'.ok /\ \E s \in All("SourceSnapshotResult") : Loaded(target') = Told(s.rows)
<1>1. PICK complete, first \in BOOLEAN : Execute(complete, first)
  BY DEF PipelineNext, BreakOff, Resume, Review, Withdraw, EditSource, EditTarget, pipeVars
<1>2. Handler(complete).ok /\ at = Len(Stages) /\ target' = Handler(complete).target
  BY <1>1 DEF Execute, SettleStage, Advance
<1>3. at = 18 /\ Stage \notin Checkpoints
  BY <1>1, <1>2, StageNames DEF Execute
<1>4. Handler(complete) = ValidationStage
  BY <1>3, HandlerNames
<1>5. ValidationStage.target = target
  BY DEF ValidationStage, Reported, Done, Failing
<1>6. target' = target
  BY <1>2, <1>4, <1>5
<1>7. ValidationStage.ok
  BY <1>2, <1>4
<1> QED
  BY <1>3, <1>6, <1>7, PassSeen

\* A run succeeds only on a target whose facts say, order by order, exactly what
\* the records of a snapshot of this run said: for every set of files with
\* records of their own, however often stages break off and are resumed, files
\* and targets are edited and reviews are given and withdrawn
\* (ValidationService.validate, _validation).
THEOREM GateTruth ==
  PipelineSpec => GateTellsTruth
<1>1. PipelineInit => PipeInv
  BY InitKeeps
<1>2. PipeInv /\ [PipelineNext]_pipeVars => PipeInv'
  BY StepKeeps
<1>3. PipeInv /\ [PipelineNext]_pipeVars =>
        [status' = "SUCCEEDED" /\ status # "SUCCEEDED" =>
           target'.ok /\ \E s \in All("SourceSnapshotResult") : Loaded(target') = Told(s.rows)]_status
  BY GateStep
<1> QED
  BY <1>1, <1>2, <1>3, PTL DEF PipelineSpec, GateTellsTruth

-----------------------------------------------------------------------------
(* What compilation promises, for every design.                            *)

\* A row raises, is quarantined or is loaded, and the loop of a loaded row did
\* not stop.
LEMMA Fates ==
  ASSUME NEW d, NEW members, NEW row, d.fks \in Seq(ToSet(d.fks))
  PROVE  /\ Fate(d, members, row) \in {"raise", "quarantine", "load"}
         /\ Fate(d, members, row) = "load" =>
               ~NullGrain(d, row) /\ StopsAt(d, members, row) = {}
<1> DEFINE stops == StopsAt(d, members, row)
<1>1. CASE NullGrain(d, row)
  BY <1>1 DEF Fate
<1>2. CASE ~NullGrain(d, row) /\ stops = {}
  BY <1>2 DEF Fate
<1>3. CASE ~NullGrain(d, row) /\ stops # {}
  <2>1. Fate(d, members, row) = ForeignKey(d, members, d.fks[Min(stops)], row)
    BY <1>3 DEF Fate
  <2>2. stops \in SUBSET Nat
    <3>1. DOMAIN d.fks \subseteq Nat
      OBVIOUS
    <3> QED
      BY <3>1 DEF StopsAt
  <2>3. \E i \in stops : \A j \in stops : i <= j
    BY <1>3, <2>2, LeastNatural
  <2>4. Min(stops) \in stops
    BY <2>3, Zenon DEF Min
  <2>5. ForeignKey(d, members, d.fks[Min(stops)], row) \in {"raise", "quarantine"}
    BY <2>4 DEF StopsAt
  <2> QED
    BY <1>3, <2>1, <2>5
<1> QED
  BY <1>1, <1>2, <1>3

\* A foreign key of a loaded row: found, unknown or null, and why.
LEMMA KeyOfLoaded ==
  ASSUME NEW d, NEW members, NEW row, NEW fk,
         d.dims[fk.dim].policy \in {"QUARANTINE_FACT", "NULLABLE_FK", "EXPLICIT_UNKNOWN_MEMBER"},
         ForeignKey(d, members, fk, row) \notin {"raise", "quarantine"}
  PROVE  /\ IsDate(d, fk.dim) => row.cells[fk.column] # Bad
         /\ LookedUp(d, members, fk, row) # NoKey =>
               KeyFor(d, members, fk, row) = LookedUp(d, members, fk, row)
         /\ LookedUp(d, members, fk, row) = NoKey =>
               \/ /\ d.dims[fk.dim].policy = "EXPLICIT_UNKNOWN_MEMBER"
                  /\ ~IsDate(d, fk.dim)
                  /\ KeyFor(d, members, fk, row) = UnknownKey
               \/ /\ d.dims[fk.dim].policy = "NULLABLE_FK"
                  /\ ~fk.required
                  /\ KeyFor(d, members, fk, row) = Null
<1> DEFINE F == ForeignKey(d, members, fk, row)
           policy == d.dims[fk.dim].policy
<1>1. IsDate(d, fk.dim) => row.cells[fk.column] # Bad
  BY DEF ForeignKey
<1>2. ASSUME LookedUp(d, members, fk, row) # NoKey
      PROVE  KeyFor(d, members, fk, row) = LookedUp(d, members, fk, row)
  <2>1. F = "found"
    BY <1>1, <1>2 DEF ForeignKey
  <2> QED
    BY <2>1 DEF KeyFor
<1>3. ASSUME LookedUp(d, members, fk, row) = NoKey
      PROVE  \/ policy = "EXPLICIT_UNKNOWN_MEMBER" /\ ~IsDate(d, fk.dim)
                  /\ KeyFor(d, members, fk, row) = UnknownKey
             \/ policy = "NULLABLE_FK" /\ ~fk.required
                  /\ KeyFor(d, members, fk, row) = Null
  <2>1. F = MissingKey(d, fk)
    BY <1>1, <1>3 DEF ForeignKey
  <2>2. CASE policy = "QUARANTINE_FACT"
    <3>1. MissingKey(d, fk) = "quarantine"
      BY <2>2 DEF MissingKey
    <3> QED
      BY <2>1, <3>1
  <2>3. CASE policy = "NULLABLE_FK"
    <3>1. MissingKey(d, fk) = IF fk.required THEN "raise" ELSE "null"
      BY <2>3 DEF MissingKey
    <3>2. ~fk.required /\ F = "null"
      BY <2>1, <3>1
    <3> QED
      BY <2>3, <3>2 DEF KeyFor
  <2>4. CASE policy = "EXPLICIT_UNKNOWN_MEMBER"
    <3>1. MissingKey(d, fk) = IF IsDate(d, fk.dim) THEN "raise" ELSE "unknown"
      BY <2>4 DEF MissingKey
    <3>2. ~IsDate(d, fk.dim) /\ F = "unknown"
      BY <2>1, <3>1
    <3> QED
      BY <2>4, <3>2 DEF KeyFor
  <2> QED
    BY <2>2, <2>3, <2>4
<1> QED
  BY <1>1, <1>2, <1>3

\* The last clause of Accounts, for one foreign key of one row.
Points(d, fk, table, row, key) ==
    LET names == {m \in table : m.entity = row.cells[fk.column]}
    IN IF names # {} THEN \A m \in names : key = m.key
       ELSE \/ key = UnknownKey /\ d.dims[fk.dim].policy = "EXPLICIT_UNKNOWN_MEMBER"
            \/ key = Null /\ ~fk.required

LEMMA PlainPoints ==
  ASSUME NEW d, NEW members, NEW row, NEW fk, NEW table,
         ~IsDate(d, fk.dim),
         table = DimensionRows(d, fk.dim, members[fk.dim]),
         ~DimensionRaises(d, fk.dim, members[fk.dim]),
         \A m1, m2 \in table : m1.entity = m2.entity => m1 = m2,
         \A x \in DOMAIN d.dims[fk.dim].key : d.dims[fk.dim].key[x] # NoKey,
         \A m \in members[fk.dim] : RowReference(d, fk.dim, m) \in DOMAIN d.dims[fk.dim].key \cup {Null},
         d.dims[fk.dim].policy \in {"QUARANTINE_FACT", "NULLABLE_FK", "EXPLICIT_UNKNOWN_MEMBER"},
         ForeignKey(d, members, fk, row) \notin {"raise", "quarantine"}
  PROVE  Points(d, fk, table, row, KeyFor(d, members, fk, row))
<1> DEFINE value == row.cells[fk.column]
           known == {RowReference(d, fk.dim, m) : m \in members[fk.dim]}
           key == KeyFor(d, members, fk, row)
           found == LookedUp(d, members, fk, row)
<1>1. Null \notin known
  BY DEF DimensionRaises
<1>2. value \in known => found = d.dims[fk.dim].key[value] /\ found # NoKey
  <2> SUFFICES ASSUME value \in known
               PROVE  found = d.dims[fk.dim].key[value] /\ found # NoKey
    OBVIOUS
  <2>1. value # Null /\ value \in DOMAIN d.dims[fk.dim].key
    BY <1>1
  <2>2. found = d.dims[fk.dim].key[value]
    BY <2>1 DEF LookedUp
  <2> QED
    BY <2>1, <2>2
<1>3. value \notin known => found = NoKey
  BY DEF LookedUp
<1>4. \A m \in members[fk.dim] :
         /\ DimensionRow(d, fk.dim, m) \in table
         /\ DimensionRow(d, fk.dim, m).entity = RowReference(d, fk.dim, m)
         /\ DimensionRow(d, fk.dim, m).key = d.dims[fk.dim].key[RowReference(d, fk.dim, m)]
  BY DEF DimensionRows, DimensionRow
<1>5. \A m \in table :
         \/ \E r \in members[fk.dim] : m = DimensionRow(d, fk.dim, r)
         \/ m = UnknownRow(d, fk.dim) /\ d.dims[fk.dim].policy = "EXPLICIT_UNKNOWN_MEMBER"
  BY DEF DimensionRows
<1>6. UnknownRow(d, fk.dim).key = UnknownKey
  BY DEF UnknownRow
<1>7. /\ found # NoKey => key = found
      /\ found = NoKey =>
            \/ d.dims[fk.dim].policy = "EXPLICIT_UNKNOWN_MEMBER" /\ key = UnknownKey
            \/ d.dims[fk.dim].policy = "NULLABLE_FK" /\ ~fk.required /\ key = Null
  BY KeyOfLoaded
<1> HIDE DEF key, found
<1>8. CASE value \in known
  <2>1. PICK r \in members[fk.dim] : value = RowReference(d, fk.dim, r)
    BY <1>8
  <2> DEFINE mine == DimensionRow(d, fk.dim, r)
  <2>2. mine \in table /\ mine.entity = value /\ mine.key = d.dims[fk.dim].key[value]
    BY <1>4, <2>1
  <2> HIDE DEF mine
  <2>3. key = mine.key
    BY <1>2, <1>7, <1>8, <2>2
  <2>4. \A m \in table : m.entity = value => m = mine
    BY <2>2
  <2> QED
    BY <2>2, <2>3, <2>4 DEF Points, key
<1>9. CASE value \notin known
  <2>1. found = NoKey
    BY <1>3, <1>9
  <2>2. \A m \in table : m.entity = value =>
           m.key = UnknownKey /\ d.dims[fk.dim].policy = "EXPLICIT_UNKNOWN_MEMBER"
    BY <1>4, <1>5, <1>6, <1>9
  <2>3. CASE \E m \in table : m.entity = value
    <3>1. key = UnknownKey
      BY <1>7, <2>1, <2>2, <2>3
    <3> QED
      BY <2>2, <2>3, <3>1 DEF Points, key
  <2>4. CASE ~\E m \in table : m.entity = value
    <3>1. \/ key = UnknownKey /\ d.dims[fk.dim].policy = "EXPLICIT_UNKNOWN_MEMBER"
          \/ key = Null /\ ~fk.required
      BY <1>7, <2>1
    <3> QED
      BY <2>4, <3>1 DEF Points, key
  <2> QED
    BY <2>3, <2>4
<1> QED
  BY <1>8, <1>9

LEMMA DatesEnter ==
  ASSUME NEW d, NEW members, NEW rows, NEW dim
  PROVE  /\ Null \notin d.dims[dim].range => Null \notin DatesOf(d, members, rows, dim)
         /\ \A row \in rows : \A i \in Visited(d, members, row) :
               /\ ~NullGrain(d, row) /\ d.fks[i].dim = dim
               /\ row.cells[d.fks[i].column] \notin {Null, Bad}
               => row.cells[d.fks[i].column] \in DatesOf(d, members, rows, dim)
<1> DEFINE all == UNION {DatesMet(d, members, r, dim) : r \in {x \in rows : ~NullGrain(d, x)}}
<1>1. DatesOf(d, members, rows, dim) = (all \ {Null, Bad}) \cup d.dims[dim].range
  BY DEF DatesOf
<1>2. ASSUME NEW row \in rows, NEW i \in Visited(d, members, row), ~NullGrain(d, row), d.fks[i].dim = dim
      PROVE  row.cells[d.fks[i].column] \in all
  <2>1. row.cells[d.fks[i].column] \in DatesMet(d, members, row, dim)
    BY <1>2 DEF DatesMet
  <2> QED
    BY <1>2, <2>1
<1> HIDE DEF all
<1> QED
  BY <1>1, <1>2

LEMMA DatePoints ==
  ASSUME NEW d, NEW members, NEW rows, NEW row \in rows, NEW i \in DOMAIN d.fks, NEW table,
         IsDate(d, d.fks[i].dim),
         table = {[key |-> d.dims[d.fks[i].dim].key[t], entity |-> t, attrs |-> <<>>, refs |-> {}] :
                     t \in DatesOf(d, members, rows, d.fks[i].dim)},
         Null \notin d.dims[d.fks[i].dim].range,
         \A x \in DOMAIN d.dims[d.fks[i].dim].key : d.dims[d.fks[i].dim].key[x] # NoKey,
         row.cells[d.fks[i].column] \in DOMAIN d.dims[d.fks[i].dim].key \cup {Null, Bad},
         d.dims[d.fks[i].dim].policy \in {"QUARANTINE_FACT", "NULLABLE_FK", "EXPLICIT_UNKNOWN_MEMBER"},
         ~NullGrain(d, row), StopsAt(d, members, row) = {}
  PROVE  Points(d, d.fks[i], table, row, KeyFor(d, members, d.fks[i], row))
<1> DEFINE fk == d.fks[i]
           value == row.cells[fk.column]
           days == DatesOf(d, members, rows, fk.dim)
           key == KeyFor(d, members, fk, row)
           found == LookedUp(d, members, fk, row)
<1>1. ForeignKey(d, members, fk, row) \notin {"raise", "quarantine"}
  BY DEF StopsAt
<1>2. i \in Visited(d, members, row)
  BY DEF Visited
<1>3. value \notin {Null, Bad} => value \in days
  BY <1>2, DatesEnter
<1>4. Null \notin days
  BY DatesEnter
<1>5. value # Bad
  BY <1>1, KeyOfLoaded
<1>6. /\ found # NoKey => key = found
      /\ found = NoKey => key = Null /\ ~fk.required
  BY <1>1, KeyOfLoaded
<1>7. value = Null => found = NoKey
  BY DEF LookedUp
<1>8. value # Null => found = d.dims[fk.dim].key[value]
  BY DEF LookedUp
<1>9. /\ \A m \in table : m.entity \in days /\ m.key = d.dims[fk.dim].key[m.entity]
      /\ \A t \in days : \E m \in table : m.entity = t
  <2> DEFINE keys == d.dims[fk.dim].key
  <2>1. table = {[key |-> keys[t], entity |-> t, attrs |-> <<>>, refs |-> {}] : t \in days}
    OBVIOUS
  <2> HIDE DEF days, keys
  <2>2. \A m \in table : m.entity \in days /\ m.key = keys[m.entity]
    BY <2>1
  <2>3. ASSUME NEW t \in days
        PROVE  \E m \in table : m.entity = t
    <3> DEFINE day == [key |-> keys[t], entity |-> t, attrs |-> <<>>, refs |-> {}]
    <3>1. day \in table /\ day.entity = t
      BY <2>1
    <3> QED
      BY <3>1
  <2> QED
    BY <2>2, <2>3 DEF keys
<1> HIDE DEF days, key, found
<1>10. CASE value = Null
  <2>1. key = Null /\ ~fk.required
    BY <1>6, <1>7, <1>10
  <2>2. {m \in table : m.entity = value} = {}
    BY <1>4, <1>9, <1>10
  <2> QED
    BY <2>1, <2>2 DEF Points, key
<1>11. CASE value # Null
  <2>1. value \in DOMAIN d.dims[fk.dim].key
    BY <1>5, <1>11
  <2>2. key = d.dims[fk.dim].key[value]
    BY <1>6, <1>8, <1>11, <2>1
  <2>3. {m \in table : m.entity = value} # {}
    BY <1>3, <1>5, <1>9, <1>11
  <2>4. \A m \in {m \in table : m.entity = value} : key = m.key
    BY <1>9, <2>2
  <2> QED
    BY <2>3, <2>4 DEF Points, key
<1> QED
  BY <1>10, <1>11

\* What an accepted compilation is made of.
LEMMA CompiledParts ==
  ASSUME NEW d, NEW members, NEW rows, NEW star,
         star = Compile(d, members, rows), star.ok
  PROVE  /\ \A r \in rows : Fate(d, members, r) # "raise"
         /\ \A x \in DOMAIN d.dims : ~IsDate(d, x) =>
               ~DimensionRaises(d, x, members[x]) /\ star.dims[x] = DimensionRows(d, x, members[x])
         /\ \A x \in DOMAIN d.dims : IsDate(d, x) =>
               star.dims[x] = {[key |-> d.dims[x].key[t], entity |-> t, attrs |-> <<>>, refs |-> {}] :
                                  t \in DatesOf(d, members, rows, x)}
         /\ KeepsLineage(d) => star.facts = {FactRow(d, members, r) : r \in {x \in rows : Fate(d, members, x) = "load"}}
         /\ star.quarantine = {r.ref : r \in {x \in rows : Fate(d, members, x) = "quarantine"}}
<1>1. star # Raised
  BY DEF Raised
<1>2. /\ \A r \in rows : Fate(d, members, r) # "raise"
      /\ \A x \in DOMAIN d.dims : ~IsDate(d, x) => ~DimensionRaises(d, x, members[x])
  BY <1>1 DEF Compile
<1>3. /\ KeepsLineage(d) => star.facts = {FactRow(d, members, r) : r \in {x \in rows : Fate(d, members, x) = "load"}}
      /\ star.quarantine = {r.ref : r \in {x \in rows : Fate(d, members, x) = "quarantine"}}
  BY <1>1 DEF Compile
<1>4. \A x \in DOMAIN d.dims : ~IsDate(d, x) => star.dims[x] = DimensionRows(d, x, members[x])
  BY <1>1 DEF Compile
<1>5. \A x \in DOMAIN d.dims : IsDate(d, x) =>
        star.dims[x] = {[key |-> d.dims[x].key[t], entity |-> t, attrs |-> <<>>, refs |-> {}] :
                           t \in DatesOf(d, members, rows, x)}
  BY <1>1 DEF Compile
<1> QED
  BY <1>2, <1>3, <1>4, <1>5

\* A star that compiles and that DuckDB accepts, of a plan that leaves the column
\* source_record_refs to the compiler, accounts for its input: every
\* row is loaded once or quarantined once, and each key of a loaded row is that
\* of the member it names, of the unknown member where the policy has one, or
\* null where the key is optional; for every design, policy, set of members and
\* set of rows (AnalyticalCompiler._generate_sql, DuckDBMaterializer).
THEOREM StarAccounts ==
  ASSUME NEW d, NEW members, NEW rows, WellPosed(d, members, rows),
         KeepsLineage(d),
         NEW star, star = Compile(d, members, rows), star.ok, ~LoadRejects(d, star)
  PROVE  Accounts(d, rows, star)
<1> DEFINE Load == {r \in rows : Fate(d, members, r) = "load"}
           Put == {r \in rows : Fate(d, members, r) = "quarantine"}
           row(f) == CHOOSE r \in rows : r.ref \in f.refs
           loaded == UNION {f.refs : f \in star.facts}
<1>1. /\ IsFiniteSet(rows)
      /\ \A r, s \in rows : r.ref = s.ref => r = s
      /\ d.fks \in Seq(ToSet(d.fks))
  BY DEF WellPosed
<1>2. star.facts = {FactRow(d, members, r) : r \in Load} /\ star.quarantine = {r.ref : r \in Put}
  BY CompiledParts
<1>3. \A r \in rows : r \in Load \/ r \in Put
  BY <1>1, CompiledParts, Fates
<1>4. \A r : FactRow(d, members, r).refs = {r.ref}
  BY DEF FactRow
<1>5. loaded = {r.ref : r \in Load}
  <2>1. \A f \in star.facts : \E r \in Load : f.refs = {r.ref}
    BY <1>2, <1>4
  <2>2. \A r \in Load : \E f \in star.facts : f.refs = {r.ref}
    BY <1>2, <1>4
  <2>3. \A x \in loaded : \E r \in Load : x = r.ref
    BY <2>1
  <2>4. \A r \in Load : r.ref \in loaded
    BY <2>2
  <2> HIDE DEF loaded
  <2> QED
    BY <2>3, <2>4
<1>6. loaded \cap star.quarantine = {}
  BY <1>1, <1>2, <1>5
<1>7. loaded \cup star.quarantine = {r.ref : r \in rows}
  BY <1>2, <1>3, <1>5
<1>8. Cardinality(star.facts) = Cardinality(loaded)
  <2> DEFINE factOf == [r \in Load |-> FactRow(d, members, r)]
             refOf == [r \in Load |-> r.ref]
  <2>1. IsFiniteSet(Load)
    BY <1>1, FS_Subset
  <2>2. \A r, s \in Load : r.ref = s.ref => r = s
    BY <1>1
  <2>3. \A r, s \in Load : FactRow(d, members, r) = FactRow(d, members, s) => r.ref = s.ref
    <3> SUFFICES ASSUME NEW r \in Load, NEW s \in Load, FactRow(d, members, r) = FactRow(d, members, s)
                 PROVE  r.ref = s.ref
      OBVIOUS
    <3>1. {r.ref} = {s.ref}
      BY <1>4
    <3> QED
      BY <3>1
  <2> HIDE DEF Load, loaded
  <2>4. factOf \in Bijection(Load, star.facts)
    BY <1>2, <2>2, <2>3 DEF Bijection, Injection, Surjection, IsInjective
  <2>5. refOf \in Bijection(Load, loaded)
    BY <1>5, <2>2 DEF Bijection, Injection, Surjection, IsInjective
  <2> HIDE DEF factOf, refOf
  <2>6. ExistsBijection(Load, star.facts) /\ ExistsBijection(Load, loaded)
    BY <2>4, <2>5 DEF ExistsBijection
  <2> QED
    BY <2>1, <2>6, FS_Bijection
<1>9. ASSUME NEW f \in star.facts, NEW i \in DOMAIN d.fks
      PROVE  Points(d, d.fks[i], star.dims[d.fks[i].dim], row(f), f.keys[i])
  <2>1. PICK r \in Load : f = FactRow(d, members, r)
    BY <1>2
  <2>2. row(f) = r
    <3>1. f.refs = {r.ref}
      BY <1>4, <2>1
    <3>2. row(f) \in rows /\ row(f).ref \in f.refs
      BY <3>1
    <3> QED
      BY <1>1, <3>1, <3>2
  <2>3. f.keys[i] = KeyFor(d, members, d.fks[i], r)
    BY <2>1 DEF FactRow
  <2>4. ~NullGrain(d, r) /\ StopsAt(d, members, r) = {}
    BY <1>1, Fates
  <2>5. ForeignKey(d, members, d.fks[i], r) \notin {"raise", "quarantine"}
    BY <2>4 DEF StopsAt
  <2>6. d.fks[i] \in ToSet(d.fks)
    BY DEF ToSet
  <2>7. d.fks[i].dim \in DOMAIN d.dims
    BY <2>6 DEF WellPosed
  <2> DEFINE dim == d.fks[i].dim
             table == star.dims[dim]
  <2>8. /\ d.dims[dim].policy \in {"QUARANTINE_FACT", "NULLABLE_FK", "EXPLICIT_UNKNOWN_MEMBER"}
        /\ Null \notin d.dims[dim].range
        /\ \A x \in DOMAIN d.dims[dim].key : d.dims[dim].key[x] # NoKey
    BY <2>7 DEF WellPosed
  <2>9. CASE IsDate(d, dim)
    <3>1. r.cells[d.fks[i].column] \in DOMAIN d.dims[dim].key \cup {Null, Bad}
      BY <2>6, <2>9 DEF WellPosed
    <3>2. table = {[key |-> d.dims[dim].key[t], entity |-> t, attrs |-> <<>>, refs |-> {}] :
                      t \in DatesOf(d, members, rows, dim)}
      BY <2>7, <2>9, CompiledParts
    <3>3. Points(d, d.fks[i], table, r, KeyFor(d, members, d.fks[i], r))
      BY <2>4, <2>8, <2>9, <3>1, <3>2, DatePoints
    <3> QED
      BY <2>2, <2>3, <3>3
  <2>10. CASE ~IsDate(d, dim)
    <3>1. ~DimensionRaises(d, dim, members[dim]) /\ table = DimensionRows(d, dim, members[dim])
      BY <2>7, <2>10, CompiledParts
    <3>2. \A m \in members[dim] : RowReference(d, dim, m) \in DOMAIN d.dims[dim].key \cup {Null}
      BY <2>7, <2>10 DEF WellPosed
    <3>3. \A m1, m2 \in table : m1.entity = m2.entity => m1 = m2
      BY <2>7 DEF LoadRejects
    <3>4. Points(d, d.fks[i], table, r, KeyFor(d, members, d.fks[i], r))
      BY <2>5, <2>8, <2>10, <3>1, <3>2, <3>3, PlainPoints
    <3> QED
      BY <2>2, <2>3, <3>4
  <2> QED
    BY <2>9, <2>10
<1> QED
  BY <1>6, <1>7, <1>8, <1>9 DEF Accounts, Points

-----------------------------------------------------------------------------
(* The walk.                                                               *)

\* The places f has visited after n rounds from `start'.
IsWalk(f, start, edges, N) ==
    f = [n \in 0 .. N |-> IF n = 0 THEN {start} ELSE f[n - 1] \cup Near(edges, f[n - 1])]

\* The recursive definition of the walk defines something.
LEMMA WalkExists ==
    ASSUME NEW start, NEW edges, NEW N \in Nat
    PROVE  \E f : IsWalk(f, start, edges, N)
  <1> DEFINE Wrong == {k \in Nat : ~\E f : IsWalk(f, start, edges, k)}
  <1> SUFFICES ASSUME Wrong # {} PROVE FALSE
    OBVIOUS
  <1>1. PICK k \in Wrong : \A n \in Wrong : k <= n
    BY LeastNatural
  <1>2. CASE k = 0
    <2> DEFINE f == [n \in 0 .. 0 |-> {start}]
    <2>1. IsWalk(f, start, edges, 0)
      BY DEF IsWalk
    <2>2. QED
      BY <1>2, <2>1
  <1>3. CASE k # 0
    <2>1. k - 1 \in Nat /\ k - 1 \notin Wrong
      BY <1>1, <1>3
    <2>2. PICK g : IsWalk(g, start, edges, k - 1)
      BY <2>1
    <2> DEFINE f == [n \in 0 .. k |-> IF n = k THEN g[k - 1] \cup Near(edges, g[k - 1])
                                      ELSE g[n]]
    <2>3. \A n \in 0 .. k - 1 : f[n] = g[n]
      BY <1>1
    <2>4. f[k] = f[k - 1] \cup Near(edges, f[k - 1])
      BY <1>1, <2>1, <2>3
    <2>5. \A n \in 0 .. k - 1 : g[n] = IF n = 0 THEN {start}
                                       ELSE g[n - 1] \cup Near(edges, g[n - 1])
      BY <2>2 DEF IsWalk
    <2>6. \A n \in 0 .. k : f[n] = IF n = 0 THEN {start}
                                   ELSE f[n - 1] \cup Near(edges, f[n - 1])
      <3> SUFFICES ASSUME NEW n \in 0 .. k
                   PROVE  f[n] = IF n = 0 THEN {start}
                                 ELSE f[n - 1] \cup Near(edges, f[n - 1])
        OBVIOUS
      <3> HIDE DEF f
      <3>1. CASE n = k
        BY <1>3, <2>4, <3>1
      <3>2. CASE n # k
        <4>1. n \in 0 .. k - 1 /\ (n # 0 => n - 1 \in 0 .. k - 1)
          BY <1>1, <3>2
        <4>2. QED
          BY <2>3, <2>5, <4>1
      <3>3. QED
        BY <3>1, <3>2
    <2>7. DOMAIN f = 0 .. k /\ f = [n \in 0 .. k |-> f[n]]
      OBVIOUS
    <2> HIDE DEF f
    <2>8. IsWalk(f, start, edges, k)
      BY <2>6, <2>7 DEF IsWalk
    <2>9. QED
      BY <2>8
  <1>4. QED
    BY <1>2, <1>3

\* A walk stays on the side of a split that no edge crosses.
LEMMA WalkStays ==
    ASSUME NEW f, NEW start, NEW edges, NEW N \in Nat, IsWalk(f, start, edges, N),
           NEW S, \A e \in edges : e.ends \cap S = {} \/ e.ends \subseteq S
    PROVE  /\ start \in S => f[N] \subseteq S
           /\ start \notin S => f[N] \cap S = {}
  <1> DEFINE Side(V) == IF start \in S THEN V \subseteq S ELSE V \cap S = {}
             Wrong == {n \in 0 .. N : ~Side(f[n])}
  <1> SUFFICES ASSUME Wrong # {} PROVE FALSE
    OBVIOUS
  <1>1. PICK m \in Wrong : \A n \in Wrong : m <= n
    <2>1. Wrong \in SUBSET Nat
      OBVIOUS
    <2>2. QED
      BY <2>1, LeastNatural
  <1>2. \A n \in 0 .. N : f[n] = IF n = 0 THEN {start} ELSE f[n - 1] \cup Near(edges, f[n - 1])
    BY DEF IsWalk
  <1>3. m # 0
    <2>1. f[0] = {start}
      <3>1. 0 \in 0 .. N
        OBVIOUS
      <3>2. f[0] = IF 0 = 0 THEN {start} ELSE f[0 - 1] \cup Near(edges, f[0 - 1])
        BY <1>2, <3>1, Zenon
      <3>3. QED
        BY <3>2
    <2>2. Side({start})
      OBVIOUS
    <2>3. QED
      BY <1>1, <2>1, <2>2
  <1>4. m - 1 \in 0 .. N /\ Side(f[m - 1])
    BY <1>1, <1>3
  <1>5. \A V : Side(V) => Side(Near(edges, V))
    BY DEF Near
  <1>6. Side(f[m])
    BY <1>1, <1>2, <1>3, <1>4, <1>5
  <1>7. QED
    BY <1>1, <1>6

\* validate_er_membership's walk reaches every reference only if no split of
\* them keeps each authorised edge on one side.
LEMMA WalkLinks ==
    ASSUME NEW refs, IsFiniteSet(refs), refs # {}, NEW edges, Walk(refs, edges) = refs
    PROVE  Linked(refs, edges)
  <1> DEFINE N == Cardinality(refs)
             start == CHOOSE r \in refs : TRUE
             f == CHOOSE g : IsWalk(g, start, edges, N)
  <1>1. N \in Nat /\ start \in refs
    BY FS_CardinalityType
  <1>2. Walk(refs, edges) = f[N]
    BY DEF Walk, IsWalk
  <1>3. IsWalk(f, start, edges, N)
    BY <1>1, WalkExists
  <1> HIDE DEF f, start, N
  <1>4. SUFFICES ASSUME NEW S \in (SUBSET refs) \ {{}, refs},
                        \A e \in edges : e.ends \cap S = {} \/ e.ends \subseteq S
                 PROVE  FALSE
    BY DEF Linked
  <1>5. /\ start \in S => f[N] \subseteq S
        /\ start \notin S => f[N] \cap S = {}
    BY <1>1, <1>3, <1>4, WalkStays
  <1>6. QED
    BY <1>2, <1>4, <1>5

-----------------------------------------------------------------------------
(* The life of an identity.                                                *)

\* What building a proposal has checked and finalizing it does not check again.
ProposalOK(p) ==
    /\ p.memberships \in Groupings
    /\ \A i \in DOMAIN p.memberships : p.memberships[i].type \in DOMAIN AcceptedHypothesis.family
    /\ \A i, j \in DOMAIN p.memberships :
         i # j => p.memberships[i].refs \cap p.memberships[j].refs = {}

IdentityInv == (\A p \in proposal : ProposalOK(p)) /\ OneIdentityEach

\* The links that may hold a group together in a result.
StrongEdges(result) ==
    {e \in result.edges : e.band = "STRONG" \/ (result.reviewEdges /\ e.band = "REVIEW")}

LEMMA MembershipLinked ==
    ASSUME NEW h, NEW m, NEW result, NEW family, IsFiniteSet(m.refs),
           ErMembership(h, m, result, family)
    PROVE  m.refs \subseteq Population(result) /\ Linked(m.refs, StrongEdges(result))
  <1>1. Linked(m.refs, m.edges)
    BY WalkLinks DEF ErMembership
  <1>2. m.edges \subseteq StrongEdges(result)
    <2> SUFFICES ASSUME NEW e \in m.edges PROVE e \in StrongEdges(result)
      OBVIOUS
    <2>1. e \in result.edges
      BY DEF ErMembership
    <2>2. e.band = "STRONG" \/ (result.reviewEdges /\ e.band = "REVIEW")
      BY DEF ErMembership
    <2>3. QED
      BY <2>1, <2>2 DEF StrongEdges
  <1>3. QED
    BY <1>1, <1>2 DEF Linked, ErMembership

\* A record has one entity in a model built from disjoint memberships.
LEMMA OneEntity ==
    ASSUME NEW p, ProposalOK(p), NEW metadata
    PROVE  \A a, b \in Finalized(AcceptedHypothesis, p, metadata).maps :
              a.ref = b.ref => a.entity = b.entity
  <1> DEFINE maps == Finalized(AcceptedHypothesis, p, metadata).maps
  <1>1. ASSUME NEW a \in maps
        PROVE  \E i \in DOMAIN p.memberships :
                  a.ref \in p.memberships[i].refs /\ a.entity = p.memberships[i].refs
    <2>1. PICK m \in ToSet(p.memberships) : \E r \in m.refs :
             a = [ref |-> r, snap |-> metadata[r], entity |-> EntityOf(m),
                  disposition |-> Disposition(AcceptedHypothesis, m)]
      BY DEF Finalized
    <2>2. PICK i \in DOMAIN p.memberships : m = p.memberships[i]
      BY <2>1 DEF ToSet
    <2>3. QED
      BY <2>1, <2>2 DEF EntityOf
  <1> HIDE DEF maps
  <1>2. ASSUME NEW a \in maps, NEW b \in maps, a.ref = b.ref PROVE a.entity = b.entity
    <2>1. PICK i \in DOMAIN p.memberships :
             a.ref \in p.memberships[i].refs /\ a.entity = p.memberships[i].refs
      BY <1>1
    <2>2. PICK j \in DOMAIN p.memberships :
             b.ref \in p.memberships[j].refs /\ b.entity = p.memberships[j].refs
      BY <1>1
    <2>3. i = j
      BY <1>2, <2>1, <2>2 DEF ProposalOK
    <2>4. QED
      BY <2>1, <2>2, <2>3
  <1>3. QED
    BY <1>2 DEF maps

\* What finalization allows is linked in the results it was given.
LEMMA FinalizeStep ==
    ASSUME IdentityInv, NEW metadata, Finalize(metadata)
    PROVE  IdentityInv'
  <1> DEFINE h == AcceptedHypothesis
  <1>1. PICK p \in proposal, r \in decision :
          /\ FinalizeAllowed(h, p, r, er, metadata)
          /\ model' = {[built |-> Finalized(h, p, metadata),
                        groups |-> ToSet(p.memberships), er |-> er]}
    BY DEF Finalize
  <1>2. UNCHANGED <<er, proposal, decision>>
    BY DEF Finalize
  <1>3. ProposalOK(p)
    BY DEF IdentityInv
  <1>4. r.decision = "ACCEPTED" /\ r.subject[2] = er
    BY <1>1 DEF FinalizeAllowed, Compatible
  <1>5. ASSUME NEW g \in ToSet(p.memberships), Requires(h, FamilyOf(h, g))
        PROVE  /\ er[FamilyOf(h, g)].complete
               /\ g.refs \subseteq Population(er[FamilyOf(h, g)])
               /\ g.basis = "ER" => Linked(g.refs, StrongEdges(er[FamilyOf(h, g)]))
    <2> DEFINE family == FamilyOf(h, g)
    <2>1. PICK i \in DOMAIN p.memberships : g = p.memberships[i]
      BY <1>5 DEF ToSet
    <2>2. IsFiniteSet(g.refs)
      BY <1>3, <2>1, IdentityAssumption DEF ProposalOK
    <2>3. family \in RequiredFamilies(h)
      BY <1>5 DEF RequiredFamilies, Requires
    <2>4. er[family].complete
      BY <1>1, <2>3 DEF FinalizeAllowed, ErCompatible
    <2>5. StillAllowed(h, g, er)
      BY <1>1, <2>1 DEF FinalizeAllowed
    <2>6. CASE g.basis = "ER"
      <3>1. ErMembership(h, g, er[family], family)
        BY <2>5, <2>6 DEF StillAllowed
      <3>2. QED
        BY <2>2, <2>4, <3>1, MembershipLinked
    <2>7. CASE g.basis # "ER"
      BY <1>5, <2>4, <2>5, <2>7 DEF StillAllowed
    <2>8. QED
      BY <2>6, <2>7
  <1>6. OneIdentityEach'
    <2> SUFFICES ASSUME NEW m \in model'
                 PROVE  /\ \A a, b \in m.built.maps : a.ref = b.ref => a.entity = b.entity
                        /\ \A g \in m.groups :
                             Requires(h, FamilyOf(h, g)) =>
                               /\ \E q \in decision' : q.decision = "ACCEPTED" /\ q.subject[2] = m.er
                               /\ m.er[FamilyOf(h, g)].complete
                               /\ g.refs \subseteq Population(m.er[FamilyOf(h, g)])
                               /\ g.basis = "ER" =>
                                    Linked(g.refs, StrongEdges(m.er[FamilyOf(h, g)]))
      BY DEF OneIdentityEach, Population, StrongEdges
    <2>1. /\ m.built = Finalized(h, p, metadata) /\ m.groups = ToSet(p.memberships)
          /\ m.er = er
      BY <1>1
    <2>2. \A a, b \in m.built.maps : a.ref = b.ref => a.entity = b.entity
      BY <1>3, <2>1, OneEntity
    <2>3. \E q \in decision' : q.decision = "ACCEPTED" /\ q.subject[2] = m.er
      BY <1>1, <1>2, <1>4, <2>1
    <2>4. QED
      BY <1>5, <2>1, <2>2, <2>3
  <1>7. QED
    BY <1>2, <1>6 DEF IdentityInv

LEMMA IdentityStep ==
    ASSUME NEW metadata, IdentityInv, [IdentityNext(metadata)]_identityVars
    PROVE  IdentityInv'
  <1>1. ASSUME NEW family, NEW result, Resolve(family, result) PROVE IdentityInv'
    BY <1>1 DEF Resolve, IdentityInv, OneIdentityEach
  <1>2. ASSUME NEW memberships \in Groupings, Propose(memberships) PROVE IdentityInv'
    <2> DEFINE p == Proposal(AcceptedHypothesis, memberships, er)
    <2>1. model' = {} /\ proposal' = {p}
      BY <1>2 DEF Propose
    <2>2. p.memberships = memberships
      BY DEF Proposal
    <2>3. ProposalOK(p)
      BY <1>2, <2>2 DEF ProposalOK, Propose, ProposalBuilds
    <2>4. QED
      BY <2>1, <2>3 DEF IdentityInv, OneIdentityEach
  <1>3. ASSUME NEW verdict, Decide(verdict) PROVE IdentityInv'
    BY <1>3 DEF Decide, IdentityInv, OneIdentityEach
  <1>4. CASE Finalize(metadata)
    BY <1>4, FinalizeStep
  <1>5. CASE UNCHANGED identityVars
    BY <1>5 DEF identityVars, IdentityInv, OneIdentityEach
  <1>6. QED
    BY <1>1, <1>2, <1>3, <1>4, <1>5 DEF IdentityNext

\* A finalized model gives every record one entity and merges records on the
\* strength of entity resolution only when links hold them together in the
\* very results the reviewer accepted, where the family a membership names, or
\* else its type's, requires resolution, whatever runs of entity resolution,
\* proposals and decisions came before
\* (CanonicalIdentityProposalService.build, CanonicalFinalizationService.finalize).
THEOREM Identities ==
    ASSUME NEW metadata
    PROVE  IdentitySpec(metadata) => []OneIdentityEach
  <1>1. IdentityInit => IdentityInv
    BY DEF IdentityInit, IdentityInv, OneIdentityEach
  <1>2. IdentityInv /\ [IdentityNext(metadata)]_identityVars => IdentityInv'
    BY IdentityStep
  <1>3. IdentityInv => OneIdentityEach
    BY DEF IdentityInv
  <1>4. QED
    BY <1>1, <1>2, <1>3, PTL DEF IdentitySpec

-----------------------------------------------------------------------------
(* Survivorship.                                                           *)

\* The first of the items at some positions of a list.
FirstAt(seq, hits) == {seq[i] : i \in {j \in hits : \A k \in hits : j <= k}}

\* There is a first item exactly when there is one, and it is only one.
LEMMA FirstItem ==
    ASSUME NEW A, NEW seq \in Seq(A), NEW hits \in SUBSET DOMAIN seq
    PROVE  /\ FirstAt(seq, hits) \subseteq ToSet(seq)
           /\ Cardinality(FirstAt(seq, hits)) <= 1
           /\ \A s \in FirstAt(seq, hits) : \E i \in hits : s = seq[i] /\ \A k \in hits : i <= k
           /\ hits # {} => FirstAt(seq, hits) # {}
  <1>1. hits \in SUBSET Nat
    OBVIOUS
  <1>2. \A s \in FirstAt(seq, hits) : \E i \in hits : s = seq[i] /\ \A k \in hits : i <= k
    BY DEF FirstAt
  <1>3. FirstAt(seq, hits) \subseteq ToSet(seq)
    BY <1>2 DEF ToSet
  <1>4. hits # {} => FirstAt(seq, hits) # {}
    BY <1>1, LeastNatural DEF FirstAt
  <1>5. \A s, t \in FirstAt(seq, hits) : s = t
    BY <1>1, <1>2
  <1>6. Cardinality(FirstAt(seq, hits)) <= 1
    <2>1. CASE FirstAt(seq, hits) = {}
      BY <2>1, FS_EmptySet
    <2>2. CASE FirstAt(seq, hits) # {}
      <3>1. PICK s : s \in FirstAt(seq, hits)
        BY <2>2
      <3>2. FirstAt(seq, hits) = {s}
        BY <3>1, <1>5
      <3>3. Cardinality({s}) = 1
        BY FS_Singleton
      <3>4. QED
        BY <3>2, <3>3
    <2>3. QED
      BY <2>1, <2>2
  <1>7. QED
    BY <1>2, <1>3, <1>4, <1>6

\* Values that disagree are more than one value, and one value is a value.
LEMMA CountedValues ==
    ASSUME NEW A, NEW candidates \in Seq(A)
    PROVE  /\ \A v, w \in Values(candidates) : v # w => Cardinality(Values(candidates)) > 1
           /\ Cardinality(Values(candidates)) = 1 => Values(candidates) # {}
  <1> DEFINE V == Values(candidates)
  <1>1. IsFiniteSet(V)
    <2> DEFINE all == {candidates[i].value : i \in DOMAIN candidates}
    <2>1. IsFiniteSet(1 .. Len(candidates))
      BY FS_Interval
    <2>2. DOMAIN candidates = 1 .. Len(candidates)
      OBVIOUS
    <2>3. IsFiniteSet(all)
      <3> DEFINE f == [i \in 1 .. Len(candidates) |-> candidates[i].value]
      <3>1. f \in Surjection(1 .. Len(candidates), all)
        BY <2>2 DEF Surjection
      <3> HIDE DEF f, all
      <3>2. QED
        BY <2>1, <3>1, FS_Surjection
    <2>4. V \subseteq all
      BY DEF Values, ToSet
    <2> HIDE DEF all, V
    <2>5. QED
      BY <2>3, <2>4, FS_Subset
  <1>2. Cardinality(V) \in Nat
    BY <1>1, FS_CardinalityType
  <1> HIDE DEF V
  <1>3. Cardinality(V) = 0 <=> V = {}
    BY <1>1, FS_EmptySet
  <1>4. Cardinality(V) = 1 => \E x : V = {x}
    BY <1>1, FS_Singleton
  <1>5. \A v, w \in V : v # w => Cardinality(V) > 1
    BY <1>2, <1>3, <1>4
  <1>6. Cardinality(V) = 1 => V # {}
    BY <1>3
  <1>7. QED
    BY <1>5, <1>6 DEF V

\* What survives was offered, has no better claim against it and is at most
\* one; values that differ from it leave a conflict on record, and so does a
\* choice that selects nothing, except under MOST_COMPLETE when no candidate is
\* present.  The null state and the safe value of a candidate are independent.
\* For every list of
\* candidate values, every order of preference and every policy
\* (CanonicalFinalizationService.survivorship).
THEOREM Survivorship ==
    ASSUME NEW Sources, NEW Texts, NEW States, NEW policy, NEW priority \in Seq(Sources),
           NEW candidates \in Seq([source : Sources, value : Texts, state : States, time : Nat])
    PROVE  SurvivorTrue(policy, candidates, priority)
  <1> DEFINE A == [source : Sources, value : Texts, state : States, time : Nat]
             survivors == Survivor(policy, candidates, priority)
             offered == ToSet(candidates)
             V == Values(candidates)
  <1>0. /\ \A c \in offered : c \in A
        /\ \A i \in DOMAIN candidates : candidates[i] \in offered
        /\ \A c \in offered : \E i \in DOMAIN candidates : c = candidates[i]
    <2>1. candidates \in Seq(A)
      OBVIOUS
    <2> HIDE DEF A
    <2>2. \A i \in DOMAIN candidates : candidates[i] \in A
      BY <2>1
    <2>3. QED
      BY <2>2 DEF ToSet
  <1>v. \A v : v \in V <=> \E c \in offered : c.value = v /\ v # Absent
    BY DEF Values
  <1>1. ASSUME /\ survivors \subseteq offered /\ Cardinality(survivors) <= 1
               /\ \A s \in survivors :
                    /\ policy = "MOST_RECENT_VALID" => \A c \in offered : c.time \in 1 .. s.time
                    /\ policy = "PREFERRED_SOURCE" => \E j \in DOMAIN priority :
                          priority[j] = s.source /\ \A i \in 1 .. j - 1 : \A c \in offered : c.source # priority[i]
                    /\ policy = "MOST_COMPLETE" => s.state = "PRESENT"
                    /\ policy = "CONSENSUS" => Cardinality(V) = 1
               /\ policy = "MOST_COMPLETE" /\ survivors = {} => \A c \in offered : c.state # "PRESENT"
        PROVE  SurvivorTrue(policy, candidates, priority)
    <2>1. ASSUME NEW s \in survivors, NEW c \in offered,
                 c.value # Absent, s.value # Absent, c.value # s.value
          PROVE  ConflictRecorded(policy, candidates, priority)
      <3>1. c.value \in V /\ s.value \in V
        BY <1>1, <1>v, <2>1
      <3>2. Cardinality(V) > 1
        BY <2>1, <3>1, CountedValues
      <3>3. QED
        BY <2>1, <3>2 DEF ConflictRecorded
    <2>2. survivors = {} /\ policy # "MOST_COMPLETE" => ConflictRecorded(policy, candidates, priority)
      BY DEF ConflictRecorded
    <2>3. ASSUME NEW s \in survivors, policy = "CONSENSUS", NEW c \in offered, NEW d \in offered
          PROVE  Absent \in {c.value, d.value} \/ c.value = d.value
      <3>1. Cardinality(V) = 1
        BY <1>1, <2>3
      <3>2. \A v, w \in V : v = w
        BY <3>1, CountedValues
      <3>3. QED
        BY <1>v, <3>2
    <2> HIDE DEF survivors, offered, V
    <2>4. QED
      BY <1>1, <2>1, <2>2, <2>3 DEF SurvivorTrue, survivors, offered, V
  <1>2. CASE policy = "PREFERRED_SOURCE"
    <2> DEFINE listed == {i \in DOMAIN priority : \E c \in offered : c.source = priority[i]}
               ranked == FirstAt(priority, listed)
               hits == {i \in DOMAIN candidates : candidates[i].source \in ranked}
    <2>1. survivors = FirstAt(candidates, hits)
      BY <1>2 DEF Survivor, FirstWith, FirstAt
    <2>2. \A r \in ranked : \E i \in listed : r = priority[i] /\ \A k \in listed : i <= k
      BY FirstItem
    <2>3. /\ survivors \subseteq offered /\ Cardinality(survivors) <= 1
          /\ \A s \in survivors : \E i \in hits : s = candidates[i]
      <3> HIDE DEF ranked
      <3>1. hits \in SUBSET DOMAIN candidates
        OBVIOUS
      <3> HIDE DEF hits, survivors
      <3>2. QED
        BY <2>1, <3>1, FirstItem
    <2>4. ASSUME NEW s \in survivors
          PROVE  \E j \in DOMAIN priority :
                   priority[j] = s.source /\ \A i \in 1 .. j - 1 : \A c \in offered : c.source # priority[i]
      <3>1. s.source \in ranked
        BY <2>3
      <3>2. PICK j \in listed : s.source = priority[j] /\ \A k \in listed : j <= k
        BY <2>2, <3>1
      <3>3. ASSUME NEW i \in 1 .. j - 1, NEW c \in offered, c.source = priority[i] PROVE FALSE
        <4>1. i \in DOMAIN priority
          OBVIOUS
        <4>2. i \in listed
          BY <3>3, <4>1
        <4>3. QED
          BY <3>2, <4>2
      <3>4. QED
        BY <3>2, <3>3
    <2>5. policy # "MOST_RECENT_VALID" /\ policy # "MOST_COMPLETE" /\ policy # "CONSENSUS"
      BY <1>2
    <2> HIDE DEF survivors, offered, V
    <2>6. QED
      BY <1>1, <2>3, <2>4, <2>5
  <1>3. CASE policy = "MOST_RECENT_VALID"
    <2>1. CASE \E c \in offered : c.time = 0
      <3>1. survivors = {}
        BY <1>3, <2>1 DEF Survivor
      <3>2. Cardinality(survivors) = 0
        BY <3>1, FS_EmptySet
      <3>3. policy # "PREFERRED_SOURCE" /\ policy # "MOST_COMPLETE" /\ policy # "CONSENSUS"
        BY <1>3
      <3> HIDE DEF survivors, offered, V
      <3>4. QED
        BY <1>1, <3>1, <3>2, <3>3
    <2>2. CASE ~\E c \in offered : c.time = 0
      <3> DEFINE hits == {i \in DOMAIN candidates : \A d \in offered : d.time <= candidates[i].time}
      <3>1. survivors = FirstAt(candidates, hits)
        BY <1>3, <2>2 DEF Survivor, FirstWith, FirstAt
      <3>2. /\ survivors \subseteq offered /\ Cardinality(survivors) <= 1
            /\ \A s \in survivors : \E i \in hits : s = candidates[i]
        <4>1. hits \in SUBSET DOMAIN candidates
          OBVIOUS
        <4> HIDE DEF hits, survivors
        <4>2. QED
          BY <3>1, <4>1, FirstItem
      <3>3. ASSUME NEW s \in survivors, NEW c \in offered PROVE c.time \in 1 .. s.time
        <4>1. c.time <= s.time
          BY <3>2
        <4>2. c.time \in Nat /\ s.time \in Nat /\ c.time # 0
          BY <1>0, <2>2, <3>2
        <4>3. QED
          BY <4>1, <4>2
      <3>4. policy # "PREFERRED_SOURCE" /\ policy # "MOST_COMPLETE" /\ policy # "CONSENSUS"
        BY <1>3
      <3> HIDE DEF survivors, offered, V
      <3>5. QED
        BY <1>1, <3>2, <3>3, <3>4
    <2>3. QED
      BY <2>1, <2>2
  <1>4. CASE policy = "MOST_COMPLETE"
    <2> DEFINE hits == {i \in DOMAIN candidates : candidates[i].state = "PRESENT"}
    <2>1. survivors = FirstAt(candidates, hits)
      BY <1>4 DEF Survivor, FirstWith, FirstAt
    <2>2. /\ survivors \subseteq offered /\ Cardinality(survivors) <= 1
          /\ \A s \in survivors : \E i \in hits : s = candidates[i]
          /\ hits # {} => survivors # {}
      <3>1. hits \in SUBSET DOMAIN candidates
        OBVIOUS
      <3> HIDE DEF hits, survivors
      <3>2. QED
        BY <2>1, <3>1, FirstItem
    <2>3. survivors = {} => \A c \in offered : c.state # "PRESENT"
      BY <1>0, <2>2
    <2>4. \A s \in survivors : s.state = "PRESENT"
      BY <2>2
    <2>5. policy # "PREFERRED_SOURCE" /\ policy # "MOST_RECENT_VALID" /\ policy # "CONSENSUS"
      BY <1>4
    <2> HIDE DEF survivors, offered, V, hits
    <2>6. QED
      BY <1>1, <2>2, <2>3, <2>4, <2>5
  <1>5. CASE policy \notin {"PREFERRED_SOURCE", "MOST_RECENT_VALID", "MOST_COMPLETE"}
    <2>1. CASE policy = "CONSENSUS" /\ Cardinality(V) = 1
      <3>1. survivors = {candidates[1]}
        BY <2>1 DEF Survivor
      <3>2. V # {}
        BY <2>1, CountedValues
      <3>3. candidates[1] \in offered
        BY <1>0, <1>v, <3>2
      <3>4. Cardinality({candidates[1]}) = 1
        BY FS_Singleton
      <3>5. Cardinality(survivors) = 1
        BY <3>1, <3>4
      <3>6. survivors \subseteq offered
        BY <3>1, <3>3
      <3> HIDE DEF survivors, offered, V
      <3>7. QED
        BY <1>1, <1>5, <2>1, <3>5, <3>6
    <2>2. CASE ~(policy = "CONSENSUS" /\ Cardinality(V) = 1)
      <3>1. survivors = {}
        BY <1>5, <2>2 DEF Survivor
      <3>2. Cardinality(survivors) = 0
        BY <3>1, FS_EmptySet
      <3> HIDE DEF survivors, offered, V
      <3>3. QED
        BY <1>1, <1>5, <3>1, <3>2
    <2>3. QED
      BY <2>1, <2>2
  <1>6. QED
    BY <1>2, <1>3, <1>4, <1>5

-----------------------------------------------------------------------------
(* What a semantic query answers, for every star and every request.        *)

\* A sum does not depend on what its terms are called.
LEMMA SumMoved ==
  ASSUME NEW S, IsFiniteSet(S), NEW J, DOMAIN J = S,
         \A x, y \in S : J[x] = J[y] => x = y,
         NEW w, NEW v, \A x \in S : w[x] \in Int /\ v[J[x]] = w[x]
  PROVE  \A s \in SUBSET S :
            SumFunctionOnSet(w, s) = SumFunctionOnSet(v, {J[x] : x \in s})
<1> DEFINE moved(s) == {J[x] : x \in s}
           Wrong == {s \in SUBSET S : SumFunctionOnSet(w, s) # SumFunctionOnSet(v, moved(s))}
<1> SUFFICES ASSUME Wrong # {} PROVE FALSE
  OBVIOUS
<1>1. \A s \in Wrong : IsFiniteSet(s)
  BY FS_Subset
<1>2. PICK s \in Wrong : \A y \in Wrong : y \subseteq s => y = s
  <2> HIDE DEF Wrong
  <2> QED
    BY <1>1, SmallestSet
<1>3. s \in SUBSET S /\ IsFiniteSet(s) /\ SumFunctionOnSet(w, s) # SumFunctionOnSet(v, moved(s))
  BY <1>1
<1>4. IsFiniteSet(moved(s))
  <2> DEFINE g == [x \in s |-> J[x]]
  <2>1. g \in Surjection(s, moved(s))
    BY DEF Surjection
  <2> HIDE DEF g
  <2> QED
    BY <1>3, <2>1, FS_Surjection
<1>5. \A x \in s : w[x] \in Int
  BY <1>3
<1>6. \A y \in moved(s) : v[y] \in Int
  BY <1>3
<1>7. CASE s = {}
  <2>1. moved(s) = {}
    BY <1>7
  <2>2. SumFunctionOnSet(w, s) = 0
    BY <1>3, <1>5, <1>7, SumFacts
  <2> HIDE DEF moved
  <2>3. SumFunctionOnSet(v, moved(s)) = 0
    BY <1>4, <1>6, <2>1, SumFacts
  <2> QED
    BY <1>3, <2>2, <2>3
<1>8. CASE s # {}
  <2>1. PICK x \in s : TRUE
    BY <1>8
  <2>2. SumFunctionOnSet(w, s) = w[x] + SumFunctionOnSet(w, s \ {x})
    BY <1>3, <1>5, SumFacts
  <2>3. J[x] \in moved(s)
    OBVIOUS
  <2>4. SumFunctionOnSet(v, moved(s)) = v[J[x]] + SumFunctionOnSet(v, moved(s) \ {J[x]})
    <3> HIDE DEF moved
    <3> QED
      BY <1>4, <1>6, <2>3, SumFacts
  <2>5. moved(s) \ {J[x]} = moved(s \ {x})
    BY <1>3
  <2>6. SumFunctionOnSet(w, s \ {x}) = SumFunctionOnSet(v, moved(s \ {x}))
    <3>1. s \ {x} \notin Wrong
      BY <1>2, <2>1
    <3> QED
      BY <1>3, <3>1
  <2>7. v[J[x]] = w[x]
    BY <1>3
  <2> QED
    BY <1>3, <2>2, <2>4, <2>5, <2>6, <2>7
<1> QED
  BY <1>7, <1>8

LEMMA SumIsSum ==
  ASSUME NEW w, NEW S
  PROVE  MapThenSumSet(LAMBDA r : w[r], S) = SumFunctionOnSet(w, S)
BY DEF MapThenSumSet, SumFunctionOnSet, FoldFunctionOnSet

\* Nor does an aggregate.
LEMMA AggregateMoved ==
  ASSUME NEW S, IsFiniteSet(S), NEW J, DOMAIN J = S,
         \A x, y \in S : J[x] = J[y] => x = y,
         NEW a, NEW b, DOMAIN a = S, DOMAIN b = {J[x] : x \in S},
         \A x \in S : b[J[x]] = a[x] /\ a[x] \in Int \cup {Null},
         NEW op
  PROVE  Aggregate(op, a) = Aggregate(op, b)
<1> DEFINE A == {x \in DOMAIN a : a[x] # Null}
           B == {x \in DOMAIN b : b[x] # Null}
           as == {a[x] : x \in A}
           bs == {b[x] : x \in B}
<1>1. B = {J[x] : x \in A}
  OBVIOUS
<1>2. A = {} <=> B = {}
  BY <1>1
<1>3. as = bs
  BY <1>1
<1>4. SumFunctionOnSet(a, A) = SumFunctionOnSet(b, B)
  <2> DEFINE K == [x \in A |-> J[x]]
  <2>1. IsFiniteSet(A)
    BY FS_Subset
  <2>2. DOMAIN K = A /\ \A x, y \in A : K[x] = K[y] => x = y
    OBVIOUS
  <2>3. \A x \in A : a[x] \in Int /\ b[K[x]] = a[x]
    OBVIOUS
  <2>4. B = {K[x] : x \in A}
    BY <1>1
  <2> HIDE DEF A, B, K
  <2>5. \A s \in SUBSET A : SumFunctionOnSet(a, s) = SumFunctionOnSet(b, {K[x] : x \in s})
    BY <2>1, <2>2, <2>3, SumMoved
  <2> QED
    BY <2>4, <2>5
<1>5. MapThenSumSet(LAMBDA r : a[r], A) = MapThenSumSet(LAMBDA r : b[r], B)
  <2> HIDE DEF A, B
  <2>1. MapThenSumSet(LAMBDA r : a[r], A) = SumFunctionOnSet(a, A)
    BY SumIsSum
  <2>2. MapThenSumSet(LAMBDA r : b[r], B) = SumFunctionOnSet(b, B)
    BY SumIsSum
  <2> QED
    BY <1>4, <2>1, <2>2
<1>6. Aggregate(op, a) =
        IF A = {} THEN Null
        ELSE CASE op = "SUM" -> MapThenSumSet(LAMBDA r : a[r], A)
               [] op = "MAX" -> Max(as) [] OTHER -> Min(as)
  BY DEF Aggregate
<1>7. Aggregate(op, b) =
        IF B = {} THEN Null
        ELSE CASE op = "SUM" -> MapThenSumSet(LAMBDA r : b[r], B)
               [] op = "MAX" -> Max(bs) [] OTHER -> Min(bs)
  BY DEF Aggregate
<1> HIDE DEF A, B, as, bs
<1> QED
  BY <1>2, <1>3, <1>5, <1>6, <1>7

\* A row of the table of a grouped query.
TableRow(k, rs, ops, amount) ==
    [key |-> k, total |-> [m \in DOMAIN ops |-> Aggregate(ops[m], [r \in rs |-> amount[r]])]]
Table(groups, key, ops, amount) ==
    IF groups = {} THEN {TableRow(<<>>, DOMAIN key, ops, amount)}
    ELSE {TableRow(k, {r \in DOMAIN key : key[r] = k}, ops, amount) : k \in Range(key)}

LEMMA TableRowMoved ==
  ASSUME NEW S, IsFiniteSet(S), NEW J, NEW K, DOMAIN J = K, S \subseteq K,
         \A x, y \in K : J[x] = J[y] => x = y,
         NEW a, NEW b, \A x \in K : b[J[x]] = a[x] /\ a[x] \in Int \cup {Null},
         NEW T, T = {J[x] : x \in S},
         NEW k, NEW ops
  PROVE  TableRow(k, S, ops, a) = TableRow(k, T, ops, b)
<1> DEFINE I == [x \in S |-> J[x]]
           f == [r \in S |-> a[r]]
           g == [r \in T |-> b[r]]
<1>1. DOMAIN I = S /\ \A x, y \in S : I[x] = I[y] => x = y
  OBVIOUS
<1>2. DOMAIN f = S /\ DOMAIN g = {I[x] : x \in S}
  OBVIOUS
<1>3. \A x \in S : g[I[x]] = f[x] /\ f[x] \in Int \cup {Null}
  OBVIOUS
<1> HIDE DEF I, f, g
<1>4. \A op : Aggregate(op, f) = Aggregate(op, g)
  BY <1>1, <1>2, <1>3, AggregateMoved
<1> QED
  BY <1>4 DEF TableRow, f, g

\* J renames the rows of K one to one, with their keys and amounts.
Renames(J, K, a, b, key, moved) ==
    /\ IsFiniteSet(K) /\ DOMAIN J = K /\ DOMAIN key = K /\ DOMAIN moved = {J[x] : x \in K}
    /\ \A x, y \in K : J[x] = J[y] => x = y
    /\ \A x \in K : b[J[x]] = a[x] /\ a[x] \in Int \cup {Null}
    /\ \A x \in K : moved[J[x]] = key[x]

\* Rows that are renamed give the same table.
LEMMA TableMoved ==
  ASSUME NEW J, NEW K, NEW a, NEW b, NEW key, NEW moved, Renames(J, K, a, b, key, moved),
         NEW groups, NEW ops
  PROVE  Table(groups, key, ops, a) = Table(groups, moved, ops, b)
<1> DEFINE of(k) == {r \in DOMAIN key : key[r] = k}
           to(k) == {r \in DOMAIN moved : moved[r] = k}
<1>1. /\ IsFiniteSet(K) /\ DOMAIN J = K /\ DOMAIN key = K /\ DOMAIN moved = {J[x] : x \in K}
      /\ \A x, y \in K : J[x] = J[y] => x = y
      /\ \A x \in K : b[J[x]] = a[x] /\ a[x] \in Int \cup {Null}
      /\ \A x \in K : moved[J[x]] = key[x]
  BY DEF Renames
<1>2. CASE groups = {}
  <2>1. TableRow(<<>>, DOMAIN key, ops, a) = TableRow(<<>>, DOMAIN moved, ops, b)
    BY <1>1, TableRowMoved
  <2> QED
    BY <1>2, <2>1 DEF Table
<1>3. CASE groups # {}
  <2>1. Range(key) = Range(moved)
    BY <1>1 DEF Range
  <2>2. ASSUME NEW k PROVE TableRow(k, of(k), ops, a) = TableRow(k, to(k), ops, b)
    <3>1. to(k) = {J[x] : x \in of(k)}
      BY <1>1
    <3>2. of(k) \subseteq K /\ IsFiniteSet(of(k))
      BY <1>1, FS_Subset
    <3> HIDE DEF of, to
    <3> QED
      BY <1>1, <3>1, <3>2, TableRowMoved
  <2>3. Table(groups, key, ops, a) = {TableRow(k, of(k), ops, a) : k \in Range(key)}
    BY <1>3 DEF Table
  <2>4. Table(groups, moved, ops, b) = {TableRow(k, to(k), ops, b) : k \in Range(moved)}
    BY <1>3 DEF Table
  <2> HIDE DEF of, to
  <2> QED
    BY <2>1, <2>2, <2>3, <2>4
<1> QED
  BY <1>2, <1>3

LEMMA TableFinite ==
  ASSUME NEW key, IsFiniteSet(DOMAIN key), NEW groups, NEW ops, NEW a
  PROVE  IsFiniteSet(Table(groups, key, ops, a))
<1>1. CASE groups = {}
  BY <1>1, FS_Singleton DEF Table
<1>2. CASE groups # {}
  <2> DEFINE row(k) == TableRow(k, {r \in DOMAIN key : key[r] = k}, ops, a)
             g == [x \in DOMAIN key |-> row(key[x])]
             T == {row(k) : k \in Range(key)}
  <2>1. Table(groups, key, ops, a) = T
    BY <1>2 DEF Table
  <2> HIDE DEF row
  <2>2. g \in Surjection(DOMAIN key, T)
    BY DEF Surjection, Range
  <2> HIDE DEF g, T
  <2> QED
    BY <2>1, <2>2, FS_Surjection
<1> QED
  BY <1>1, <1>2

\* A finite set has subsets of every size up to its own.
LEMMA SubsetOfSize ==
  ASSUME NEW T, IsFiniteSet(T), NEW n \in Nat, n <= Cardinality(T)
  PROVE  \E t \in SUBSET T : Cardinality(t) = n
<1>1. Cardinality(T) \in Nat
  BY FS_CardinalityType
<1>2. PICK f : f \in Bijection(1 .. Cardinality(T), T)
  BY FS_CardinalityType DEF ExistsBijection
<1> DEFINE t == {f[i] : i \in 1 .. n}
           g == [i \in 1 .. n |-> f[i]]
<1>3. 1 .. n \subseteq 1 .. Cardinality(T)
  BY <1>1
<1>4. t \in SUBSET T
  BY <1>2, <1>3 DEF Bijection, Injection
<1>5. g \in Bijection(1 .. n, t)
  BY <1>2, <1>3 DEF Bijection, Injection, Surjection, IsInjective
<1>6. ExistsBijection(1 .. n, t)
  BY <1>5 DEF ExistsBijection
<1>7. IsFiniteSet(1 .. n) /\ Cardinality(1 .. n) = n
  <2>1. IsFiniteSet(1 .. n) /\ Cardinality(1 .. n) = IF 1 > n THEN 0 ELSE n - 1 + 1
    BY FS_Interval
  <2> QED
    BY <2>1
<1> HIDE DEF t
<1>8. Cardinality(t) = n
  BY <1>6, <1>7, FS_Bijection
<1> QED
  BY <1>4, <1>8

-----------------------------------------------------------------------------
(* The partner of a fact in a dimension.                                   *)

\* What a LEFT JOIN puts beside a fact with this key.
Beside(table, key) ==
    LET partners == {m \in table : m.key = key /\ m.key # Null}
    IN IF partners = {} THEN {NullMember} ELSE partners

LEMMA BesideOne ==
  ASSUME NEW table, \A m1, m2 \in table : m1.key = m2.key => m1 = m2,
         NEW m \in table, m.key # Null
  PROVE  Beside(table, m.key) = {m}
<1>1. {x \in table : x.key = m.key /\ x.key # Null} = {m}
  OBVIOUS
<1> QED
  BY <1>1 DEF Beside

LEMMA BesideNone ==
  ASSUME NEW table
  PROVE  Beside(table, Null) = {NullMember}
<1>1. {x \in table : x.key = Null /\ x.key # Null} = {}
  OBVIOUS
<1> QED
  BY <1>1 DEF Beside

LEMMA MemberValues ==
  ASSUME NEW a, NEW m
  PROVE  /\ MemberValue(a, NullMember) = Null
         /\ m.key # Null /\ a.column = "day" => MemberValue(a, m) = m.entity
         /\ m.key # Null /\ a.column # "day" => MemberValue(a, m) = m.attrs[a.column]
<1>1. m.key # Null => m # NullMember
  BY DEF NullMember
<1> QED
  BY <1>1 DEF MemberValue

\* There is one row beside a fact, which says of its attributes what the source
\* says.
Sees(d, members, row, fk, table) ==
    \E m : /\ Beside(table, KeyFor(d, members, fk, row)) = {m}
           /\ \A a : (IF IsDate(d, fk.dim) THEN a.column = "day"
                     ELSE a.column \in d.dims[fk.dim].attrs /\ a.column # "day") =>
                   MemberValue(a, m) = MeantValue(d, members, row, fk, a)

\* The one row a fact meets in a dimension of entities says what the source
\* says of the entity it names.
LEMMA PlainBeside ==
  ASSUME NEW d, NEW members, NEW row, NEW fk, NEW table,
         ~IsDate(d, fk.dim),
         table = DimensionRows(d, fk.dim, members[fk.dim]),
         ~DimensionRaises(d, fk.dim, members[fk.dim]),
         \A m1, m2 \in table : m1.key = m2.key => m1 = m2,
         \A x \in DOMAIN d.dims[fk.dim].key : d.dims[fk.dim].key[x] \notin {NoKey, Null},
         UnknownKey # Null,
         \A m \in members[fk.dim] : RowReference(d, fk.dim, m) \in DOMAIN d.dims[fk.dim].key \cup {Null},
         d.dims[fk.dim].policy \in {"QUARANTINE_FACT", "NULLABLE_FK", "EXPLICIT_UNKNOWN_MEMBER"},
         ForeignKey(d, members, fk, row) \notin {"raise", "quarantine"}
  PROVE  Sees(d, members, row, fk, table)
<1> DEFINE value == row.cells[fk.column]
           known == {RowReference(d, fk.dim, m) : m \in members[fk.dim]}
           key == KeyFor(d, members, fk, row)
           found == LookedUp(d, members, fk, row)
           named == NamedMembers(d, members, row, fk)
           attrs == d.dims[fk.dim].attrs
<1>1. Null \notin known
  BY DEF DimensionRaises
<1>2. value \in known => found = d.dims[fk.dim].key[value] /\ found \notin {NoKey, Null}
  <2> SUFFICES ASSUME value \in known
               PROVE  found = d.dims[fk.dim].key[value] /\ found \notin {NoKey, Null}
    OBVIOUS
  <2>1. value # Null /\ value \in DOMAIN d.dims[fk.dim].key
    BY <1>1
  <2>2. found = d.dims[fk.dim].key[value]
    BY <2>1 DEF LookedUp
  <2> QED
    BY <2>1, <2>2
<1>3. value \notin known => found = NoKey
  BY DEF LookedUp
<1>4. \A m \in members[fk.dim] :
         /\ DimensionRow(d, fk.dim, m) \in table
         /\ DimensionRow(d, fk.dim, m).key = d.dims[fk.dim].key[RowReference(d, fk.dim, m)]
         /\ \A c \in attrs : DimensionRow(d, fk.dim, m).attrs[c] = m.cells[c]
  BY DEF DimensionRows, DimensionRow
<1>5. /\ UnknownRow(d, fk.dim).key = UnknownKey
      /\ \A c \in attrs : UnknownRow(d, fk.dim).attrs[c] = "UNKNOWN"
      /\ d.dims[fk.dim].policy = "EXPLICIT_UNKNOWN_MEMBER" => UnknownRow(d, fk.dim) \in table
  BY DEF UnknownRow, DimensionRows
<1>6. /\ found # NoKey => key = found
      /\ found = NoKey =>
            \/ d.dims[fk.dim].policy = "EXPLICIT_UNKNOWN_MEMBER" /\ key = UnknownKey
            \/ d.dims[fk.dim].policy = "NULLABLE_FK" /\ key = Null
  BY KeyOfLoaded
<1>7. \A m : m \in named <=> m \in members[fk.dim] /\ RowReference(d, fk.dim, m) = value
  BY DEF NamedMembers
<1>8. \A a : MeantValue(d, members, row, fk, a) =
               IF named # {} THEN (CHOOSE m \in named : TRUE).cells[a.column]
               ELSE IF d.dims[fk.dim].policy = "EXPLICIT_UNKNOWN_MEMBER" THEN "UNKNOWN" ELSE Null
  BY DEF MeantValue
<1>9. value \in known <=> named # {}
  BY <1>7
<1> HIDE DEF key, found, named, attrs, known
<1>10. CASE value \in known
  <2> DEFINE chosen == CHOOSE m \in named : TRUE
             mine == DimensionRow(d, fk.dim, chosen)
  <2>1. chosen \in named
    BY <1>9, <1>10
  <2> HIDE DEF chosen
  <2>2. chosen \in members[fk.dim] /\ RowReference(d, fk.dim, chosen) = value
    BY <1>7, <2>1
  <2>3. mine \in table /\ mine.key = key /\ mine.key # Null /\ \A c \in attrs : mine.attrs[c] = chosen.cells[c]
    BY <1>2, <1>4, <1>6, <1>10, <2>2
  <2> HIDE DEF mine
  <2>4. Beside(table, key) = {mine}
    BY <2>3, BesideOne
  <2>5. ASSUME NEW a, a.column \in attrs, a.column # "day"
        PROVE  MemberValue(a, mine) = MeantValue(d, members, row, fk, a)
    <3>1. MemberValue(a, mine) = mine.attrs[a.column]
      BY <2>3, <2>5, MemberValues
    <3>2. MeantValue(d, members, row, fk, a) = chosen.cells[a.column]
      BY <1>8, <1>9, <1>10 DEF chosen
    <3> QED
      BY <2>3, <2>5, <3>1, <3>2
  <2> QED
    BY <2>4, <2>5 DEF key, attrs, Sees
<1>11. CASE value \notin known /\ d.dims[fk.dim].policy = "EXPLICIT_UNKNOWN_MEMBER"
  <2> DEFINE mine == UnknownRow(d, fk.dim)
  <2>1. mine \in table /\ mine.key = key /\ mine.key # Null /\ \A c \in attrs : mine.attrs[c] = "UNKNOWN"
    BY <1>3, <1>5, <1>6, <1>11
  <2> HIDE DEF mine
  <2>2. Beside(table, key) = {mine}
    BY <2>1, BesideOne
  <2>3. ASSUME NEW a, a.column \in attrs, a.column # "day"
        PROVE  MemberValue(a, mine) = MeantValue(d, members, row, fk, a)
    <3>1. MemberValue(a, mine) = mine.attrs[a.column]
      BY <2>1, <2>3, MemberValues
    <3>2. MeantValue(d, members, row, fk, a) = "UNKNOWN"
      BY <1>8, <1>9, <1>11
    <3> QED
      BY <2>1, <2>3, <3>1, <3>2
  <2> QED
    BY <2>2, <2>3 DEF key, attrs, Sees
<1>12. CASE value \notin known /\ d.dims[fk.dim].policy # "EXPLICIT_UNKNOWN_MEMBER"
  <2>1. key = Null
    BY <1>3, <1>6, <1>12
  <2>2. Beside(table, key) = {NullMember}
    BY <2>1, BesideNone
  <2>3. ASSUME NEW a
        PROVE  MemberValue(a, NullMember) = MeantValue(d, members, row, fk, a)
    <3>1. MemberValue(a, NullMember) = Null
      BY MemberValues
    <3>2. MeantValue(d, members, row, fk, a) = Null
      BY <1>8, <1>9, <1>12
    <3> QED
      BY <3>1, <3>2
  <2> QED
    BY <2>2, <2>3 DEF key, attrs, Sees
<1> QED
  BY <1>10, <1>11, <1>12

\* The rows of a date dimension.
DateRows(d, members, rows, dim) ==
    {[key |-> d.dims[dim].key[t], entity |-> t, attrs |-> <<>>, refs |-> {}] :
        t \in DatesOf(d, members, rows, dim)}

\* The one row a fact meets in a date dimension is its date.
LEMMA DateBeside ==
  ASSUME NEW d, NEW members, NEW rows, NEW row \in rows, NEW i \in DOMAIN d.fks, NEW table,
         IsDate(d, d.fks[i].dim),
         table = DateRows(d, members, rows, d.fks[i].dim),
         \A m1, m2 \in table : m1.key = m2.key => m1 = m2,
         \A x \in DOMAIN d.dims[d.fks[i].dim].key : d.dims[d.fks[i].dim].key[x] \notin {NoKey, Null},
         row.cells[d.fks[i].column] \in DOMAIN d.dims[d.fks[i].dim].key \cup {Null, Bad},
         d.dims[d.fks[i].dim].policy \in {"QUARANTINE_FACT", "NULLABLE_FK", "EXPLICIT_UNKNOWN_MEMBER"},
         ~NullGrain(d, row), StopsAt(d, members, row) = {}
  PROVE  Sees(d, members, row, d.fks[i], table)
<1> DEFINE fk == d.fks[i]
           value == row.cells[fk.column]
           days == DatesOf(d, members, rows, fk.dim)
           key == KeyFor(d, members, fk, row)
           found == LookedUp(d, members, fk, row)
           keys == d.dims[fk.dim].key
<1>1. ForeignKey(d, members, fk, row) \notin {"raise", "quarantine"}
  BY DEF StopsAt
<1>2. i \in Visited(d, members, row)
  BY DEF Visited
<1>3. value \notin {Null, Bad} => value \in days
  BY <1>2, DatesEnter
<1>4. value # Bad
  BY <1>1, KeyOfLoaded
<1>5. /\ found # NoKey => key = found
      /\ found = NoKey => key = Null
  BY <1>1, KeyOfLoaded
<1>6. value = Null => found = NoKey
  BY DEF LookedUp
<1>7. value # Null => found = keys[value]
  BY DEF LookedUp
<1>8. \A a : MeantValue(d, members, row, fk, a) = value
  BY DEF MeantValue
<1>9. table = {[key |-> keys[t], entity |-> t, attrs |-> <<>>, refs |-> {}] : t \in days}
  BY DEF DateRows
<1>10. \A x \in DOMAIN keys : keys[x] \notin {NoKey, Null}
  OBVIOUS
<1>11. value # Null => value \in DOMAIN keys
  BY <1>4
<1> HIDE DEF days, key, found, keys, value
<1>12. CASE value = Null
  <2>1. key = Null
    BY <1>5, <1>6, <1>12
  <2>2. Beside(table, key) = {NullMember}
    BY <2>1, BesideNone
  <2>3. \A a : MemberValue(a, NullMember) = MeantValue(d, members, row, fk, a)
    BY <1>8, <1>12, MemberValues
  <2> QED
    BY <2>2, <2>3 DEF key, Sees
<1>13. CASE value # Null
  <2> DEFINE mine == [key |-> keys[value], entity |-> value, attrs |-> <<>>, refs |-> {}]
  <2>1. mine \in table /\ mine.key = keys[value] /\ mine.entity = value
    BY <1>3, <1>4, <1>9, <1>13
  <2>2. key = mine.key /\ mine.key # Null
    BY <1>5, <1>7, <1>10, <1>11, <1>13, <2>1
  <2> HIDE DEF mine
  <2>3. Beside(table, key) = {mine}
    BY <2>1, <2>2, BesideOne
  <2>4. \A a : a.column = "day" => MemberValue(a, mine) = MeantValue(d, members, row, fk, a)
    BY <1>8, <2>1, <2>2, MemberValues
  <2> QED
    BY <2>3, <2>4 DEF key, Sees
<1> QED
  BY <1>12, <1>13

\* An accepted query joins a dimension through the one foreign key it means.
LEMMA JoinKey ==
  ASSUME NEW d, NEW layer, layer.design = d,
         layer.roles = {i \in DOMAIN d.fks : IsDate(d, d.fks[i].dim)},
         d.fks \in Seq(ToSet(d.fks)),
         \A fk \in ToSet(d.fks) : fk.column # NoRole,
         NEW q, NEW x, Cardinality(JoinCandidates(layer, q, x)) = 1
  PROVE  /\ Min(JoinCandidates(layer, q, x)) \in DOMAIN d.fks
         /\ d.fks[Min(JoinCandidates(layer, q, x))].dim = x
         /\ MeantKey(layer, q, x) = d.fks[Min(JoinCandidates(layer, q, x))]
<1> DEFINE C == JoinCandidates(layer, q, x)
           named == q.role # NoRole /\ \E r \in layer.roles : d.fks[r].column = q.role /\ d.fks[r].dim = x
           columns == {fk.column : fk \in {y \in Range(d.fks) : y.dim = x}}
           meant(fk) == fk.dim = x /\ (q.role \in columns => fk.column = q.role)
<1>1. \A i : i \in C <=> i \in DOMAIN d.fks /\ d.fks[i].dim = x /\ (named => d.fks[i].column = q.role)
  BY DEF JoinCandidates
<1>2. DOMAIN d.fks = 1 .. Len(d.fks) /\ Len(d.fks) \in Nat
  OBVIOUS
<1>3. \A fk : fk \in Range(d.fks) <=> \E i \in DOMAIN d.fks : fk = d.fks[i]
  BY DEF Range
<1>4. \A i \in DOMAIN d.fks : d.fks[i].column # NoRole
  BY DEF ToSet
<1>5. IsFiniteSet(C)
  <2>1. IsFiniteSet(1 .. Len(d.fks))
    BY <1>2, FS_Interval
  <2>2. C \subseteq 1 .. Len(d.fks)
    BY <1>1, <1>2
  <2> HIDE DEF C
  <2> QED
    BY <2>1, <2>2, FS_Subset
<1>6. PICK i : C = {i}
  <2> HIDE DEF C
  <2> QED
    BY <1>5, FS_Singleton DEF C
<1>7. i \in DOMAIN d.fks /\ d.fks[i].dim = x /\ (named => d.fks[i].column = q.role)
  BY <1>1, <1>6
<1>8. Min(C) = i
  <2>1. i <= i
    BY <1>2, <1>7
  <2> HIDE DEF C
  <2>2. \E y \in C : \A z \in C : y <= z
    BY <1>6, <2>1
  <2>3. Min(C) \in C
    BY <2>2, Zenon DEF Min
  <2> QED
    BY <1>6, <2>3
<1>9. d.fks[i] \in Range(d.fks) /\ meant(d.fks[i])
  <2>1. d.fks[i] \in Range(d.fks)
    BY <1>3, <1>7
  <2>2. ASSUME q.role \in columns PROVE d.fks[i].column = q.role
    <3>1. PICK j \in DOMAIN d.fks : d.fks[j].dim = x /\ d.fks[j].column = q.role
      BY <1>3, <2>2
    <3>2. CASE IsDate(d, x)
      <4>1. named
        BY <1>4, <3>1, <3>2
      <4> QED
        BY <1>7, <4>1
    <3>3. CASE ~IsDate(d, x)
      <4>1. ~named
        BY <3>3
      <4>2. j \in C
        BY <1>1, <3>1, <4>1
      <4> QED
        BY <1>6, <3>1, <4>2
    <3> QED
      BY <3>2, <3>3
  <2> QED
    BY <1>7, <2>1, <2>2
<1>10. ASSUME NEW fk \in Range(d.fks), meant(fk) PROVE fk = d.fks[i]
  <2>1. PICK j \in DOMAIN d.fks : fk = d.fks[j]
    BY <1>3
  <2>2. named => q.role \in columns
    BY <1>3
  <2>3. j \in C
    BY <1>1, <1>10, <2>1, <2>2
  <2> QED
    BY <1>6, <2>1, <2>3
<1>11. MeantKey(layer, q, x) = CHOOSE fk \in Range(d.fks) : meant(fk)
  BY DEF MeantKey
<1> HIDE DEF C, columns, meant
<1>12. MeantKey(layer, q, x) = d.fks[i]
  BY <1>9, <1>10, <1>11
<1> QED
  BY <1>7, <1>8, <1>12 DEF C

\* Every dimension a loaded row points into has one row beside it, which says
\* what the source says.
SeesAll(d, members, row, fk, table, attributes) ==
    \E m : /\ Beside(table, KeyFor(d, members, fk, row)) = {m}
           /\ \A a \in attributes : a.dim = fk.dim =>
                   MemberValue(a, m) = MeantValue(d, members, row, fk, a)

LEMMA RowSees ==
  ASSUME NEW d, NEW members, NEW rows, WellPosed(d, members, rows),
         NEW star, star = Compile(d, members, rows), star.ok, ~LoadRejects(d, star),
         NEW attributes, NEW q, QueryPosed(d, attributes, rows, q),
         NEW r \in rows, Fate(d, members, r) = "load", NEW i \in DOMAIN d.fks
  PROVE  SeesAll(d, members, r, d.fks[i], star.dims[d.fks[i].dim], attributes)
<1> DEFINE dim == d.fks[i].dim
           table == star.dims[dim]
<1>1. d.fks \in Seq(ToSet(d.fks))
  BY DEF WellPosed
<1>2. ~NullGrain(d, r) /\ StopsAt(d, members, r) = {}
  BY <1>1, Fates
<1>3. ForeignKey(d, members, d.fks[i], r) \notin {"raise", "quarantine"}
  BY <1>2 DEF StopsAt
<1>4. d.fks[i] \in ToSet(d.fks)
  BY DEF ToSet
<1>5. dim \in DOMAIN d.dims
  BY <1>4 DEF WellPosed
<1>6. /\ d.dims[dim].policy \in {"QUARANTINE_FACT", "NULLABLE_FK", "EXPLICIT_UNKNOWN_MEMBER"}
      /\ \A x \in DOMAIN d.dims[dim].key : d.dims[dim].key[x] # NoKey
  BY <1>5 DEF WellPosed
<1>7. /\ UnknownKey # Null
      /\ \A x \in DOMAIN d.dims[dim].key : d.dims[dim].key[x] # Null
      /\ \A a \in attributes : a.dim = dim =>
            /\ IsDate(d, dim) <=> a.column = "day"
            /\ a.column \in d.dims[dim].attrs \cup {"day"}
  BY <1>5 DEF QueryPosed
<1>8. \A x \in DOMAIN d.dims[dim].key : d.dims[dim].key[x] \notin {NoKey, Null}
  BY <1>6, <1>7
<1>9. \A m1, m2 \in table : m1.key = m2.key => m1 = m2
  BY <1>5 DEF LoadRejects
<1>10. CASE IsDate(d, dim)
  <2>1. r.cells[d.fks[i].column] \in DOMAIN d.dims[dim].key \cup {Null, Bad}
    BY <1>4, <1>10 DEF WellPosed
  <2>2. table = DateRows(d, members, rows, dim)
    BY <1>5, <1>10, CompiledParts DEF DateRows
  <2>3. Sees(d, members, r, d.fks[i], table)
    BY <1>2, <1>6, <1>8, <1>9, <1>10, <2>1, <2>2, DateBeside
  <2> QED
    BY <1>7, <1>10, <2>3 DEF Sees, SeesAll
<1>11. CASE ~IsDate(d, dim)
  <2>1. ~DimensionRaises(d, dim, members[dim]) /\ table = DimensionRows(d, dim, members[dim])
    BY <1>5, <1>11, CompiledParts
  <2>2. \A m \in members[dim] : RowReference(d, dim, m) \in DOMAIN d.dims[dim].key \cup {Null}
    BY <1>5, <1>11 DEF WellPosed
  <2>3. Sees(d, members, r, d.fks[i], table)
    BY <1>3, <1>6, <1>7, <1>8, <1>9, <1>11, <2>1, <2>2, PlainBeside
  <2> QED
    BY <1>7, <1>11, <2>3 DEF Sees, SeesAll
<1> QED
  BY <1>10, <1>11

\* The row of the join that a fact becomes when each dimension has one row for it.
BesideFact(joins, dims, f) ==
    [x \in DOMAIN joins |-> CHOOSE m : m \in Beside(dims[x], f.keys[joins[x]])]

FactJoined(joins, dims, f) == [fact |-> f, at |-> BesideFact(joins, dims, f)]
Singly(joins, dims, f) == \A x \in DOMAIN joins : \E m : Beside(dims[x], f.keys[joins[x]]) = {m}

LEMMA JoinedOnce ==
  ASSUME NEW plan, NEW T, \A f \in T.facts : Singly(plan.joins, T.dims, f)
  PROVE  \A j : j \in JoinRows(plan, T) <=> \E f \in T.facts : j = FactJoined(plan.joins, T.dims, f)
<1> DEFINE D == DOMAIN plan.joins
           sides(f, x) == Beside(T.dims[x], f.keys[plan.joins[x]])
           all(f) == {g \in [D -> UNION {sides(f, x) : x \in D}] : \A x \in D : g[x] \in sides(f, x)}
           one(f) == BesideFact(plan.joins, T.dims, f)
<1>1. JoinRows(plan, T) = UNION {{[fact |-> f, at |-> g] : g \in all(f)} : f \in T.facts}
  BY DEF JoinRows, Beside
<1>2. ASSUME NEW f \in T.facts PROVE all(f) = {one(f)}
  <2>1. \A x \in D : \E m : sides(f, x) = {m}
    BY DEF Singly
  <2>2. one(f) = [x \in D |-> CHOOSE m : m \in sides(f, x)]
    BY DEF BesideFact
  <2> HIDE DEF sides, one
  <2>3. \A x \in D : one(f)[x] \in sides(f, x)
    BY <2>1, <2>2
  <2>4. \A x \in D : \A m \in sides(f, x) : m = one(f)[x]
    BY <2>1, <2>3
  <2>5. one(f) \in [D -> UNION {sides(f, x) : x \in D}]
    BY <2>2, <2>3
  <2>6. \A g \in all(f) : g = one(f)
    BY <2>2, <2>4
  <2> QED
    BY <2>3, <2>5, <2>6
<1> HIDE DEF all, one
<1>3. JoinRows(plan, T) = {[fact |-> f, at |-> one(f)] : f \in T.facts}
  <2>1. \A f \in T.facts : {[fact |-> f, at |-> g] : g \in all(f)} = {[fact |-> f, at |-> one(f)]}
    BY <1>2
  <2> QED
    BY <1>1, <2>1
<1> QED
  BY <1>3 DEF one, FactJoined

-----------------------------------------------------------------------------
(* A query and its answers.                                                *)

LEMMA LayerParts ==
  ASSUME NEW d, NEW star, NEW T, T = Materialize(d, star),
         NEW fact, NEW measures, NEW attributes, NEW derived, NEW current,
         NEW layer, layer = BuildModel(d, fact, measures, attributes, derived, T, current), layer.ok
  PROVE  /\ ~LoadRejects(d, star)
         /\ T.dims = star.dims
         /\ T.facts = {[f EXCEPT !.measure = Stored(f.measure)] : f \in star.facts}
         /\ layer.design = d /\ layer.attributes = attributes /\ layer.target = T
         /\ layer.roles = {i \in DOMAIN d.fks : IsDate(d, d.fks[i].dim)}
<1>1. layer # Raised
  BY DEF Raised
<1>2. /\ T.ok
      /\ layer.design = d /\ layer.attributes = attributes /\ layer.target = T
      /\ layer.roles = {i \in DOMAIN d.fks : IsDate(d, d.fks[i].dim)}
  BY <1>1 DEF BuildModel
<1>3. T # Raised
  BY <1>2 DEF Raised
<1>4. ~LoadRejects(d, star) /\ T.dims = star.dims
  BY <1>3 DEF Materialize
<1>5. T.facts = {[f EXCEPT !.measure = Stored(f.measure)] : f \in star.facts}
  BY <1>3 DEF Materialize
<1> QED
  BY <1>2, <1>4, <1>5

StoredRow(d, members, r) ==
    [FactRow(d, members, r) EXCEPT !.measure = Stored(FactRow(d, members, r).measure)]

LEMMA StoredRowParts ==
  ASSUME NEW d, NEW members, NEW r
  PROVE  /\ \A i \in DOMAIN d.fks : StoredRow(d, members, r).keys[i] = KeyFor(d, members, d.fks[i], r)
         /\ StoredRow(d, members, r).refs = {r.ref}
         /\ StoredRow(d, members, r).measure = Stored(r.cells[d.measure])
BY DEF StoredRow, FactRow

LEMMA StoredAmount ==
  ASSUME NEW amount \in Int \cup {Null, Bad}, amount # Bad
  PROVE  Stored(amount) \in Int \cup {Null}
<1>1. CASE amount = Null
  BY <1>1 DEF Stored
<1>2. CASE amount # Null
  <2>1. amount \in Int /\ Tick \in Nat /\ Tick > 0
    BY <1>2, TickAssumption
  <2>2. (amount + Tick \div 2) \div Tick \in Int
    BY <2>1
  <2> QED
    BY <1>2, <2>1, <2>2 DEF Stored
<1> QED
  BY <1>1, <1>2

\* The attributes an accepted query groups by and filters on are attributes of
\* the dimensions it joins.
LEMMA QueryUses ==
  ASSUME NEW layer, NEW q, ~QueryRefused(layer, q),
         \A a \in layer.attributes : a.position \in Nat
  PROVE  /\ \A a \in GroupedBy(layer, q) : a \in layer.attributes /\ a.dim \in JoinedDims(layer, q)
         /\ \A a \in Filtered(layer, q.filters) : a \in layer.attributes /\ a.dim \in JoinedDims(layer, q)
         /\ \A x \in JoinedDims(layer, q) : Cardinality(JoinCandidates(layer, q, x)) = 1
<1>1. \A id \in AttributeIds(layer) : Attribute(layer, id) \in layer.attributes
  <2> SUFFICES ASSUME NEW id \in AttributeIds(layer) PROVE Attribute(layer, id) \in layer.attributes
    OBVIOUS
  <2>1. \E a \in layer.attributes : a.id = id
    BY DEF AttributeIds
  <2> QED
    BY <2>1, Zenon DEF Attribute
<1>2. /\ q.groups \subseteq AttributeIds(layer)
      /\ \A f \in q.filters : f.attr \in AttributeIds(layer)
      /\ \A x \in JoinedDims(layer, q) : Cardinality(JoinCandidates(layer, q, x)) = 1
      /\ q.groups = {} => \A x \in JoinedDims(layer, q) : \E a \in layer.attributes : a.dim = x /\ a.exposed
  BY DEF QueryRefused
<1>3. /\ \A id \in q.groups : Attribute(layer, id).dim \in JoinedDims(layer, q)
      /\ \A f \in q.filters : Attribute(layer, f.attr).dim \in JoinedDims(layer, q)
  BY DEF JoinedDims
<1>4. \A a \in Filtered(layer, q.filters) : a \in layer.attributes /\ a.dim \in JoinedDims(layer, q)
  BY <1>1, <1>2, <1>3 DEF Filtered
<1>5. ASSUME q.groups = {}, NEW x \in JoinedDims(layer, q)
      PROVE  FirstExposed(layer, x) \in layer.attributes /\ FirstExposed(layer, x).dim = x
  <2> DEFINE shown == {a \in layer.attributes : a.dim = x /\ a.exposed}
             places == {a.position : a \in shown}
  <2>1. places \in SUBSET Nat /\ places # {}
    BY <1>2, <1>5
  <2>2. PICK p \in places : \A n \in places : p <= n
    BY <2>1, LeastNatural
  <2>3. PICK a \in shown : a.position = p
    BY <2>2
  <2>4. \A b \in layer.attributes : b.dim = x /\ b.exposed => a.position <= b.position
    BY <2>2, <2>3
  <2>5. \E c \in layer.attributes :
           /\ c.dim = x /\ c.exposed
           /\ \A b \in layer.attributes : b.dim = x /\ b.exposed => c.position <= b.position
    BY <2>3, <2>4
  <2> QED
    BY <2>5, Zenon DEF FirstExposed
<1>6. \A a \in GroupedBy(layer, q) : a \in layer.attributes /\ a.dim \in JoinedDims(layer, q)
  <2>1. CASE q.groups # {}
    BY <1>1, <1>2, <1>3, <2>1 DEF GroupedBy
  <2>2. CASE q.groups = {}
    <3>1. GroupedBy(layer, q) = {FirstExposed(layer, x) : x \in JoinedDims(layer, q)}
      BY <2>2 DEF GroupedBy
    <3> QED
      BY <1>5, <2>2, <3>1
  <2> QED
    BY <2>1, <2>2
<1> QED
  BY <1>2, <1>4, <1>6

\* The two tables in the terms of Table: made of joined rows, and of input rows.
JoinedTotals(ops, rs) == [m \in DOMAIN ops |-> Aggregate(ops[m], [r \in rs |-> r.fact.measure])]
JoinedTable(groups, key, ops) ==
    {[key |-> g.key, total |-> JoinedTotals(ops, g.rows)] : g \in Grouped(groups, key)}
SourceTotals(ops, measure, rs) ==
    [m \in DOMAIN ops |-> Aggregate(ops[m], [r \in rs |-> Stored(r.cells[measure])])]
InputTable(groups, key, ops, measure) ==
    {[key |-> g.key, total |-> SourceTotals(ops, measure, g.rows)] : g \in Grouped(groups, key)}

LEMMA JoinedTableIs ==
  ASSUME NEW groups, NEW key, NEW ops, NEW amount, \A j \in DOMAIN key : amount[j] = j.fact.measure
  PROVE  JoinedTable(groups, key, ops) = Table(groups, key, ops, amount)
<1>1. ASSUME NEW rs, rs \subseteq DOMAIN key, NEW k
      PROVE  [key |-> k, total |-> JoinedTotals(ops, rs)] = TableRow(k, rs, ops, amount)
  <2>1. [r \in rs |-> r.fact.measure] = [r \in rs |-> amount[r]]
    BY <1>1
  <2> QED
    BY <2>1 DEF TableRow, JoinedTotals
<1>2. CASE groups = {}
  <2>1. Grouped(groups, key) = {[key |-> <<>>, rows |-> DOMAIN key]}
    BY <1>2 DEF Grouped
  <2>2. JoinedTable(groups, key, ops) = {[key |-> <<>>, total |-> JoinedTotals(ops, DOMAIN key)]}
    BY <2>1 DEF JoinedTable
  <2> QED
    BY <1>1, <1>2, <2>2 DEF Table
<1>3. CASE groups # {}
  <2> DEFINE of(k) == {r \in DOMAIN key : key[r] = k}
             made == {[key |-> k, total |-> JoinedTotals(ops, of(k))] : k \in Range(key)}
  <2>1. Grouped(groups, key) = {[key |-> k, rows |-> of(k)] : k \in Range(key)}
    BY <1>3 DEF Grouped
  <2>2. \A k : of(k) \subseteq DOMAIN key
    OBVIOUS
  <2>3. Table(groups, key, ops, amount) = {TableRow(k, of(k), ops, amount) : k \in Range(key)}
    BY <1>3 DEF Table
  <2> HIDE DEF of
  <2>4. JoinedTable(groups, key, ops) = made
    <3> DEFINE row(k, rs) == [key |-> k, total |-> JoinedTotals(ops, rs)]
    <3>1. JoinedTable(groups, key, ops) = {row(g.key, g.rows) : g \in Grouped(groups, key)}
      BY DEF JoinedTable
    <3>2. made = {row(k, of(k)) : k \in Range(key)}
      OBVIOUS
    <3>3. \A g \in Grouped(groups, key) : \E k \in Range(key) : g.key = k /\ g.rows = of(k)
      BY <2>1
    <3>4. \A k \in Range(key) : \E g \in Grouped(groups, key) : g.key = k /\ g.rows = of(k)
      <4> SUFFICES ASSUME NEW k \in Range(key)
                   PROVE  \E g \in Grouped(groups, key) : g.key = k /\ g.rows = of(k)
        OBVIOUS
      <4> DEFINE g == [key |-> k, rows |-> of(k)]
      <4>1. g \in Grouped(groups, key) /\ g.key = k /\ g.rows = of(k)
        BY <2>1
      <4> QED
        BY <4>1
    <3> HIDE DEF row, made
    <3> QED
      BY <3>1, <3>2, <3>3, <3>4
  <2>5. made = {TableRow(k, of(k), ops, amount) : k \in Range(key)}
    BY <1>1, <2>2
  <2> QED
    BY <2>3, <2>4, <2>5
<1> QED
  BY <1>2, <1>3

LEMMA InputTableIs ==
  ASSUME NEW groups, NEW key, NEW ops, NEW measure, NEW amount,
         \A r \in DOMAIN key : amount[r] = Stored(r.cells[measure])
  PROVE  InputTable(groups, key, ops, measure) = Table(groups, key, ops, amount)
<1>1. ASSUME NEW rs, rs \subseteq DOMAIN key, NEW k
      PROVE  [key |-> k, total |-> SourceTotals(ops, measure, rs)] = TableRow(k, rs, ops, amount)
  <2>1. [r \in rs |-> Stored(r.cells[measure])] = [r \in rs |-> amount[r]]
    BY <1>1
  <2> QED
    BY <2>1 DEF TableRow, SourceTotals
<1>2. CASE groups = {}
  <2>1. Grouped(groups, key) = {[key |-> <<>>, rows |-> DOMAIN key]}
    BY <1>2 DEF Grouped
  <2>2. InputTable(groups, key, ops, measure) = {[key |-> <<>>, total |-> SourceTotals(ops, measure, DOMAIN key)]}
    BY <2>1 DEF InputTable
  <2> QED
    BY <1>1, <1>2, <2>2 DEF Table
<1>3. CASE groups # {}
  <2> DEFINE of(k) == {r \in DOMAIN key : key[r] = k}
             made == {[key |-> k, total |-> SourceTotals(ops, measure, of(k))] : k \in Range(key)}
  <2>1. Grouped(groups, key) = {[key |-> k, rows |-> of(k)] : k \in Range(key)}
    BY <1>3 DEF Grouped
  <2>2. \A k : of(k) \subseteq DOMAIN key
    OBVIOUS
  <2>3. Table(groups, key, ops, amount) = {TableRow(k, of(k), ops, amount) : k \in Range(key)}
    BY <1>3 DEF Table
  <2> HIDE DEF of
  <2>4. InputTable(groups, key, ops, measure) = made
    <3> DEFINE row(k, rs) == [key |-> k, total |-> SourceTotals(ops, measure, rs)]
    <3>1. InputTable(groups, key, ops, measure) = {row(g.key, g.rows) : g \in Grouped(groups, key)}
      BY DEF InputTable
    <3>2. made = {row(k, of(k)) : k \in Range(key)}
      OBVIOUS
    <3>3. \A g \in Grouped(groups, key) : \E k \in Range(key) : g.key = k /\ g.rows = of(k)
      BY <2>1
    <3>4. \A k \in Range(key) : \E g \in Grouped(groups, key) : g.key = k /\ g.rows = of(k)
      <4> SUFFICES ASSUME NEW k \in Range(key)
                   PROVE  \E g \in Grouped(groups, key) : g.key = k /\ g.rows = of(k)
        OBVIOUS
      <4> DEFINE g == [key |-> k, rows |-> of(k)]
      <4>1. g \in Grouped(groups, key) /\ g.key = k /\ g.rows = of(k)
        BY <2>1
      <4> QED
        BY <4>1
    <3> HIDE DEF row, made
    <3> QED
      BY <3>1, <3>2, <3>3, <3>4
  <2>5. made = {TableRow(k, of(k), ops, amount) : k \in Range(key)}
    BY <1>1, <2>2
  <2> QED
    BY <2>3, <2>4, <2>5
<1> QED
  BY <1>2, <1>3

\* The rows a SELECT keeps and the keys it groups them by; and those of the same
\* question asked of the input rows.
JoinedKept(layer, plan, T) ==
    {j \in JoinRows(plan, T) : Where(layer, plan.filters,
        [a \in Filtered(layer, plan.filters) |-> MemberValue(a, j.at[a.dim])])}
JoinedKey(layer, plan, T) ==
    [j \in JoinedKept(layer, plan, T) |-> [a \in plan.groups |-> MemberValue(a, j.at[a.dim])]]
InputValue(layer, q, members, a, r) ==
    MeantValue(layer.design, members, r, MeantKey(layer, q, a.dim), a)
InputKept(layer, q, members, rows) ==
    {r \in rows : Where(layer, q.filters,
        [a \in Filtered(layer, q.filters) |-> InputValue(layer, q, members, a, r)])}
InputKey(layer, q, members, rows) ==
    [r \in InputKept(layer, q, members, rows) |->
        [a \in GroupedBy(layer, q) |-> InputValue(layer, q, members, a, r)]]

\* A table cut to a limit: any of its parts of that size, or all of it.
CutTo(table, limit) ==
    {t \in SUBSET table :
        Cardinality(t) = IF Cardinality(table) < limit THEN Cardinality(table) ELSE limit}

LEMMA AnswersAre ==
  ASSUME NEW layer, NEW plan, plan.model = layer, NEW table,
         table = JoinedTable(plan.groups, JoinedKey(layer, plan, layer.target), plan.ops)
  PROVE  Answers(layer, plan, layer.target) = CutTo(table, plan.limit)
BY DEF CutTo, Answers, JoinedTable, JoinedTotals, JoinedKey, JoinedKept

\* The operation of a base metric.
ChosenOp(layer, m) == CHOOSE op \in (CHOOSE b \in layer.metrics : b.id = m).ops : TRUE

LEMMA PlanParts ==
  ASSUME NEW layer, NEW q, NEW plan, plan = QueryPlan(layer, q), plan.ok
  PROVE  /\ ~QueryRefused(layer, q)
         /\ plan.model = layer /\ plan.filters = q.filters /\ plan.limit = q.limit
         /\ plan.groups = GroupedBy(layer, q)
         /\ DOMAIN plan.joins = JoinedDims(layer, q)
         /\ \A x \in JoinedDims(layer, q) : plan.joins[x] = Min(JoinCandidates(layer, q, x))
         /\ DOMAIN plan.ops = q.metrics
         /\ \A m \in q.metrics : plan.ops[m] = ChosenOp(layer, m)
<1>1. plan # Raised
  BY DEF Raised
<1> QED
  BY <1>1 DEF QueryPlan, ChosenOp

LEMMA SourceTableIs ==
  ASSUME NEW layer, NEW q, NEW members, NEW rows, NEW plan, plan = QueryPlan(layer, q), plan.ok
  PROVE  SourceTable(layer, q, members, rows) =
            InputTable(plan.groups, InputKey(layer, q, members, rows), plan.ops, layer.design.measure)
<1> DEFINE key == InputKey(layer, q, members, rows)
           totals(rs) == [m \in q.metrics |->
               Aggregate(ChosenOp(layer, m), [r \in rs |-> Stored(r.cells[layer.design.measure])])]
<1>1. SourceTable(layer, q, members, rows) =
        {[key |-> g.key, total |-> totals(g.rows)] : g \in Grouped(GroupedBy(layer, q), key)}
  BY DEF SourceTable, InputKey, InputKept, InputValue, ChosenOp
<1>2. plan.groups = GroupedBy(layer, q)
  BY PlanParts
<1>3. DOMAIN plan.ops = q.metrics /\ \A m \in q.metrics : plan.ops[m] = ChosenOp(layer, m)
  BY PlanParts
<1>4. ASSUME NEW rs PROVE totals(rs) = SourceTotals(plan.ops, layer.design.measure, rs)
  <2> DEFINE amounts == [r \in rs |-> Stored(r.cells[layer.design.measure])]
  <2>1. SourceTotals(plan.ops, layer.design.measure, rs) = [m \in DOMAIN plan.ops |-> Aggregate(plan.ops[m], amounts)]
    BY DEF SourceTotals
  <2>2. totals(rs) = [m \in q.metrics |-> Aggregate(ChosenOp(layer, m), amounts)]
    OBVIOUS
  <2> HIDE DEF amounts, totals
  <2> QED
    BY <1>3, <2>1, <2>2
<1> HIDE DEF totals, key
<1> QED
  BY <1>1, <1>2, <1>4 DEF InputTable, key

\* The joined row a loaded input row becomes.
RowJoined(d, members, plan, dims, r) == FactJoined(plan.joins, dims, StoredRow(d, members, r))

StoredFacts(facts) == {[f EXCEPT !.measure = Stored(f.measure)] : f \in facts}
DateJoins(d) == {i \in DOMAIN d.fks : IsDate(d, d.fks[i].dim)}
Unquarantined(rows, star) == {r \in rows : r.ref \notin star.quarantine}

\* The join keeps the loaded rows, one to one, and shows of each what the source
\* shows.
LEMMA JoinFaithful ==
  ASSUME NEW d, NEW members, NEW rows, WellPosed(d, members, rows),
         KeepsLineage(d),
         NEW star, star = Compile(d, members, rows), star.ok, ~LoadRejects(d, star),
         NEW layer, layer.design = d,
         layer.roles = DateJoins(d),
         NEW T, T.dims = star.dims,
         T.facts = StoredFacts(star.facts),
         NEW q, QueryPosed(d, layer.attributes, rows, q),
         NEW plan, plan = QueryPlan(layer, q), plan.ok,
         NEW loaded, loaded = Unquarantined(rows, star)
  PROVE  /\ \A j : j \in JoinRows(plan, T) <=> \E r \in loaded : j = RowJoined(d, members, plan, T.dims, r)
         /\ \A r, s \in loaded :
               RowJoined(d, members, plan, T.dims, r) = RowJoined(d, members, plan, T.dims, s) => r = s
         /\ \A r \in loaded : \A a \in layer.attributes : a.dim \in JoinedDims(layer, q) =>
               MemberValue(a, RowJoined(d, members, plan, T.dims, r).at[a.dim])
                  = InputValue(layer, q, members, a, r)
         /\ \A r \in loaded : /\ RowJoined(d, members, plan, T.dims, r).fact.measure = Stored(r.cells[d.measure])
                              /\ Stored(r.cells[d.measure]) \in Int \cup {Null}
<1> DEFINE J(r) == RowJoined(d, members, plan, T.dims, r)
           F(r) == StoredRow(d, members, r)
           D == JoinedDims(layer, q)
<1>1. /\ \A r, s \in rows : r.ref = s.ref => r = s
      /\ d.fks \in Seq(ToSet(d.fks))
  BY DEF WellPosed
<1>2. \A r : r \in loaded <=> r \in rows /\ Fate(d, members, r) = "load"
  <2>1. star.quarantine = {r.ref : r \in {x \in rows : Fate(d, members, x) = "quarantine"}}
    BY CompiledParts
  <2>2. \A r \in rows : Fate(d, members, r) # "raise"
    BY CompiledParts
  <2>3. \A r \in rows : Fate(d, members, r) \in {"raise", "quarantine", "load"}
    BY <1>1, Fates
  <2> QED
    BY <1>1, <2>1, <2>2, <2>3 DEF Unquarantined
<1>3. \A f : f \in T.facts <=> \E r \in loaded : f = F(r)
  <2>1. star.facts = {FactRow(d, members, r) : r \in {x \in rows : Fate(d, members, x) = "load"}}
    BY CompiledParts
  <2>2. star.facts = {FactRow(d, members, r) : r \in loaded}
    BY <1>2, <2>1
  <2> QED
    BY <2>2 DEF StoredRow, StoredFacts
<1>4. /\ ~QueryRefused(layer, q)
      /\ DOMAIN plan.joins = D /\ \A x \in D : plan.joins[x] = Min(JoinCandidates(layer, q, x))
  BY PlanParts
<1>5. \A a \in layer.attributes : a.position \in Nat
  BY DEF QueryPosed
<1>6. \A x \in D : Cardinality(JoinCandidates(layer, q, x)) = 1
  BY <1>4, <1>5, QueryUses
<1>7. \A fk \in ToSet(d.fks) : fk.column # NoRole
  BY DEF QueryPosed
<1>8. \A x \in D : /\ plan.joins[x] \in DOMAIN d.fks /\ d.fks[plan.joins[x]].dim = x
                   /\ MeantKey(layer, q, x) = d.fks[plan.joins[x]]
  BY <1>1, <1>4, <1>6, <1>7, JoinKey DEF DateJoins
<1>9. ASSUME NEW r \in loaded, NEW x \in D
      PROVE  \E m : /\ Beside(T.dims[x], F(r).keys[plan.joins[x]]) = {m}
                    /\ \A a \in layer.attributes : a.dim = x => MemberValue(a, m) = InputValue(layer, q, members, a, r)
  <2> DEFINE i == plan.joins[x]
  <2>1. i \in DOMAIN d.fks /\ d.fks[i].dim = x /\ MeantKey(layer, q, x) = d.fks[i]
    BY <1>8
  <2> HIDE DEF i
  <2>2. r \in rows /\ Fate(d, members, r) = "load"
    BY <1>2
  <2>3. SeesAll(d, members, r, d.fks[i], star.dims[d.fks[i].dim], layer.attributes)
    BY <2>1, <2>2, RowSees
  <2>4. F(r).keys[i] = KeyFor(d, members, d.fks[i], r)
    BY <2>1, StoredRowParts
  <2> HIDE DEF F
  <2>5. PICK m : /\ Beside(T.dims[x], F(r).keys[i]) = {m}
                 /\ \A a \in layer.attributes : a.dim = x => MemberValue(a, m) = MeantValue(d, members, r, d.fks[i], a)
    BY <2>1, <2>3, <2>4 DEF SeesAll
  <2>6. \A a \in layer.attributes : a.dim = x => MemberValue(a, m) = InputValue(layer, q, members, a, r)
    BY <2>1, <2>5 DEF InputValue
  <2> QED
    BY <2>5, <2>6 DEF i
<1>10. \A f \in T.facts : Singly(plan.joins, T.dims, f)
  <2> SUFFICES ASSUME NEW f \in T.facts, NEW x \in DOMAIN plan.joins
               PROVE  \E m : Beside(T.dims[x], f.keys[plan.joins[x]]) = {m}
    BY DEF Singly
  <2>1. PICK r \in loaded : f = F(r)
    BY <1>3
  <2>2. x \in D
    BY <1>4
  <2> HIDE DEF F, D
  <2>3. PICK m : Beside(T.dims[x], F(r).keys[plan.joins[x]]) = {m}
    BY <1>9, <2>2
  <2> QED
    BY <2>1, <2>3
<1>11. \A j : j \in JoinRows(plan, T) <=> \E f \in T.facts : j = FactJoined(plan.joins, T.dims, f)
  BY <1>10, JoinedOnce
<1>12. \A j : j \in JoinRows(plan, T) <=> \E r \in loaded : j = J(r)
  <2>1. \A r : J(r) = FactJoined(plan.joins, T.dims, F(r))
    BY DEF RowJoined
  <2> HIDE DEF J, F
  <2> QED
    BY <1>3, <1>11, <2>1
<1>13. \A r : J(r).fact = F(r) /\ J(r).at = BesideFact(plan.joins, T.dims, F(r))
  BY DEF RowJoined, FactJoined
<1>14. \A r, s \in loaded : J(r) = J(s) => r = s
  <2> SUFFICES ASSUME NEW r \in loaded, NEW s \in loaded, J(r) = J(s) PROVE r = s
    OBVIOUS
  <2>1. F(r) = F(s)
    BY <1>13
  <2>2. {r.ref} = {s.ref}
    BY <2>1, StoredRowParts
  <2> QED
    BY <1>1, <1>2, <2>2
<1>15. ASSUME NEW r \in loaded, NEW a \in layer.attributes, a.dim \in D
       PROVE  MemberValue(a, J(r).at[a.dim]) = InputValue(layer, q, members, a, r)
  <2> DEFINE x == a.dim
  <2>1. PICK m : /\ Beside(T.dims[x], F(r).keys[plan.joins[x]]) = {m}
                 /\ MemberValue(a, m) = InputValue(layer, q, members, a, r)
    BY <1>9, <1>15
  <2>2. J(r).at[x] = CHOOSE y : y \in Beside(T.dims[x], F(r).keys[plan.joins[x]])
    <3>1. BesideFact(plan.joins, T.dims, F(r))[x] = CHOOSE y : y \in Beside(T.dims[x], F(r).keys[plan.joins[x]])
      BY <1>4, <1>15 DEF BesideFact
    <3> QED
      BY <1>13, <3>1
  <2>3. J(r).at[x] = m
    BY <2>1, <2>2
  <2> QED
    BY <2>1, <2>3
<1>16. ASSUME NEW r \in loaded
       PROVE  J(r).fact.measure = Stored(r.cells[d.measure]) /\ Stored(r.cells[d.measure]) \in Int \cup {Null}
  <2>1. r \in rows /\ Fate(d, members, r) = "load"
    BY <1>2
  <2>2. r.cells[d.measure] \in Int \cup {Null, Bad}
    BY <2>1 DEF QueryPosed
  <2>3. ~NullGrain(d, r) /\ StopsAt(d, members, r) = {}
    BY <1>1, <2>1, Fates
  <2>4. r.cells[d.measure] # Bad
    BY <2>1, <2>3 DEF Fate, MeasureRaises
  <2>5. Stored(r.cells[d.measure]) \in Int \cup {Null}
    BY <2>2, <2>4, StoredAmount
  <2>6. F(r).measure = Stored(r.cells[d.measure])
    BY StoredRowParts
  <2> QED
    BY <1>13, <2>5, <2>6
<1> QED
  BY <1>12, <1>14, <1>15, <1>16

\* Rows that correspond one to one and show the same values give equal tables.
LEMMA TablesEqual ==
  ASSUME NEW layer, NEW q, NEW plan, plan = QueryPlan(layer, q), plan.ok, NEW members, NEW T,
         NEW loaded, IsFiniteSet(loaded), NEW J, DOMAIN J = loaded,
         \A j : j \in JoinRows(plan, T) <=> \E r \in loaded : j = J[r],
         \A r, s \in loaded : J[r] = J[s] => r = s,
         \A r \in loaded : \A a \in GroupedBy(layer, q) \cup Filtered(layer, q.filters) :
            MemberValue(a, J[r].at[a.dim]) = InputValue(layer, q, members, a, r),
         \A r \in loaded : /\ J[r].fact.measure = Stored(r.cells[layer.design.measure])
                           /\ Stored(r.cells[layer.design.measure]) \in Int \cup {Null}
  PROVE  /\ JoinedTable(plan.groups, JoinedKey(layer, plan, T), plan.ops)
               = SourceTable(layer, q, members, loaded)
         /\ IsFiniteSet(SourceTable(layer, q, members, loaded))
<1> DEFINE K == InputKept(layer, q, members, loaded)
           key == InputKey(layer, q, members, loaded)
           moved == JoinedKey(layer, plan, T)
           I == [r \in K |-> J[r]]
           a == [r \in K |-> Stored(r.cells[layer.design.measure])]
           b == [j \in JoinedKept(layer, plan, T) |-> j.fact.measure]
<1>1. plan.filters = q.filters /\ plan.groups = GroupedBy(layer, q)
  BY PlanParts
<1>2. K \subseteq loaded
  BY DEF InputKept
<1>3. IsFiniteSet(K)
  <2> HIDE DEF K
  <2> QED
    BY <1>2, FS_Subset
<1>4. ASSUME NEW r \in loaded
      PROVE  [x \in Filtered(layer, plan.filters) |-> MemberValue(x, J[r].at[x.dim])]
                = [x \in Filtered(layer, q.filters) |-> InputValue(layer, q, members, x, r)]
  BY <1>1
<1>5. ASSUME NEW r \in loaded
      PROVE  [x \in plan.groups |-> MemberValue(x, J[r].at[x.dim])]
                = [x \in GroupedBy(layer, q) |-> InputValue(layer, q, members, x, r)]
  BY <1>1
<1>6. \A r \in loaded : r \in K <=> J[r] \in JoinedKept(layer, plan, T)
  <2> SUFFICES ASSUME NEW r \in loaded PROVE r \in K <=> J[r] \in JoinedKept(layer, plan, T)
    OBVIOUS
  <2> DEFINE v == [x \in Filtered(layer, plan.filters) |-> MemberValue(x, J[r].at[x.dim])]
             w == [x \in Filtered(layer, q.filters) |-> InputValue(layer, q, members, x, r)]
  <2>1. v = w
    BY <1>4
  <2>2. J[r] \in JoinRows(plan, T)
    OBVIOUS
  <2>3. r \in K <=> Where(layer, q.filters, w)
    BY DEF InputKept
  <2>4. J[r] \in JoinedKept(layer, plan, T) <=> Where(layer, plan.filters, v)
    BY <2>2 DEF JoinedKept
  <2> HIDE DEF v, w, K
  <2> QED
    BY <1>1, <2>1, <2>3, <2>4
<1>7. \A j \in JoinedKept(layer, plan, T) : \E r \in K : j = J[r]
  <2>1. \A j \in JoinedKept(layer, plan, T) : j \in JoinRows(plan, T)
    BY DEF JoinedKept
  <2> HIDE DEF K
  <2> QED
    BY <1>6, <2>1
<1>8. DOMAIN I = K /\ \A x \in K : I[x] = J[x]
  OBVIOUS
<1>9. \A x, y \in K : I[x] = I[y] => x = y
  BY <1>2
<1>10. JoinedKept(layer, plan, T) = {I[x] : x \in K}
  <2> HIDE DEF K, I
  <2> QED
    BY <1>2, <1>6, <1>7, <1>8
<1>11. \A x \in K : b[I[x]] = a[x] /\ a[x] \in Int \cup {Null}
  <2> SUFFICES ASSUME NEW x \in K PROVE b[I[x]] = a[x] /\ a[x] \in Int \cup {Null}
    OBVIOUS
  <2>1. x \in loaded /\ J[x] \in JoinedKept(layer, plan, T)
    BY <1>2, <1>6
  <2>2. b[J[x]] = J[x].fact.measure
    BY <2>1
  <2>3. a[x] = Stored(x.cells[layer.design.measure])
    OBVIOUS
  <2> HIDE DEF a, b, I, K
  <2> QED
    BY <1>8, <2>1, <2>2, <2>3
<1>12. DOMAIN key = K /\ DOMAIN moved = JoinedKept(layer, plan, T)
  BY DEF InputKey, JoinedKey
<1>13. \A x \in K : moved[I[x]] = key[x]
  <2> SUFFICES ASSUME NEW x \in K PROVE moved[I[x]] = key[x]
    OBVIOUS
  <2>1. x \in loaded /\ J[x] \in JoinedKept(layer, plan, T)
    BY <1>2, <1>6
  <2>2. moved[J[x]] = [y \in plan.groups |-> MemberValue(y, J[x].at[y.dim])]
    BY <2>1 DEF JoinedKey
  <2>3. key[x] = [y \in GroupedBy(layer, q) |-> InputValue(layer, q, members, y, x)]
    BY DEF InputKey
  <2> HIDE DEF moved, key, I, K
  <2> QED
    BY <1>5, <1>8, <2>1, <2>2, <2>3
<1>14. \A j \in DOMAIN moved : b[j] = j.fact.measure
  BY <1>12
<1>15. \A r \in DOMAIN key : a[r] = Stored(r.cells[layer.design.measure])
  BY <1>12
<1>16. SourceTable(layer, q, members, loaded) = InputTable(plan.groups, key, plan.ops, layer.design.measure)
  BY SourceTableIs
<1> HIDE DEF K, key, moved, I, a, b
<1>17. Table(plan.groups, key, plan.ops, a) = Table(plan.groups, moved, plan.ops, b)
  <2>1. Renames(I, K, a, b, key, moved)
    BY <1>3, <1>8, <1>9, <1>10, <1>11, <1>12, <1>13 DEF Renames
  <2> QED
    BY <2>1, TableMoved
<1>18. InputTable(plan.groups, key, plan.ops, layer.design.measure) = Table(plan.groups, key, plan.ops, a)
  BY <1>15, InputTableIs
<1>19. JoinedTable(plan.groups, moved, plan.ops) = Table(plan.groups, moved, plan.ops, b)
  BY <1>14, JoinedTableIs
<1>20. IsFiniteSet(Table(plan.groups, key, plan.ops, a))
  BY <1>3, <1>12, TableFinite
<1> QED
  BY <1>16, <1>17, <1>18, <1>19, <1>20 DEF moved

\* An answer that LIMIT cuts out of a finite table.
LEMMA CutTable ==
  ASSUME NEW table, IsFiniteSet(table), NEW limit \in Nat, NEW answers,
         answers = {t \in SUBSET table :
             Cardinality(t) = IF Cardinality(table) < limit THEN Cardinality(table) ELSE limit}
  PROVE  /\ answers # {}
         /\ \A t \in answers : t \subseteq table /\ (Cardinality(t) < limit => t = table)
<1> DEFINE n == IF Cardinality(table) < limit THEN Cardinality(table) ELSE limit
<1>1. Cardinality(table) \in Nat
  BY FS_CardinalityType
<1>2. n \in Nat /\ n <= Cardinality(table) /\ (n < limit => n = Cardinality(table))
  BY <1>1
<1>3. \E t \in SUBSET table : Cardinality(t) = n
  <2> HIDE DEF n
  <2> QED
    BY <1>2, SubsetOfSize
<1>4. \A t : t \in answers <=> t \in SUBSET table /\ Cardinality(t) = n
  OBVIOUS
<1> HIDE DEF n
<1>5. ASSUME NEW t \in answers, Cardinality(t) < limit PROVE t = table
  <2>1. t \in SUBSET table /\ Cardinality(table) = Cardinality(t)
    BY <1>2, <1>4, <1>5
  <2> QED
    BY <2>1, FS_Subset
<1> QED
  BY <1>3, <1>4, <1>5

\* Every answer to an accepted query over a materialized star is made of rows of
\* the table that the same question gives over the loaded input rows, all of
\* them when the limit allows: no join loses, doubles or misplaces a fact,
\* whatever the time role, the unknown-member policy and the nulls, for every
\* design that leaves the column source_record_refs to the compiler and every
\* finite set of rows (SemanticLayerService.compile_query,
\* DuckDBSemanticQueryExecutor.execute).
THEOREM QueriesMatch ==
  ASSUME NEW d, NEW members, NEW rows, WellPosed(d, members, rows),
         KeepsLineage(d),
         NEW star, star = Compile(d, members, rows), star.ok,
         NEW fact, NEW measures, NEW attributes, NEW derived, NEW current, NEW layer,
         layer = BuildModel(d, fact, measures, attributes, derived, Materialize(d, star), current),
         layer.ok,
         NEW q, QueryPosed(d, attributes, rows, q)
  PROVE  AnswersMatch(layer, q, members, {r \in rows : r.ref \notin star.quarantine})
<1> DEFINE T == Materialize(d, star)
           loaded == Unquarantined(rows, star)
           plan == QueryPlan(layer, q)
           answers == Answers(layer, plan, layer.target)
           table == SourceTable(layer, q, members, loaded)
           J == [r \in loaded |-> RowJoined(d, members, plan, T.dims, r)]
<1>1. /\ ~LoadRejects(d, star) /\ T.dims = star.dims /\ T.facts = StoredFacts(star.facts)
      /\ layer.design = d /\ layer.attributes = attributes /\ layer.target = T /\ layer.roles = DateJoins(d)
  BY LayerParts DEF StoredFacts, DateJoins
<1>2. loaded = {r \in rows : r.ref \notin star.quarantine}
  BY DEF Unquarantined
<1>3. AnswersMatch(layer, q, members, loaded) <=>
        (plan.ok => /\ answers # {}
                    /\ \A t \in answers : t \subseteq table /\ (Cardinality(t) < q.limit => t = table))
  BY DEF AnswersMatch
<1>4. ASSUME plan.ok
      PROVE  answers # {} /\ \A t \in answers : t \subseteq table /\ (Cardinality(t) < q.limit => t = table)
  <2>1. QueryPosed(d, layer.attributes, rows, q)
    BY <1>1
  <2> HIDE DEF T, plan, loaded, answers, table
  <2>2. plan = QueryPlan(layer, q) /\ loaded = Unquarantined(rows, star)
    BY DEF plan, loaded
  <2>3. /\ \A j : j \in JoinRows(plan, T) <=> \E r \in loaded : j = RowJoined(d, members, plan, T.dims, r)
        /\ \A r, s \in loaded :
              RowJoined(d, members, plan, T.dims, r) = RowJoined(d, members, plan, T.dims, s) => r = s
        /\ \A r \in loaded : \A a \in layer.attributes : a.dim \in JoinedDims(layer, q) =>
              MemberValue(a, RowJoined(d, members, plan, T.dims, r).at[a.dim])
                 = InputValue(layer, q, members, a, r)
        /\ \A r \in loaded : /\ RowJoined(d, members, plan, T.dims, r).fact.measure = Stored(r.cells[d.measure])
                             /\ Stored(r.cells[d.measure]) \in Int \cup {Null}
    BY <1>1, <1>4, <2>1, <2>2, JoinFaithful
  <2>4. DOMAIN J = loaded /\ \A r \in loaded : J[r] = RowJoined(d, members, plan, T.dims, r)
    OBVIOUS
  <2>5. \A a \in GroupedBy(layer, q) \cup Filtered(layer, q.filters) :
           a \in layer.attributes /\ a.dim \in JoinedDims(layer, q)
    <3>1. ~QueryRefused(layer, q)
      BY <1>4, <2>2, PlanParts
    <3>2. \A a \in layer.attributes : a.position \in Nat
      BY <2>1 DEF QueryPosed
    <3> QED
      BY <3>1, <3>2, QueryUses
  <2>6. IsFiniteSet(loaded)
    <3>1. IsFiniteSet(rows) /\ loaded \subseteq rows
      BY <2>2 DEF WellPosed, Unquarantined
    <3> QED
      BY <3>1, FS_Subset
  <2>7. plan.model = layer /\ plan.limit = q.limit
    BY <1>4, <2>2, PlanParts
  <2> HIDE DEF J
  <2>8. /\ \A j : j \in JoinRows(plan, T) <=> \E r \in loaded : j = J[r]
        /\ \A r, s \in loaded : J[r] = J[s] => r = s
        /\ \A r \in loaded : \A a \in GroupedBy(layer, q) \cup Filtered(layer, q.filters) :
              MemberValue(a, J[r].at[a.dim]) = InputValue(layer, q, members, a, r)
        /\ \A r \in loaded : /\ J[r].fact.measure = Stored(r.cells[layer.design.measure])
                             /\ Stored(r.cells[layer.design.measure]) \in Int \cup {Null}
    BY <1>1, <2>3, <2>4, <2>5
  <2>9. /\ JoinedTable(plan.groups, JoinedKey(layer, plan, T), plan.ops) = table
        /\ IsFiniteSet(table)
    BY <1>4, <2>2, <2>4, <2>6, <2>8, TablesEqual DEF table
  <2>10. table = JoinedTable(plan.groups, JoinedKey(layer, plan, layer.target), plan.ops)
    BY <1>1, <2>9
  <2>11. answers = CutTo(table, plan.limit)
    <3>1. answers = Answers(layer, plan, layer.target)
      BY Zenon DEF answers
    <3>2. Answers(layer, plan, layer.target) = CutTo(table, plan.limit)
      BY ONLY <2>7, <2>10, AnswersAre, Zenon
    <3> QED
      BY ONLY <3>1, <3>2, Zenon
  <2>12. q.limit \in Nat
    BY <2>1 DEF QueryPosed
  <2> QED
    BY <2>7, <2>9, <2>11, <2>12, CutTable DEF CutTo
<1> HIDE DEF loaded, answers, table, plan
<1> QED
  BY <1>2, <1>3, <1>4

-----------------------------------------------------------------------------
(* What a clean file becomes.  The rows planning makes of it: each with a   *)
(* reference and an order of its own, every cell there.                     *)

CleanInputRow(r) ==
    /\ r.entity = {r.ref} /\ r.entity # Null /\ r.ref # NoKey
    /\ r.cells.canonical_entity_id = r.entity
    /\ r.cells.order # Null /\ r.cells.cust # Null
    /\ r.cells.date \notin {Null, Bad, NoKey}
    /\ r.cells.qty \in Int /\ r.cells.qty \notin {Null, Bad} /\ Stored(r.cells.qty) = r.cells.qty
CleanTable(rows) ==
    /\ IsFiniteSet(rows) /\ rows # {}
    /\ \A r, s \in rows : r.ref = s.ref \/ r.cells.order = s.cells.order => r = s
    /\ \A r \in rows : CleanInputRow(r)

OrderKey == [column |-> "canonical_entity_id", target |-> "order_key", dim |-> "dim_order", required |-> TRUE]

\* The columns of the order plan are apart, and none is the lineage column.
LEMMA OrderColumns ==
  ASSUME NEW rows
  PROVE  ~TargetsClash(OrderDesign(rows)) /\ KeepsLineage(OrderDesign(rows))
<1> DEFINE d == OrderDesign(rows)
<1>1. /\ d.grain.columns = {"order"} /\ d.plain = {"cust"} /\ d.measure = "qty"
      /\ DOMAIN d.fks = {1, 2} /\ d.fks[1].target = "order_key" /\ d.fks[2].target = "order_date_key"
  BY DesignParts DEF OrderDesign
<1> HIDE DEF d
<1>2. KeyTargets(d) = {"order_key", "order_date_key"}
  BY <1>1 DEF KeyTargets
<1> QED
  BY <1>1, <1>2 DEF TargetsClash, KeepsLineage, TargetNames, d

LEMMA OrderParts ==
  ASSUME NEW rows
  PROVE  LET d == OrderDesign(rows)
         IN /\ d.fks[1] = OrderKey
            /\ d.grain.nulls = "REJECT_NULLS"
            /\ d.plain = {"cust"}
            /\ ~IsDate(d, "dim_order")
            /\ d.dims["dim_order"].refs = "canonical_entity_id"
            /\ d.dims["dim_order"].attrs = {"order", "cust"}
            /\ d.dims["dim_order"].nullable = {}
            /\ d.dims["dim_order"].alternate = {"order"}
            /\ d.dims["dim_date"].alternate = {}
            /\ d.dims["dim_order"].policy = "QUARANTINE_FACT"
            /\ d.dims["dim_order"].range = {}
BY DEF OrderDesign, IsDate, OrderKey

LEMMA OrderReference ==
  ASSUME NEW rows, NEW r
  PROVE  RowReference(OrderDesign(rows), "dim_order", r) = r.entity
BY OrderParts DEF RowReference

LEMMA EntityKeys ==
  ASSUME NEW rows, CleanTable(rows), NEW r \in rows
  PROVE  OrderDesign(rows).dims["dim_order"].key[r.entity] = r.ref
<1>1. OrderDesign(rows).dims["dim_order"].key = [e \in {x.entity : x \in rows} |-> CHOOSE x \in e : TRUE]
  BY DEF OrderDesign
<1>2. OrderDesign(rows).dims["dim_order"].key[r.entity] = CHOOSE x \in r.entity : TRUE
  BY <1>1
<1>3. r.entity = {r.ref}
  BY DEF CleanTable, CleanInputRow
<1>4. (CHOOSE x \in {r.ref} : TRUE) = r.ref
  BY Zenon
<1> QED
  BY <1>2, <1>3, <1>4

\* Every row finds both keys and is loaded.
LEMMA CleanKeys ==
  ASSUME NEW rows, CleanTable(rows), NEW r \in rows,
         NEW d, d = OrderDesign(rows), NEW members, members = OrderTables(rows)
  PROVE  /\ ForeignKey(d, members, OrderKey, r) = "found" /\ LookedUp(d, members, OrderKey, r) = r.ref
         /\ ForeignKey(d, members, DateKey, r) = "found" /\ LookedUp(d, members, DateKey, r) = r.cells.date
<1>1. CleanInputRow(r)
  BY DEF CleanTable
<1>2. LookedUp(d, members, OrderKey, r) = r.ref
  <2>1. OrderKey.column = "canonical_entity_id" /\ OrderKey.dim = "dim_order"
    BY DEF OrderKey
  <2>2. members["dim_order"] = rows
    BY DEF OrderTables
  <2>6. RowReference(d, "dim_order", r) = r.entity
    BY OrderReference
  <2>3. r.entity \in {RowReference(d, "dim_order", y) : y \in members["dim_order"]}
    BY <2>2, <2>6
  <2>4. r.cells[OrderKey.column] = r.entity /\ r.entity # Null
    BY <1>1, <2>1 DEF CleanInputRow
  <2>5. d.dims["dim_order"].key[r.entity] = r.ref
    BY EntityKeys
  <2> QED
    BY <2>1, <2>3, <2>4, <2>5 DEF LookedUp
<1>3. LookedUp(d, members, DateKey, r) = r.cells.date
  <2>1. DateKey.column = "date" /\ DateKey.dim = "dim_date"
    BY DEF DateKey
  <2>2. IsDate(d, "dim_date")
    BY DesignParts
  <2>3. r.cells["date"] # Null
    BY <1>1 DEF CleanInputRow
  <2>4. d.dims["dim_date"].key[r.cells["date"]] = r.cells["date"]
    BY DateKeys
  <2> QED
    BY <2>1, <2>2, <2>3, <2>4 DEF LookedUp
<1>4. ForeignKey(d, members, OrderKey, r) = "found"
  <2>1. ~IsDate(d, OrderKey.dim)
    BY OrderParts DEF OrderKey
  <2>2. r.ref # NoKey
    BY <1>1 DEF CleanInputRow
  <2> QED
    BY <1>2, <2>1, <2>2 DEF ForeignKey
<1>5. ForeignKey(d, members, DateKey, r) = "found"
  <2>1. r.cells[DateKey.column] # Bad /\ r.cells.date # NoKey
    BY <1>1 DEF CleanInputRow, DateKey
  <2> QED
    BY <1>3, <2>1 DEF ForeignKey
<1> QED
  BY <1>2, <1>3, <1>4, <1>5

LEMMA CleanFate ==
  ASSUME NEW rows, CleanTable(rows), NEW r \in rows,
         NEW d, d = OrderDesign(rows), NEW members, members = OrderTables(rows)
  PROVE  ~NullGrain(d, r) /\ StopsAt(d, members, r) = {} /\ Fate(d, members, r) = "load"
<1>1. CleanInputRow(r)
  BY DEF CleanTable
<1>2. ~NullGrain(d, r)
  BY <1>1, DesignParts DEF NullGrain, CleanInputRow
<1>3. StopsAt(d, members, r) = {}
  <2>1. DOMAIN d.fks = {1, 2} /\ d.fks[1] = OrderKey /\ d.fks[2] = DateKey
    BY DesignParts, OrderParts
  <2>2. \A i \in DOMAIN d.fks : ForeignKey(d, members, d.fks[i], r) = "found"
    BY <2>1, CleanKeys
  <2> QED
    BY <2>2 DEF StopsAt
<1>4. ~MeasureRaises(d, r)
  BY <1>1, DesignParts DEF MeasureRaises, CleanInputRow
<1> QED
  BY <1>2, <1>3, <1>4 DEF Fate

\* An image keeps the size of a set whose elements it tells apart.
LEMMA ImageCounts ==
  ASSUME NEW S, IsFiniteSet(S), NEW f, DOMAIN f = S, \A x, y \in S : f[x] = f[y] => x = y
  PROVE  LET T == {f[x] : x \in S}
         IN IsFiniteSet(T) /\ Cardinality(T) = Cardinality(S)
<1> DEFINE T == {f[x] : x \in S}
           g == [x \in S |-> f[x]]
<1>1. g \in Bijection(S, T)
  <2>1. g \in Surjection(S, T)
    BY DEF Surjection
  <2>2. g \in Injection(S, T)
    BY DEF Injection, IsInjective
  <2> QED
    BY <2>1, <2>2 DEF Bijection
<1> HIDE DEF g, T
<1>2. ExistsBijection(S, T)
  BY <1>1 DEF ExistsBijection
<1>3. IsFiniteSet(T) /\ Cardinality(T) = Cardinality(S)
  BY <1>2, FS_Bijection
<1> QED
  BY <1>3 DEF T

\* And an image that keeps the size tells them apart.
LEMMA CountsImage ==
  ASSUME NEW S, IsFiniteSet(S), NEW f, DOMAIN f = S,
         Cardinality({f[x] : x \in S}) = Cardinality(S)
  PROVE  \A x, y \in S : f[x] = f[y] => x = y
<1> DEFINE T == {f[x] : x \in S}
           g == [x \in S |-> f[x]]
<1>1. g \in Surjection(S, T)
  BY DEF Surjection
<1>2. Cardinality(T) = Cardinality(S)
  OBVIOUS
<1> HIDE DEF T
<1>3. g \in Injection(S, T)
  BY <1>1, <1>2, FS_Surjection
<1> QED
  BY <1>3 DEF Injection, IsInjective

CleanStar(rows) == Compile(OrderDesign(rows), OrderTables(rows), rows)
CleanFact(rows, r) == FactRow(OrderDesign(rows), OrderTables(rows), r)
OrderMember(rows, r) == DimensionRow(OrderDesign(rows), "dim_order", r)
DateMember(t) == [key |-> t, entity |-> t, attrs |-> <<>>, refs |-> {}]
Days(rows) == {r.cells.date : r \in rows}

LEMMA CleanDates ==
  ASSUME NEW rows, CleanTable(rows)
  PROVE  DatesOf(OrderDesign(rows), OrderTables(rows), rows, "dim_date") = Days(rows)
<1> DEFINE d == OrderDesign(rows)
           members == OrderTables(rows)
<1>1. d.dims["dim_date"].range = {} /\ DOMAIN d.fks = {1, 2} /\ d.fks[1] = OrderKey /\ d.fks[2] = DateKey
  BY DesignParts, OrderParts
<1>2. OrderKey.dim # "dim_date" /\ DateKey.dim = "dim_date" /\ DateKey.column = "date"
  BY DEF OrderKey, DateKey
<1>3. \A r \in rows : ~NullGrain(d, r) /\ StopsAt(d, members, r) = {}
  BY CleanFate
<1> HIDE DEF d, members
<1>4. ASSUME NEW r \in rows
      PROVE  DatesMet(d, members, r, "dim_date") = {r.cells.date}
  <2>1. Visited(d, members, r) = {1, 2}
    BY <1>1, <1>3 DEF Visited
  <2>2. {j \in Visited(d, members, r) : d.fks[j].dim = "dim_date"} = {2}
    BY <1>1, <1>2, <2>1
  <2> QED
    BY <1>1, <1>2, <2>2 DEF DatesMet
<1>5. {x \in rows : ~NullGrain(d, x)} = rows
  BY <1>3
<1>6. \A r \in rows : r.cells.date \notin {Null, Bad}
  BY DEF CleanTable, CleanInputRow
<1>7. DatesOf(d, members, rows, "dim_date") = (UNION {DatesMet(d, members, r, "dim_date") : r \in rows}) \ {Null, Bad}
  BY <1>1, <1>5 DEF DatesOf
<1>8. (UNION {DatesMet(d, members, r, "dim_date") : r \in rows}) = Days(rows)
  BY <1>4 DEF Days
<1>9. Days(rows) \ {Null, Bad} = Days(rows)
  BY <1>6 DEF Days
<1> QED
  BY <1>7, <1>8, <1>9 DEF d, members

LEMMA OrderDimension ==
  ASSUME NEW rows, CleanTable(rows)
  PROVE  ~DimensionRaises(OrderDesign(rows), "dim_order", rows)
<1> DEFINE d == OrderDesign(rows)
           spec == d.dims["dim_order"]
           refs == {RowReference(d, "dim_order", r) : r \in rows}
           keys == {spec.key[x] : x \in refs \ {Null}}
           ents == {r.entity : r \in rows}
           names == {r.ref : r \in rows}
<1>1. /\ \A r \in rows : RowReference(d, "dim_order", r) = r.entity /\ spec.key[r.entity] = r.ref
      /\ spec.attrs = {"order", "cust"} /\ spec.nullable = {} /\ spec.policy = "QUARANTINE_FACT"
  BY OrderParts, OrderReference, EntityKeys
<1>2. \A r \in rows : CleanInputRow(r)
  BY DEF CleanTable
<1>3. \A r \in rows : r.entity = {r.ref} /\ r.entity # Null /\ r.cells["order"] # Null /\ r.cells["cust"] # Null
  BY <1>2 DEF CleanInputRow
<1> HIDE DEF d
<1>4. refs = ents /\ Null \notin ents
  BY <1>1, <1>3
<1>5. keys = names
  <2>1. \A r \in rows : spec.key[r.entity] = r.ref /\ r.entity \in ents \ {Null}
    BY <1>1, <1>3
  <2>2. keys = {spec.key[x] : x \in ents}
    BY <1>4
  <2> HIDE DEF spec, refs, keys
  <2> QED
    BY <2>1, <2>2
<1>6. Cardinality(ents) = Cardinality(rows) /\ Cardinality(names) = Cardinality(rows)
  <2> DEFINE f == [r \in rows |-> r.entity]
             g == [r \in rows |-> r.ref]
  <2>1. \A r, s \in rows : g[r] = g[s] => r = s
    BY DEF CleanTable
  <2>2. \A r, s \in rows : f[r] = f[s] => r = s
    BY <1>3 DEF CleanTable
  <2>3. ents = {f[r] : r \in rows} /\ names = {g[r] : r \in rows}
    OBVIOUS
  <2>4. IsFiniteSet(rows) /\ DOMAIN f = rows /\ DOMAIN g = rows
    BY DEF CleanTable
  <2> HIDE DEF f, g, ents, names
  <2>5. Cardinality({f[r] : r \in rows}) = Cardinality(rows)
    BY <2>2, <2>4, ImageCounts
  <2>6. Cardinality({g[r] : r \in rows}) = Cardinality(rows)
    BY <2>1, <2>4, ImageCounts
  <2> QED
    BY <2>3, <2>5, <2>6
<1>7. Cardinality(rows) \in Nat
  BY FS_CardinalityType DEF CleanTable
<1>8. \A r \in rows, a \in spec.attrs \ spec.nullable : r.cells[a] # Null
  BY <1>1, <1>3
<1>9. DimensionRaises(d, "dim_order", rows) <=>
        \/ Null \in refs
        \/ Cardinality(refs) < Cardinality(rows)
        \/ Cardinality(keys) < Cardinality(refs)
        \/ \E r \in rows, a \in spec.attrs \ spec.nullable : r.cells[a] = Null
        \/ spec.policy = "EXPLICIT_UNKNOWN_MEMBER" /\ UnknownKey \in keys
  BY DEF DimensionRaises
<1>10. spec.policy # "EXPLICIT_UNKNOWN_MEMBER"
  BY <1>1
<1> HIDE DEF refs, keys, spec, ents, names
<1>11. ~(Cardinality(refs) < Cardinality(rows)) /\ ~(Cardinality(keys) < Cardinality(refs))
  BY <1>4, <1>5, <1>6, <1>7
<1> QED
  BY <1>4, <1>8, <1>9, <1>10, <1>11 DEF d

\* The compiled star of a clean file.
LEMMA CleanCompiles ==
  ASSUME NEW rows, CleanTable(rows), NEW star, star = CleanStar(rows)
  PROVE  /\ star.ok /\ star.quarantine = {}
         /\ DOMAIN star.dims = {"dim_order", "dim_date"}
         /\ star.dims["dim_order"] = {OrderMember(rows, r) : r \in rows}
         /\ star.dims["dim_date"] = {DateMember(t) : t \in Days(rows)}
         /\ star.facts = {CleanFact(rows, r) : r \in rows}
<1> DEFINE d == OrderDesign(rows)
           members == OrderTables(rows)
<1>1. DOMAIN d.dims = {"dim_order", "dim_date"} /\ ~IsDate(d, "dim_order") /\ IsDate(d, "dim_date")
  BY DesignParts, OrderParts
<1>2. \A r \in rows : Fate(d, members, r) = "load"
  BY CleanFate
<1>3. members["dim_order"] = rows
  BY DEF OrderTables
<1>4. ~DimensionRaises(d, "dim_order", members["dim_order"])
  BY <1>3, OrderDimension
<1>5. DatesOf(d, members, rows, "dim_date") = Days(rows) /\ Days(rows) # {}
  BY CleanDates DEF Days, CleanTable
<1>6. star = Compile(d, members, rows)
  BY DEF CleanStar
<1>7. \A r \in rows : \A t \in Days(rows) : d.dims["dim_date"].key[t] = t
  BY DateKeys DEF Days
<1>8. d.dims["dim_order"].policy = "QUARANTINE_FACT"
  BY OrderParts
<1>14. ~TargetsClash(d) /\ KeepsLineage(d)
  BY OrderColumns
<1>13. rows # {}
  BY DEF CleanTable
<1> HIDE DEF d, members
<1>9. star.ok /\ DOMAIN star.dims = {"dim_order", "dim_date"}
  <2>1. ~\E x \in {y \in DOMAIN d.dims : ~IsDate(d, y)} : DimensionRaises(d, x, members[x])
    BY <1>1, <1>4
  <2>2. ~\E x \in DOMAIN d.dims \ {y \in DOMAIN d.dims : ~IsDate(d, y)} : DatesOf(d, members, rows, x) = {}
    BY <1>1, <1>5
  <2>3. ~\E r \in rows : Fate(d, members, r) = "raise"
    BY <1>2
  <2> QED
    BY <1>1, <1>6, <1>14, <2>1, <2>2, <2>3 DEF Compile
<1>10. /\ star.dims["dim_order"] = DimensionRows(d, "dim_order", rows)
       /\ star.dims["dim_date"] = {[key |-> d.dims["dim_date"].key[t], entity |-> t, attrs |-> <<>>, refs |-> {}] :
                                      t \in Days(rows)}
       /\ star.facts = {FactRow(d, members, r) : r \in {x \in rows : Fate(d, members, x) = "load"}}
       /\ star.quarantine = {r.ref : r \in {x \in rows : Fate(d, members, x) = "quarantine"}}
  BY <1>1, <1>3, <1>5, <1>6, <1>9, <1>14, CompiledParts
<1>11. DimensionRows(d, "dim_order", rows) = {OrderMember(rows, r) : r \in rows}
  BY <1>8 DEF DimensionRows, OrderMember, d
<1>12. {x \in rows : Fate(d, members, x) = "load"} = rows /\ {x \in rows : Fate(d, members, x) = "quarantine"} = {}
  BY <1>2
<1>16. star.dims["dim_date"] = {DateMember(t) : t \in Days(rows)}
  <2>1. \A t \in Days(rows) :
          [key |-> d.dims["dim_date"].key[t], entity |-> t, attrs |-> <<>>, refs |-> {}] = DateMember(t)
    BY <1>7, <1>13 DEF DateMember
  <2> QED
    BY <1>10, <2>1
<1>15. star.facts = {CleanFact(rows, r) : r \in rows}
  BY <1>10, <1>12 DEF CleanFact, d, members
<1> QED
  BY <1>9, <1>10, <1>11, <1>12, <1>15, <1>16

StoredFact(f) == [f EXCEPT !.measure = Stored(f.measure)]

FactTells(f, r) ==
    /\ f.grain = [order |-> r.cells.order] /\ f.event = {r.ref} /\ f.refs = {r.ref}
    /\ f.keys[1] = r.ref /\ f.keys[2] = r.cells.date
    /\ f.plain["cust"] # Null
    /\ f.measure = r.cells.qty

LEMMA CleanFactParts ==
  ASSUME NEW rows, CleanTable(rows), NEW r \in rows
  PROVE  FactTells(CleanFact(rows, r), r) /\ StoredFact(CleanFact(rows, r)) = CleanFact(rows, r)
<1> DEFINE d == OrderDesign(rows)
           members == OrderTables(rows)
           f == CleanFact(rows, r)
<1>1. /\ DOMAIN d.fks = {1, 2} /\ d.fks[1] = OrderKey /\ d.fks[2] = DateKey
      /\ d.grain.columns = {"order"} /\ d.plain = {"cust"} /\ d.measure = "qty"
  BY DesignParts, OrderParts
<1>2. /\ KeyFor(d, members, OrderKey, r) = r.ref
      /\ KeyFor(d, members, DateKey, r) = r.cells.date
  BY CleanKeys DEF KeyFor
<1>3. CleanInputRow(r)
  BY DEF CleanTable
<1> HIDE DEF d, members
<1>4. f = FactRow(d, members, r)
  BY DEF CleanFact, d, members
<1> HIDE DEF f
<1>5. f.keys = [i \in DOMAIN d.fks |-> KeyFor(d, members, d.fks[i], r)]
  BY <1>4 DEF FactRow
<1>6. f.keys[1] = r.ref /\ f.keys[2] = r.cells.date
  BY <1>1, <1>2, <1>5
<1>7. /\ f.grain = [c \in {"order"} |-> r.cells[c]] /\ f.event = r.entity /\ f.refs = {r.ref}
      /\ f.plain = [c \in {"cust"} |-> r.cells[c]] /\ f.measure = r.cells["qty"]
  BY <1>1, <1>4 DEF FactRow, GrainOf
<1>8. [c \in {"order"} |-> r.cells[c]] = [order |-> r.cells.order]
  OBVIOUS
<1>9. f.plain["cust"] # Null
  BY <1>3, <1>7 DEF CleanInputRow
<1>10. Stored(f.measure) = f.measure
  BY <1>3, <1>7 DEF CleanInputRow
<1>11. [f EXCEPT !.measure = f.measure] = f
  BY <1>4 DEF FactRow
<1>12. StoredFact(f) = f
  BY <1>10, <1>11 DEF StoredFact
<1> QED
  BY <1>3, <1>6, <1>7, <1>8, <1>9, <1>12 DEF CleanInputRow, FactTells, f

LEMMA OrderMemberParts ==
  ASSUME NEW rows, CleanTable(rows), NEW r \in rows, NEW m, m = OrderMember(rows, r)
  PROVE  m.key = r.ref /\ m.entity = {r.ref} /\ m.refs = {r.ref} /\ m.attrs["order"] = r.cells.order
<1> DEFINE d == OrderDesign(rows)
<1>1. RowReference(d, "dim_order", r) = r.entity /\ d.dims["dim_order"].key[r.entity] = r.ref
  BY OrderReference, EntityKeys
<1>2. d.dims["dim_order"].attrs = {"order", "cust"}
  BY OrderParts
<1>3. r.entity = {r.ref}
  BY DEF CleanTable, CleanInputRow
<1> HIDE DEF d
<1>4. m = [key |-> d.dims["dim_order"].key[RowReference(d, "dim_order", r)],
           entity |-> RowReference(d, "dim_order", r),
           attrs |-> [a \in d.dims["dim_order"].attrs |-> r.cells[a]], refs |-> {r.ref}]
  BY DEF OrderMember, DimensionRow, d
<1> QED
  BY <1>1, <1>2, <1>3, <1>4

\* Nothing in it is refused by the engine, and what is loaded is what was
\* compiled.
LEMMA CleanLoads ==
  ASSUME NEW rows, CleanTable(rows)
  PROVE  LET star == CleanStar(rows)
             built == Target(rows, OrderTables(rows))
         IN ~LoadRejects(OrderDesign(rows), star) /\ built.ok /\ built.dims = star.dims /\ built.facts = star.facts
<1> DEFINE d == OrderDesign(rows)
           star == CleanStar(rows)
           built == Target(rows, OrderTables(rows))
<1>1. /\ star.ok
      /\ star.dims["dim_order"] = {OrderMember(rows, r) : r \in rows}
      /\ star.dims["dim_date"] = {DateMember(t) : t \in Days(rows)}
      /\ star.facts = {CleanFact(rows, r) : r \in rows}
  BY CleanCompiles
<1>2. /\ DOMAIN d.dims = {"dim_order", "dim_date"} /\ DOMAIN d.fks = {1, 2}
      /\ d.fks[1].dim = "dim_order" /\ d.fks[2].dim = "dim_date" /\ d.plain = {"cust"}
  BY DesignParts, OrderParts DEF OrderKey, DateKey
<1>3. built = IF star.ok THEN Materialize(d, star) ELSE Raised
  BY DEF Target, Build, CleanStar
<1>4. \A r, s \in rows : r.ref = s.ref \/ r.cells.order = s.cells.order => r = s
  BY DEF CleanTable
<1> HIDE DEF d, star, built
<1>5. ASSUME NEW m1 \in star.dims["dim_order"], NEW m2 \in star.dims["dim_order"],
             m1.key = m2.key \/ m1.entity = m2.entity
      PROVE  m1 = m2
  <2>1. PICK r1 \in rows : m1 = OrderMember(rows, r1)
    BY <1>1
  <2>2. PICK r2 \in rows : m2 = OrderMember(rows, r2)
    BY <1>1
  <2>3. m1.key = r1.ref /\ m1.entity = {r1.ref} /\ m2.key = r2.ref /\ m2.entity = {r2.ref}
    BY <2>1, <2>2, OrderMemberParts
  <2>4. r1.ref = r2.ref
    BY <1>5, <2>3
  <2> QED
    BY <1>4, <2>1, <2>2, <2>4
<1>6. ASSUME NEW m1 \in star.dims["dim_date"], NEW m2 \in star.dims["dim_date"],
             m1.key = m2.key \/ m1.entity = m2.entity
      PROVE  m1 = m2
  <2>1. PICK t1 : m1 = DateMember(t1)
    BY <1>1
  <2>2. PICK t2 : m2 = DateMember(t2)
    BY <1>1
  <2>3. t1 = t2
    BY <1>6, <2>1, <2>2 DEF DateMember
  <2> QED
    BY <2>1, <2>2, <2>3
<1>7. ASSUME NEW f1 \in star.facts, NEW f2 \in star.facts, f1.grain = f2.grain
      PROVE  f1 = f2
  <2>1. PICK r1 \in rows : f1 = CleanFact(rows, r1)
    BY <1>1
  <2>2. PICK r2 \in rows : f2 = CleanFact(rows, r2)
    BY <1>1
  <2>3. f1.grain = [order |-> r1.cells.order] /\ f2.grain = [order |-> r2.cells.order]
    BY <2>1, <2>2, CleanFactParts DEF FactTells
  <2>4. r1.cells.order = r2.cells.order
    <3>1. f1.grain.order = r1.cells.order /\ f2.grain.order = r2.cells.order
      BY <2>3
    <3> QED
      BY <1>7, <3>1
  <2> QED
    BY <1>4, <2>1, <2>2, <2>4
<1>8. ASSUME NEW f \in star.facts
      PROVE  /\ f.plain["cust"] # Null
             /\ f.keys[1] \in {m.key : m \in star.dims["dim_order"]}
             /\ f.keys[2] \in {m.key : m \in star.dims["dim_date"]}
             /\ StoredFact(f) = f
  <2>1. PICK r \in rows : f = CleanFact(rows, r)
    BY <1>1
  <2>2. /\ f.plain["cust"] # Null /\ f.keys[1] = r.ref /\ f.keys[2] = r.cells.date
        /\ StoredFact(f) = f
    BY <2>1, CleanFactParts DEF FactTells
  <2>3. OrderMember(rows, r) \in star.dims["dim_order"] /\ OrderMember(rows, r).key = r.ref
    BY <1>1, OrderMemberParts
  <2>4. DateMember(r.cells.date) \in star.dims["dim_date"] /\ DateMember(r.cells.date).key = r.cells.date
    BY <1>1 DEF Days, DateMember
  <2>5. f.keys[1] \in {m.key : m \in star.dims["dim_order"]}
    BY <2>2, <2>3
  <2>6. f.keys[2] \in {m.key : m \in star.dims["dim_date"]}
    BY <2>2, <2>4
  <2> QED
    BY <2>2, <2>5, <2>6
<1>9. ~LoadRejects(d, star)
  <2>1. ~\E x \in DOMAIN d.dims : \E r1, r2 \in star.dims[x] :
            r1 # r2 /\ (r1.key = r2.key \/ r1.entity = r2.entity)
    BY <1>2, <1>5, <1>6
  <2>2. ~\E f1, f2 \in star.facts : f1 # f2 /\ f1.grain = f2.grain
    BY <1>7
  <2>3. ~\E f \in star.facts : \/ \E c \in d.plain : f.plain[c] = Null
                               \/ \E i \in DOMAIN d.fks :
                                    /\ f.keys[i] # Null
                                    /\ f.keys[i] \notin {r.key : r \in star.dims[d.fks[i].dim]}
    BY <1>2, <1>8
  <2> QED
    BY <2>1, <2>2, <2>3 DEF LoadRejects
<1>10. built = [ok |-> TRUE, dims |-> star.dims,
                facts |-> {StoredFact(f) : f \in star.facts}]
  BY <1>1, <1>3, <1>9 DEF Materialize, StoredFact
<1>11. {StoredFact(f) : f \in star.facts} = star.facts
  BY <1>8
<1> QED
  BY <1>9, <1>10, <1>11 DEF d, star, built

-----------------------------------------------------------------------------
(* The gate on the target of a clean file.                                 *)

TruthRecord(snap, r) == [ref |-> r.ref, snap |-> snap, entity |-> r.entity]
TruthEntity(r) == [entity |-> r.entity, refs |-> {r.ref}]
CleanMap(snap, r) == [ref |-> r.ref, snap |-> snap, entity |-> r.entity, disposition |-> "EMITTED_DIRECT"]
Quantities(rows) == [r \in rows |-> r.cells.qty]
OfDay(rows, t) == {r \in rows : r.cells.date = t}
GlobalSum(rows) == [by |-> "global", expected |-> [global |-> SumFunctionOnSet(Quantities(rows), rows)]]
DailySums(rows) ==
    [by |-> "dim_date", expected |-> [t \in Days(rows) |->
        SumFunctionOnSet(Quantities(OfDay(rows, t)), OfDay(rows, t))]]

LEMMA TruthParts ==
  ASSUME NEW snap, NEW dataset, NEW canon, NEW rows, rows = dataset.rows,
         NEW truth, truth = Truth(snap, dataset, canon)
  PROVE  /\ truth.snap = snap
         /\ truth.records = {TruthRecord(snap, r) : r \in rows}
         /\ truth.entities = {TruthEntity(r) : r \in rows}
         /\ truth.duplicates = {}
         /\ \A l \in truth.links : \E r \in rows :
               l.relationship = Latest("RelationshipDecision").ref /\ l.ref = r.ref /\ l.entity = r.entity
         /\ DOMAIN truth.expected["SOURCE_TO_CANONICAL"] = {r.ref : r \in rows}
         /\ DOMAIN truth.expected["CANONICAL_TO_ANALYTICAL"] = {r.entity : r \in rows}
         /\ truth.aggregates = {GlobalSum(rows), DailySums(rows)}
<1>1. truth.snap = snap /\ truth.duplicates = {}
  BY DEF Truth, TruthWith
<1>2. truth.records = {TruthRecord(snap, r) : r \in rows}
  BY DEF Truth, TruthWith, TruthRecord
<1>3. truth.entities = {TruthEntity(r) : r \in rows}
  BY DEF Truth, TruthWith, TruthEntity
<1>4. \A l \in truth.links : \E r \in rows :
        l.relationship = Latest("RelationshipDecision").ref /\ l.ref = r.ref /\ l.entity = r.entity
  BY DEF Truth, TruthWith
<1>5. /\ DOMAIN truth.expected["SOURCE_TO_CANONICAL"] = {r.ref : r \in rows}
      /\ DOMAIN truth.expected["CANONICAL_TO_ANALYTICAL"] = {r.entity : r \in rows}
  BY DEF Truth, TruthWith
<1>6. truth.aggregates = {GlobalSum(rows), DailySums(rows)}
  BY DEF Truth, TruthWith, GlobalSum, DailySums, SumBy, Quantities, OfDay, Days
<1> QED
  BY <1>1, <1>2, <1>3, <1>4, <1>5, <1>6

\* What the gate is given at the end of a run of a clean file.
CleanGate(x, rows, snap) ==
    /\ ArtifactBinding(x)
    /\ x.dataset.rows = rows
    /\ x.truth = Truth(snap, x.dataset, x.canonical) /\ x.accounting = x.truth.expected
    /\ x.canonical.maps = {CleanMap(snap, r) : r \in rows}
    /\ x.canonical.instances = {TruthEntity(r) : r \in rows}
    /\ Latest("RelationshipDecision").ref \in x.canonical.relationships
    /\ x.compiled.design = OrderDesign(rows)
    /\ x.target = Target(rows, OrderTables(rows))
    /\ x.semantic.measure = "qty" /\ x.semval.status = "PASS"

LEMMA PassesWhen ==
  ASSUME NEW holds, holds, NEW present
  PROVE  Verdict(holds) = "PASS" /\ VerdictOf(holds, present) = "PASS"
BY DEF Verdict, VerdictOf

\* The checks of records and canonical entities.
LEMMA CleanMappings ==
  ASSUME NEW rows, CleanTable(rows), NEW snap, NEW x, CleanGate(x, rows, snap)
  PROVE  /\ Verdict(ArtifactBinding(x)) = "PASS"
         /\ Verdict(SourceSnapshotUniverse(x)) = "PASS"
         /\ CanonicalMembership(x) = "PASS"
         /\ CanonicalEntityCounts(x) = "PASS"
         /\ DedupExplainability(x) = "PASS"
         /\ CanonicalEventRelationships(x) = "PASS"
<1>1. /\ x.truth.snap = snap
      /\ x.truth.records = {TruthRecord(snap, r) : r \in rows}
      /\ x.truth.entities = {TruthEntity(r) : r \in rows}
      /\ x.truth.duplicates = {}
      /\ \A l \in x.truth.links : \E r \in rows :
            l.relationship = Latest("RelationshipDecision").ref /\ l.ref = r.ref /\ l.entity = r.entity
  BY TruthParts DEF CleanGate
<1>2. /\ x.canonical.maps = {CleanMap(snap, r) : r \in rows}
      /\ x.canonical.instances = {TruthEntity(r) : r \in rows}
      /\ Latest("RelationshipDecision").ref \in x.canonical.relationships
  BY DEF CleanGate
<1>3. rows # {} /\ \A r, s \in rows : r.ref = s.ref => r = s
  BY DEF CleanTable
<1>4. Verdict(ArtifactBinding(x)) = "PASS"
  BY PassesWhen DEF CleanGate
<1>5. SourceSnapshotUniverse(x)
  <2>2. \A r \in rows : TruthRecord(snap, r).snap = snap
    BY DEF TruthRecord
  <2>3. (\A y \in x.truth.records : y.snap = snap) /\ x.truth.records # {}
    BY <1>1, <1>3, <2>2
  <2>1. {y.snap : y \in x.truth.records} = {snap}
    BY <2>3
  <2> QED
    BY <1>1, <2>1 DEF SourceSnapshotUniverse
<1>6. ASSUME NEW y \in x.truth.records
      PROVE  \E r \in rows : /\ y = TruthRecord(snap, r) /\ y.ref = r.ref
                             /\ MapsOf(x, y) = {CleanMap(snap, r)}
  <2>1. PICK r \in rows : y = TruthRecord(snap, r)
    BY <1>1
  <2>2. y.ref = r.ref
    BY <2>1 DEF TruthRecord
  <2>3. \A s \in rows : CleanMap(snap, s).ref = s.ref
    BY DEF CleanMap
  <2>4. MapsOf(x, y) = {CleanMap(snap, r)}
    BY <1>2, <1>3, <2>2, <2>3 DEF MapsOf
  <2> QED
    BY <2>1, <2>2, <2>4
<1>7. \A r \in x.truth.records :
         /\ Cardinality(MapsOf(x, r)) = 1
         /\ \A m \in MapsOf(x, r) : m.snap = r.snap /\ m.entity = r.entity
  <2> SUFFICES ASSUME NEW y \in x.truth.records
               PROVE  /\ Cardinality(MapsOf(x, y)) = 1
                      /\ \A m \in MapsOf(x, y) : m.snap = y.snap /\ m.entity = y.entity
    OBVIOUS
  <2>1. PICK r \in rows : y = TruthRecord(snap, r) /\ MapsOf(x, y) = {CleanMap(snap, r)}
    BY <1>6
  <2>2. Cardinality({CleanMap(snap, r)}) = 1
    BY FS_Singleton
  <2>3. CleanMap(snap, r).snap = y.snap /\ CleanMap(snap, r).entity = y.entity
    BY <2>1 DEF CleanMap, TruthRecord
  <2> QED
    BY <2>1, <2>2, <2>3
<1>8. {m.ref : m \in x.canonical.maps} = {r.ref : r \in x.truth.records}
  <2>3. \A r \in rows : CleanMap(snap, r).ref = r.ref /\ TruthRecord(snap, r).ref = r.ref
    BY DEF CleanMap, TruthRecord
  <2>4. /\ \A r \in rows : CleanMap(snap, r) \in x.canonical.maps /\ TruthRecord(snap, r) \in x.truth.records
        /\ \A m \in x.canonical.maps : \E r \in rows : m = CleanMap(snap, r)
        /\ \A y \in x.truth.records : \E r \in rows : y = TruthRecord(snap, r)
    BY <1>1, <1>2
  <2>1. {m.ref : m \in x.canonical.maps} = {r.ref : r \in rows}
    BY <2>3, <2>4
  <2>2. {r.ref : r \in x.truth.records} = {r.ref : r \in rows}
    BY <2>3, <2>4
  <2> QED
    BY <2>1, <2>2
<1>9. /\ x.truth.records # {}
      /\ \A r \in x.truth.records : \E m \in MapsOf(x, r) : m.entity = r.entity
      /\ {l.relationship : l \in x.truth.links} \subseteq x.canonical.relationships
  <2>1. x.truth.records # {}
    BY <1>1, <1>3
  <2>2. {l.relationship : l \in x.truth.links} \subseteq x.canonical.relationships
    BY <1>1, <1>2
  <2>3. ASSUME NEW y \in x.truth.records
        PROVE  \E m \in MapsOf(x, y) : m.entity = y.entity
    <3>1. PICK r \in rows : y = TruthRecord(snap, r) /\ MapsOf(x, y) = {CleanMap(snap, r)}
      BY <1>6
    <3> QED
      BY <1>7, <3>1
  <2> QED
    BY <2>1, <2>2, <2>3
<1>10. Verdict(SourceSnapshotUniverse(x)) = "PASS"
  BY <1>5, PassesWhen
<1>11. CanonicalMembership(x) = "PASS"
  BY <1>7, <1>8 DEF CanonicalMembership, VerdictOf
<1>12. CanonicalEntityCounts(x) = "PASS"
  BY <1>1, <1>2 DEF CanonicalEntityCounts, VerdictOf
<1>13. DedupExplainability(x) = "PASS"
  BY <1>1 DEF DedupExplainability, VerdictOf
<1>14. CanonicalEventRelationships(x) = "PASS"
  BY <1>9 DEF CanonicalEventRelationships, VerdictOf
<1> QED
  BY <1>4, <1>10, <1>11, <1>12, <1>13, <1>14

\* The accounts, and the checks of the input to planning and of the semantic
\* model.
LEMMA CleanAccounts ==
  ASSUME NEW rows, CleanTable(rows), NEW snap, NEW x, CleanGate(x, rows, snap)
  PROVE  /\ CompareAccounting(x, "SOURCE_TO_CANONICAL", {r.ref : r \in x.truth.records}) = "PASS"
         /\ CompareAccounting(x, "CANONICAL_TO_ANALYTICAL", {e.entity : e \in x.truth.entities}) = "PASS"
         /\ Verdict(AnalyticalInputBinding(x)) = "PASS"
         /\ Verdict(RelationshipAllocation(x)) = "PASS"
         /\ Verdict(SemanticCrossCheck(x)) = "PASS"
<1>1. /\ x.truth.records = {TruthRecord(snap, r) : r \in rows}
      /\ x.truth.entities = {TruthEntity(r) : r \in rows}
      /\ \A l \in x.truth.links : \E r \in rows :
            l.relationship = Latest("RelationshipDecision").ref /\ l.ref = r.ref /\ l.entity = r.entity
      /\ DOMAIN x.truth.expected["SOURCE_TO_CANONICAL"] = {r.ref : r \in rows}
      /\ DOMAIN x.truth.expected["CANONICAL_TO_ANALYTICAL"] = {r.entity : r \in rows}
  BY TruthParts DEF CleanGate
<1>2. rows # {}
  BY DEF CleanTable
<1>3. {r.ref : r \in x.truth.records} = {r.ref : r \in rows} /\ {r.ref : r \in rows} # {}
  <2>1. \A r \in rows : TruthRecord(snap, r).ref = r.ref /\ TruthRecord(snap, r) \in x.truth.records
    BY <1>1 DEF TruthRecord
  <2>2. \A y \in x.truth.records : \E r \in rows : y = TruthRecord(snap, r)
    BY <1>1
  <2> QED
    BY <1>2, <2>1, <2>2
<1>4. {e.entity : e \in x.truth.entities} = {r.entity : r \in rows} /\ {r.entity : r \in rows} # {}
  <2>1. \A r \in rows : TruthEntity(r).entity = r.entity /\ TruthEntity(r) \in x.truth.entities
    BY <1>1 DEF TruthEntity
  <2>2. \A y \in x.truth.entities : \E r \in rows : y = TruthEntity(r)
    BY <1>1
  <2> QED
    BY <1>2, <2>1, <2>2
<1>5. ASSUME NEW boundary, NEW universe, universe # {}, DOMAIN x.truth.expected[boundary] = universe
      PROVE  CompareAccounting(x, boundary, universe) = "PASS"
  <2>1. x.accounting[boundary] = x.truth.expected[boundary]
    BY DEF CleanGate
  <2> QED
    BY <1>5, <2>1 DEF CompareAccounting, Verdict
<1>6. AnalyticalInputBinding(x)
  BY DEF AnalyticalInputBinding, CleanGate, ArtifactBinding
<1>7. RelationshipAllocation(x)
  BY <1>1 DEF RelationshipAllocation, CleanGate
<1>8. SemanticCrossCheck(x)
  BY DesignParts DEF SemanticCrossCheck, CleanGate
<1>9. /\ Verdict(AnalyticalInputBinding(x)) = "PASS"
      /\ Verdict(RelationshipAllocation(x)) = "PASS"
      /\ Verdict(SemanticCrossCheck(x)) = "PASS"
  BY <1>6, <1>7, <1>8, PassesWhen
<1>10. CompareAccounting(x, "SOURCE_TO_CANONICAL", {r.ref : r \in x.truth.records}) = "PASS"
  BY <1>1, <1>3, <1>5
<1>11. CompareAccounting(x, "CANONICAL_TO_ANALYTICAL", {e.entity : e \in x.truth.entities}) = "PASS"
  BY <1>1, <1>4, <1>5
<1> QED
  BY <1>9, <1>10, <1>11

\* What the target of a clean file holds.
LEMMA CleanHolds ==
  ASSUME NEW rows, CleanTable(rows), NEW snap, NEW x, CleanGate(x, rows, snap)
  PROVE  /\ x.target.ok
         /\ DOMAIN x.target.dims = DOMAIN x.compiled.design.dims
         /\ Facts(x) = {CleanFact(rows, r) : r \in rows}
         /\ Members(x, "dim_order") = {OrderMember(rows, r) : r \in rows}
         /\ Members(x, "dim_date") = {DateMember(t) : t \in Days(rows)}
         /\ x.truth.facts = {Expected(r) : r \in rows}
<1>1. x.target.ok /\ x.target.dims = CleanStar(rows).dims /\ x.target.facts = CleanStar(rows).facts
  BY CleanLoads DEF CleanGate
<1>2. DOMAIN x.compiled.design.dims = {"dim_order", "dim_date"}
  BY DesignParts DEF CleanGate
<1>3. x.truth.facts = {Expected(r) : r \in rows}
  BY TruthExpects DEF CleanGate
<1>4. /\ DOMAIN CleanStar(rows).dims = {"dim_order", "dim_date"}
      /\ CleanStar(rows).dims["dim_order"] = {OrderMember(rows, r) : r \in rows}
      /\ CleanStar(rows).dims["dim_date"] = {DateMember(t) : t \in Days(rows)}
      /\ CleanStar(rows).facts = {CleanFact(rows, r) : r \in rows}
  BY CleanCompiles
<1> QED
  BY <1>1, <1>2, <1>3, <1>4 DEF Facts, Members

ExpectedTells(e, r) ==
    /\ e.grain = [order |-> r.cells.order] /\ e.event = r.entity /\ e.measure = r.cells.qty
    /\ e.dims = [dim_order |-> r.entity] /\ e.date = r.cells.date /\ e.refs = {r.ref}

LEMMA ExpectedParts ==
  ASSUME NEW r
  PROVE  ExpectedTells(Expected(r), r)
BY DEF Expected, ExpectedTells

\* Facts are as many as rows, each with a grain of its own.
LEMMA CleanGrain ==
  ASSUME NEW rows, CleanTable(rows), NEW snap, NEW x, CleanGate(x, rows, snap)
  PROVE  FactCount(x) /\ FactGrain(x) /\ FactDuplicates(x)
<1> DEFINE facts == {CleanFact(rows, r) : r \in rows}
           wanted == {Expected(r) : r \in rows}
           grains == {f.grain : f \in facts}
<1>1. Facts(x) = facts /\ x.truth.facts = wanted
  BY CleanHolds
<1>2. IsFiniteSet(rows) /\ \A r, s \in rows : r.cells.order = s.cells.order => r = s
  BY DEF CleanTable
<1>3. \A r \in rows : /\ CleanFact(rows, r).grain.order = r.cells.order
                      /\ Expected(r).grain.order = r.cells.order
                      /\ CleanFact(rows, r).grain = Expected(r).grain
  <2> SUFFICES ASSUME NEW r \in rows
               PROVE  /\ CleanFact(rows, r).grain.order = r.cells.order
                      /\ Expected(r).grain.order = r.cells.order
                      /\ CleanFact(rows, r).grain = Expected(r).grain
    OBVIOUS
  <2>1. FactTells(CleanFact(rows, r), r) /\ ExpectedTells(Expected(r), r)
    BY CleanFactParts, ExpectedParts
  <2> QED
    BY <2>1 DEF FactTells, ExpectedTells
<1>5. Cardinality(facts) = Cardinality(rows)
  <2> DEFINE J == [r \in rows |-> CleanFact(rows, r)]
  <2>1. \A r, s \in rows : J[r] = J[s] => r = s
    <3> SUFFICES ASSUME NEW r \in rows, NEW s \in rows, J[r] = J[s]
                 PROVE  r.cells.order = s.cells.order
      BY <1>2
    <3> QED
      BY <1>3
  <2>2. facts = {J[r] : r \in rows} /\ DOMAIN J = rows
    OBVIOUS
  <2> HIDE DEF J, facts
  <2> QED
    BY <1>2, <2>1, <2>2, ImageCounts
<1>6. Cardinality(wanted) = Cardinality(rows)
  <2> DEFINE J == [r \in rows |-> Expected(r)]
  <2>1. \A r, s \in rows : J[r] = J[s] => r = s
    <3> SUFFICES ASSUME NEW r \in rows, NEW s \in rows, J[r] = J[s]
                 PROVE  r.cells.order = s.cells.order
      BY <1>2
    <3> QED
      BY <1>3
  <2>2. wanted = {J[r] : r \in rows} /\ DOMAIN J = rows
    OBVIOUS
  <2> HIDE DEF J, wanted
  <2> QED
    BY <1>2, <2>1, <2>2, ImageCounts
<1>7. Cardinality(grains) = Cardinality(rows)
  <2> DEFINE J == [r \in rows |-> CleanFact(rows, r).grain]
  <2>1. \A r, s \in rows : J[r] = J[s] => r = s
    <3> SUFFICES ASSUME NEW r \in rows, NEW s \in rows, J[r] = J[s]
                 PROVE  r.cells.order = s.cells.order
      BY <1>2
    <3> QED
      BY <1>3
  <2>2. grains = {J[r] : r \in rows} /\ DOMAIN J = rows
    OBVIOUS
  <2> HIDE DEF J, grains
  <2> QED
    BY <1>2, <2>1, <2>2, ImageCounts
<1>8. {f.grain : f \in wanted} = grains
  BY <1>3
<1> HIDE DEF facts, wanted, grains
<1>9. {f.grain : f \in Facts(x)} = grains
  BY <1>1 DEF grains
<1>10. {f.grain : f \in x.truth.facts} = grains
  BY <1>1, <1>8
<1>11. FactCount(x)
  BY <1>1, <1>5, <1>6 DEF FactCount
<1>12. FactDuplicates(x)
  BY <1>1, <1>5, <1>7, <1>9 DEF FactDuplicates
<1> QED
  BY <1>9, <1>10, <1>11, <1>12 DEF FactGrain, FactDuplicates

LEMMA CleanValues ==
  ASSUME NEW rows, CleanTable(rows), NEW snap, NEW x, CleanGate(x, rows, snap)
  PROVE  FactBusinessValues(x) /\ ForeignKeyIntegrity(x) /\ DateCoverage(x)
<1> DEFINE d == x.compiled.design
<1>1. /\ Facts(x) = {CleanFact(rows, r) : r \in rows}
      /\ Members(x, "dim_order") = {OrderMember(rows, r) : r \in rows}
      /\ Members(x, "dim_date") = {DateMember(t) : t \in Days(rows)}
      /\ x.truth.facts = {Expected(r) : r \in rows}
  BY CleanHolds
<1>2. d = OrderDesign(rows)
  BY DEF CleanGate
<1>3. /\ DOMAIN d.fks = {1, 2} /\ d.fks[1].dim = "dim_order" /\ d.fks[2].dim = "dim_date"
      /\ DOMAIN d.dims = {"dim_order", "dim_date"} /\ ~IsDate(d, "dim_order")
  BY <1>2, DesignParts, OrderParts DEF OrderKey, DateKey
<1> HIDE DEF d
<1>4. \A r \in rows : /\ OrderMember(rows, r) \in Members(x, "dim_order")
                      /\ OrderMember(rows, r).key = r.ref /\ OrderMember(rows, r).entity = {r.ref}
  BY <1>1, OrderMemberParts
<1>5. \A r \in rows : /\ DateMember(r.cells.date) \in Members(x, "dim_date")
                      /\ DateMember(r.cells.date).key = r.cells.date
                      /\ DateMember(r.cells.date).entity = r.cells.date
  BY <1>1 DEF Days, DateMember
<1>6. \A r \in rows : r.entity = {r.ref}
  BY DEF CleanTable, CleanInputRow
<1>7. FactBusinessValues(x)
  <2>1. ASSUME NEW want \in x.truth.facts
        PROVE  \E row \in Facts(x) :
                  /\ row.grain = want.grain
                  /\ row.event = want.event
                  /\ row.measure = want.measure
                  /\ \A i \in DOMAIN d.fks :
                       d.fks[i].dim \in DOMAIN want.dims =>
                            \E m \in Members(x, d.fks[i].dim) :
                               m.entity = want.dims[d.fks[i].dim] /\ row.keys[i] = m.key
                  /\ want.refs \subseteq row.refs
    <3>1. PICK r \in rows : want = Expected(r)
      BY <1>1
    <3>2. PICK row \in Facts(x) : row = CleanFact(rows, r)
      BY <1>1
    <3>3. FactTells(row, r) /\ ExpectedTells(want, r)
      BY <3>1, <3>2, CleanFactParts, ExpectedParts
    <3>4. /\ row.grain = want.grain /\ row.event = want.event /\ row.measure = want.measure
          /\ want.refs \subseteq row.refs
      BY <1>6, <3>3 DEF FactTells, ExpectedTells
    <3>5. DOMAIN want.dims = {"dim_order"} /\ want.dims["dim_order"] = {r.ref} /\ row.keys[1] = r.ref
      BY <1>6, <3>3 DEF FactTells, ExpectedTells
    <3>6. \E m \in Members(x, "dim_order") : m.entity = want.dims["dim_order"] /\ row.keys[1] = m.key
      BY <1>4, <3>5
    <3>7. \A i \in DOMAIN d.fks :
             d.fks[i].dim \in DOMAIN want.dims =>
                  \E m \in Members(x, d.fks[i].dim) :
                     m.entity = want.dims[d.fks[i].dim] /\ row.keys[i] = m.key
      BY <1>3, <3>5, <3>6
    <3> QED
      BY <3>4, <3>7
  <2> QED
    BY <2>1 DEF FactBusinessValues, d
<1>8. ForeignKeyIntegrity(x)
  <2>1. ASSUME NEW f \in Facts(x), NEW i \in DOMAIN d.fks
        PROVE  f.keys[i] \in {m.key : m \in Members(x, d.fks[i].dim)}
    <3>1. PICK r \in rows : f = CleanFact(rows, r)
      BY <1>1
    <3>2. f.keys[1] = r.ref /\ f.keys[2] = r.cells.date
      BY <3>1, CleanFactParts DEF FactTells
    <3>3. CASE i = 1
      BY <1>3, <1>4, <3>2, <3>3
    <3>4. CASE i = 2
      BY <1>3, <1>5, <3>2, <3>4
    <3> QED
      BY <1>3, <3>3, <3>4
  <2> QED
    BY <2>1 DEF ForeignKeyIntegrity, d
<1>9. DateCoverage(x)
  <2>1. \A e \in x.truth.facts : \E r \in rows : e.date = r.cells.date
    BY <1>1, ExpectedParts DEF ExpectedTells
  <2>2. {f.date : f \in x.truth.facts} \ {Null} \subseteq {m.entity : m \in Members(x, "dim_date")}
    BY <1>5, <2>1
  <2> QED
    BY <1>3, <2>2 DEF DateCoverage, d
<1> QED
  BY <1>7, <1>8, <1>9

\* Each dimension tells its members apart.
LEMMA CleanMembers ==
  ASSUME NEW rows, CleanTable(rows), NEW snap, NEW x, CleanGate(x, rows, snap)
  PROVE  KeyUniqueness(x)
<1> DEFINE d == x.compiled.design
           O == Members(x, "dim_order")
           D == Members(x, "dim_date")
<1>1. O = {OrderMember(rows, r) : r \in rows} /\ D = {DateMember(t) : t \in Days(rows)}
  BY CleanHolds
<1>2. d = OrderDesign(rows)
  BY DEF CleanGate
<1>3. /\ DOMAIN d.dims = {"dim_order", "dim_date"} /\ d.dims["dim_order"].alternate = {"order"}
      /\ d.dims["dim_date"].alternate = {}
  BY <1>2, DesignParts, OrderParts
<1>4. IsFiniteSet(rows) /\ \A r, s \in rows : r.ref = s.ref \/ r.cells.order = s.cells.order => r = s
  BY DEF CleanTable
<1>5. IsFiniteSet(O)
  <2> DEFINE J == [r \in rows |-> OrderMember(rows, r)]
  <2>1. J \in Surjection(rows, O)
    BY <1>1 DEF Surjection
  <2> HIDE DEF J, O
  <2> QED
    BY <1>4, <2>1, FS_Surjection
<1>6. IsFiniteSet(D)
  <2> DEFINE J == [r \in rows |-> DateMember(r.cells.date)]
  <2>1. J \in Surjection(rows, D)
    BY <1>1 DEF Surjection, Days
  <2> HIDE DEF J, D
  <2> QED
    BY <1>4, <2>1, FS_Surjection
<1>7. ASSUME NEW m \in O, NEW n \in O,
             m.key = n.key \/ m.entity = n.entity \/ m.attrs["order"] = n.attrs["order"]
      PROVE  m = n
  <2>1. PICK r \in rows : m = OrderMember(rows, r)
    BY <1>1
  <2>2. PICK s \in rows : n = OrderMember(rows, s)
    BY <1>1
  <2>3. /\ m.key = r.ref /\ m.entity = {r.ref} /\ m.attrs["order"] = r.cells.order
        /\ n.key = s.ref /\ n.entity = {s.ref} /\ n.attrs["order"] = s.cells.order
    BY <2>1, <2>2, OrderMemberParts
  <2>4. r.ref = s.ref \/ r.cells.order = s.cells.order
    BY <1>7, <2>3
  <2> QED
    BY <1>4, <2>1, <2>2, <2>4
<1>8. ASSUME NEW m \in D, NEW n \in D, m.key = n.key \/ m.entity = n.entity
      PROVE  m = n
  <2>1. PICK t : m = DateMember(t)
    BY <1>1
  <2>2. PICK u : n = DateMember(u)
    BY <1>1
  <2>3. t = u
    BY <1>8, <2>1, <2>2 DEF DateMember
  <2> QED
    BY <2>1, <2>2, <2>3
<1> HIDE DEF d, O, D
<1>9. ASSUME NEW T, IsFiniteSet(T), \A m, n \in T : m.key = n.key \/ m.entity = n.entity => m = n
      PROVE  /\ Cardinality({m.key : m \in T}) = Cardinality(T)
             /\ Cardinality({m.entity : m \in T}) = Cardinality(T)
  <2> DEFINE J == [m \in T |-> m.key]
             K == [m \in T |-> m.entity]
  <2>1. (\A m, n \in T : J[m] = J[n] => m = n) /\ (\A m, n \in T : K[m] = K[n] => m = n)
    BY <1>9
  <2>2. /\ {m.key : m \in T} = {J[m] : m \in T} /\ DOMAIN J = T
        /\ {m.entity : m \in T} = {K[m] : m \in T} /\ DOMAIN K = T
    OBVIOUS
  <2> HIDE DEF J, K
  <2>3. Cardinality({J[m] : m \in T}) = Cardinality(T)
    BY <1>9, <2>1, <2>2, ImageCounts
  <2>4. Cardinality({K[m] : m \in T}) = Cardinality(T)
    BY <1>9, <2>1, <2>2, ImageCounts
  <2> QED
    BY <2>2, <2>3, <2>4
<1>10. Cardinality({[a \in {"order"} |-> m.attrs[a]] : m \in O}) = Cardinality(O)
  <2> DEFINE J == [m \in O |-> [a \in {"order"} |-> m.attrs[a]]]
  <2>1. ASSUME NEW m \in O, NEW n \in O, J[m] = J[n]
        PROVE  m = n
    <3>1. J[m]["order"] = m.attrs["order"] /\ J[n]["order"] = n.attrs["order"]
      OBVIOUS
    <3> QED
      BY <1>7, <2>1, <3>1
  <2>2. {[a \in {"order"} |-> m.attrs[a]] : m \in O} = {J[m] : m \in O} /\ DOMAIN J = O
    OBVIOUS
  <2> HIDE DEF J
  <2>3. Cardinality({J[m] : m \in O}) = Cardinality(O)
    BY <1>5, <2>1, <2>2, ImageCounts
  <2> QED
    BY <2>2, <2>3
<1>11. /\ Cardinality({m.key : m \in O}) = Cardinality(O) /\ Cardinality({m.entity : m \in O}) = Cardinality(O)
       /\ Cardinality({m.key : m \in D}) = Cardinality(D) /\ Cardinality({m.entity : m \in D}) = Cardinality(D)
  BY <1>5, <1>6, <1>7, <1>8, <1>9
<1>12. ASSUME NEW dim \in DOMAIN d.dims
       PROVE  /\ Cardinality({m.key : m \in Members(x, dim)}) = Cardinality(Members(x, dim))
              /\ Cardinality({m.entity : m \in Members(x, dim)}) = Cardinality(Members(x, dim))
              /\ Cardinality({[a \in d.dims[dim].alternate |-> m.attrs[a]]
                              : m \in Members(x, dim)}) = Cardinality(Members(x, dim))
                   \/ d.dims[dim].alternate = {}
  <2>1. CASE dim = "dim_order"
    <3>1. d.dims[dim].alternate = {"order"} /\ Members(x, dim) = O
      BY <1>3, <2>1 DEF O
    <3>2. {[a \in d.dims[dim].alternate |-> m.attrs[a]] : m \in Members(x, dim)}
            = {[a \in {"order"} |-> m.attrs[a]] : m \in O}
      BY <3>1
    <3> QED
      BY <1>10, <1>11, <3>1, <3>2
  <2>2. CASE dim = "dim_date"
    BY <1>3, <1>11, <2>2 DEF D
  <2> QED
    BY <1>3, <2>1, <2>2
<1> QED
  BY <1>12 DEF KeyUniqueness, d

\* Rows and facts trace each other.
LEMMA CleanLineage ==
  ASSUME NEW rows, CleanTable(rows), NEW snap, NEW x, CleanGate(x, rows, snap)
  PROVE  /\ Contributing(x) \subseteq TargetLineage(x)
         /\ TargetLineage(x) \subseteq {r.ref : r \in x.truth.records}
<1> DEFINE d == x.compiled.design
<1>1. /\ Facts(x) = {CleanFact(rows, r) : r \in rows}
      /\ Members(x, "dim_order") = {OrderMember(rows, r) : r \in rows}
      /\ Members(x, "dim_date") = {DateMember(t) : t \in Days(rows)}
  BY CleanHolds
<1>2. DOMAIN d.dims = {"dim_order", "dim_date"}
  BY DesignParts DEF CleanGate
<1>3. x.truth.records = {TruthRecord(snap, r) : r \in rows}
  BY TruthParts DEF CleanGate
<1> HIDE DEF d
<1>4. \A r \in rows : /\ TruthRecord(snap, r).ref = r.ref /\ TruthRecord(snap, r) \in x.truth.records
                      /\ CleanFact(rows, r) \in Facts(x)
  BY <1>1, <1>3 DEF TruthRecord
<1>5. \A f \in Facts(x) : \E r \in rows : f = CleanFact(rows, r) /\ f.refs = {r.ref}
  <2> SUFFICES ASSUME NEW f \in Facts(x)
               PROVE  \E r \in rows : f = CleanFact(rows, r) /\ f.refs = {r.ref}
    OBVIOUS
  <2>1. PICK r \in rows : f = CleanFact(rows, r)
    BY <1>1
  <2>2. FactTells(CleanFact(rows, r), r)
    BY CleanFactParts
  <2> QED
    BY <2>1, <2>2 DEF FactTells
<1>6. \A m \in Members(x, "dim_order") : \E r \in rows : m.refs = {r.ref}
  BY <1>1, OrderMemberParts
<1>7. \A m \in Members(x, "dim_date") : m.refs = {}
  BY <1>1 DEF DateMember
<1>8. \A r \in rows : CleanFact(rows, r).refs = {r.ref}
  BY CleanFactParts DEF FactTells
<1>9. TargetLineage(x) = (UNION {f.refs : f \in Facts(x)})
        \cup (UNION {UNION {m.refs : m \in Members(x, dim)} : dim \in DOMAIN d.dims})
  BY DEF TargetLineage, d
<1>10. ASSUME NEW y \in TargetLineage(x)
       PROVE  \E r \in rows : y = r.ref
  <2>1. (\E f \in Facts(x) : y \in f.refs) \/ (\E dim \in DOMAIN d.dims : \E m \in Members(x, dim) : y \in m.refs)
    BY <1>9
  <2> QED
    BY <1>2, <1>5, <1>6, <1>7, <2>1
<1>11. ASSUME NEW r \in rows
       PROVE  r.ref \in TargetLineage(x)
  <2>1. CleanFact(rows, r) \in Facts(x) /\ r.ref \in CleanFact(rows, r).refs
    BY <1>4, <1>8
  <2> QED
    BY <1>9, <2>1
<1>12. ASSUME NEW y \in Contributing(x)
       PROVE  \E r \in rows : y = r.ref
  <2>1. PICK z \in x.truth.records : y = z.ref
    BY DEF Contributing
  <2>2. PICK r \in rows : z = TruthRecord(snap, r)
    BY <1>3
  <2> QED
    BY <1>4, <2>1, <2>2
<1> QED
  BY <1>4, <1>10, <1>11, <1>12

\* The sums of the target are those of the rows.
LEMMA CleanSums ==
  ASSUME NEW rows, CleanTable(rows), NEW snap, NEW x, CleanGate(x, rows, snap)
  PROVE  AggregatesMatch(x, x.truth.aggregates) /\ Slices(x) # {} /\ AggregatesMatch(x, Slices(x))
<1> DEFINE d == x.compiled.design
           J == [r \in rows |-> CleanFact(rows, r)]
           w == Quantities(rows)
           v == [f \in Facts(x) |-> f.measure]
<1>1. /\ Facts(x) = {CleanFact(rows, r) : r \in rows}
      /\ Members(x, "dim_date") = {DateMember(t) : t \in Days(rows)}
  BY CleanHolds
<1>2. /\ DOMAIN d.fks = {1, 2} /\ d.fks[1].dim = "dim_order" /\ d.fks[2].dim = "dim_date"
  BY DesignParts, OrderParts DEF OrderKey, DateKey, CleanGate
<1>3. x.truth.aggregates = {GlobalSum(rows), DailySums(rows)}
  BY TruthParts DEF CleanGate
<1>4. IsFiniteSet(rows) /\ rows # {} /\ \A r, s \in rows : r.ref = s.ref => r = s
  BY DEF CleanTable
<1>5. ASSUME NEW r \in rows
      PROVE  /\ J[r] = CleanFact(rows, r) /\ J[r] \in Facts(x)
             /\ J[r].measure = r.cells.qty /\ J[r].refs = {r.ref} /\ J[r].keys[2] = r.cells.date
             /\ w[r] = r.cells.qty /\ w[r] \in Int /\ w[r] # Null
             /\ v[J[r]] = w[r]
  <2>1. J[r] = CleanFact(rows, r) /\ J[r] \in Facts(x)
    BY <1>1
  <2>2. FactTells(J[r], r)
    BY <2>1, CleanFactParts
  <2>3. w[r] = r.cells.qty
    BY DEF Quantities
  <2>4. r.cells.qty \in Int /\ r.cells.qty # Null
    BY DEF CleanTable, CleanInputRow
  <2>5. J[r].measure = r.cells.qty /\ J[r].refs = {r.ref} /\ J[r].keys[2] = r.cells.date
    BY <2>2 DEF FactTells
  <2> HIDE DEF J
  <2>6. v[J[r]] = J[r].measure
    BY <2>1
  <2> QED
    BY <2>1, <2>3, <2>4, <2>5, <2>6
<1>6. DOMAIN J = rows /\ Facts(x) = {J[r] : r \in rows}
  BY <1>1
<1>7. \A r, s \in rows : J[r] = J[s] => r = s
  <2> SUFFICES ASSUME NEW r \in rows, NEW s \in rows, J[r] = J[s]
               PROVE  r = s
    OBVIOUS
  <2>1. {r.ref} = {s.ref}
    BY <1>5
  <2> QED
    BY <1>4, <2>1
<1> HIDE DEF d, J, w, v
<1>8. \A s \in SUBSET rows : SumFunctionOnSet(w, s) = SumFunctionOnSet(v, {J[r] : r \in s})
  <2>1. DOMAIN J = rows
    BY <1>6
  <2>2. \A r \in rows : w[r] \in Int /\ v[J[r]] = w[r]
    BY <1>5
  <2>3. IsFiniteSet(rows)
    BY <1>4
  <2> QED
    BY <1>7, <2>1, <2>2, <2>3, SumMoved
\* The facts of some rows add up to what the rows add up to.
<1>9. ASSUME NEW s \in SUBSET rows, s # {}, NEW a, NEW key, a.expected[key] = SumFunctionOnSet(Quantities(s), s),
             \A r \in rows : key \in GroupOf(x, J[r], a.by) <=> r \in s
      PROVE  GroupMatches(x, a, key)
  <2> DEFINE some == {f \in Facts(x) : key \in GroupOf(x, f, a.by) /\ f.measure # Null}
             u == [f \in some |-> f.measure]
  <2>1. some = {J[r] : r \in s}
    <3>1. \A r \in rows : J[r].measure # Null
      BY <1>5
    <3> QED
      BY <1>6, <1>9, <3>1
  <2>2. IsFiniteSet(s)
    BY <1>4, FS_Subset
  <2>3. SumFunctionOnSet(Quantities(s), s) = SumFunctionOnSet(w, s)
    <3>1. \A r \in s : Quantities(s)[r] = w[r]
      BY <1>5 DEF Quantities
    <3> QED
      BY <2>2, <3>1, SumSame
  <2>4. IsFiniteSet(some)
    <3> DEFINE K == [r \in s |-> J[r]]
    <3>1. K \in Surjection(s, some)
      BY <2>1 DEF Surjection
    <3> HIDE DEF K, some
    <3> QED
      BY <2>2, <3>1, FS_Surjection
  <2>5. SumFunctionOnSet(u, some) = SumFunctionOnSet(v, some)
    <3>1. \A f \in some : u[f] = v[f]
      BY DEF v
    <3> HIDE DEF u, some
    <3> QED
      BY <2>4, <3>1, SumSame
  <2>6. some # {}
    BY <1>9, <2>1
  <2>7. SumFunctionOnSet(u, some) = a.expected[key]
    BY <1>8, <1>9, <2>1, <2>3, <2>5
  <2> QED
    BY <2>6, <2>7 DEF GroupMatches
<1>10. ASSUME NEW key \in DOMAIN GlobalSum(rows).expected
       PROVE  GroupMatches(x, GlobalSum(rows), key)
  <2>1. /\ GlobalSum(rows).by = "global" /\ key = "global"
        /\ GlobalSum(rows).expected[key] = SumFunctionOnSet(Quantities(rows), rows)
    BY DEF GlobalSum
  <2>2. \A r \in rows : key \in GroupOf(x, J[r], GlobalSum(rows).by) <=> r \in rows
    BY <2>1 DEF GroupOf
  <2> QED
    BY <1>4, <1>9, <2>1, <2>2
<1>11. ASSUME NEW r \in rows
       PROVE  GroupOf(x, J[r], "dim_date") = {r.cells.date}
  <2>1. {j \in DOMAIN d.fks : d.fks[j].dim = "dim_date"} = {2}
    BY <1>2
  <2>2. GroupOf(x, J[r], "dim_date") = {m.entity : m \in {y \in Members(x, "dim_date") : y.key = J[r].keys[2]}}
    BY <2>1 DEF GroupOf, d
  <2>3. \A t : DateMember(t).key = t /\ DateMember(t).entity = t
    BY DEF DateMember
  <2>4. r.cells.date \in Days(rows) /\ J[r].keys[2] = r.cells.date
    BY <1>5 DEF Days
  <2>5. {y \in Members(x, "dim_date") : y.key = r.cells.date} = {DateMember(r.cells.date)}
    BY <1>1, <2>3, <2>4
  <2> QED
    BY <2>2, <2>3, <2>4, <2>5
<1>12. ASSUME NEW key \in DOMAIN DailySums(rows).expected
       PROVE  GroupMatches(x, DailySums(rows), key)
  <2>1. /\ DailySums(rows).by = "dim_date" /\ key \in Days(rows)
        /\ DailySums(rows).expected[key] = SumFunctionOnSet(Quantities(OfDay(rows, key)), OfDay(rows, key))
    BY DEF DailySums
  <2>2. OfDay(rows, key) \in SUBSET rows /\ OfDay(rows, key) # {}
    BY <2>1 DEF OfDay, Days
  <2>3. \A r \in rows : key \in GroupOf(x, J[r], DailySums(rows).by) <=> r \in OfDay(rows, key)
    BY <1>11, <2>1 DEF OfDay
  <2> QED
    BY <1>9, <2>1, <2>2, <2>3
<1>13. AggregatesMatch(x, x.truth.aggregates)
  BY <1>3, <1>10, <1>12 DEF AggregatesMatch
<1>14. DailySums(rows) \in Slices(x) /\ Slices(x) \subseteq x.truth.aggregates
  BY <1>3 DEF Slices, DailySums
<1> QED
  BY <1>13, <1>14 DEF AggregatesMatch

\* So the gate passes.
LEMMA CleanPasses ==
  ASSUME NEW rows, CleanTable(rows), NEW snap, NEW x, CleanGate(x, rows, snap)
  PROVE  Gate(x) = "PASS"
<1>1. /\ Verdict(ArtifactBinding(x)) = "PASS"
      /\ Verdict(SourceSnapshotUniverse(x)) = "PASS"
      /\ CanonicalMembership(x) = "PASS"
      /\ CanonicalEntityCounts(x) = "PASS"
      /\ DedupExplainability(x) = "PASS"
      /\ CanonicalEventRelationships(x) = "PASS"
  BY CleanMappings
<1>2. /\ CompareAccounting(x, "SOURCE_TO_CANONICAL", {r.ref : r \in x.truth.records}) = "PASS"
      /\ CompareAccounting(x, "CANONICAL_TO_ANALYTICAL", {e.entity : e \in x.truth.entities}) = "PASS"
      /\ Verdict(AnalyticalInputBinding(x)) = "PASS"
      /\ Verdict(RelationshipAllocation(x)) = "PASS"
      /\ Verdict(SemanticCrossCheck(x)) = "PASS"
  BY CleanAccounts
<1>3. x.target.ok /\ DOMAIN x.target.dims = DOMAIN x.compiled.design.dims
  BY CleanHolds
<1>4. FactCount(x) /\ FactGrain(x) /\ FactDuplicates(x)
  BY CleanGrain
<1>5. FactBusinessValues(x) /\ ForeignKeyIntegrity(x) /\ DateCoverage(x)
  BY CleanValues
<1>6. KeyUniqueness(x)
  BY CleanMembers
<1>7. Contributing(x) \subseteq TargetLineage(x) /\ TargetLineage(x) \subseteq {r.ref : r \in x.truth.records}
  BY CleanLineage
<1>8. AggregatesMatch(x, x.truth.aggregates) /\ Slices(x) # {} /\ AggregatesMatch(x, Slices(x))
  BY CleanSums
<1> DEFINE named == DOMAIN x.target.dims = DOMAIN x.compiled.design.dims
           forth == Contributing(x) \subseteq TargetLineage(x)
           back == TargetLineage(x) \subseteq {r.ref : r \in x.truth.records}
           sliced == Slices(x) # {}
<1>9. \A c \in TargetChecks : TargetCheck(x, c) = "PASS"
  <2>1. named /\ forth /\ back /\ sliced
    BY <1>3, <1>7, <1>8
  <2>2. /\ Verdict(named) = "PASS" /\ Verdict(forth) = "PASS" /\ Verdict(back) = "PASS"
        /\ Verdict(FactCount(x)) = "PASS" /\ Verdict(FactGrain(x)) = "PASS" /\ Verdict(FactDuplicates(x)) = "PASS"
        /\ Verdict(FactBusinessValues(x)) = "PASS" /\ Verdict(ForeignKeyIntegrity(x)) = "PASS"
        /\ Verdict(DateCoverage(x)) = "PASS" /\ Verdict(KeyUniqueness(x)) = "PASS"
        /\ Verdict(AggregatesMatch(x, x.truth.aggregates)) = "PASS"
        /\ VerdictOf(sliced /\ AggregatesMatch(x, Slices(x)), sliced) = "PASS"
    BY <1>4, <1>5, <1>6, <1>8, <2>1 DEF Verdict, VerdictOf
  <2> HIDE DEF named, forth, back, sliced
  <2>3. \A c : TargetCheck(x, c) =
           CASE c = "target_table_set" -> Verdict(named)
             [] c = "fact_count" -> Verdict(FactCount(x))
             [] c = "fact_grain" -> Verdict(FactGrain(x))
             [] c = "fact_duplicates" -> Verdict(FactDuplicates(x))
             [] c = "fact_business_values" -> Verdict(FactBusinessValues(x))
             [] c = "foreign_key_integrity" -> Verdict(ForeignKeyIntegrity(x))
             [] c = "key_uniqueness" -> Verdict(KeyUniqueness(x))
             [] c = "date_coverage" -> Verdict(DateCoverage(x))
             [] c = "quantity_global" -> Verdict(AggregatesMatch(x, x.truth.aggregates))
             [] c = "quantity_slices" -> VerdictOf(sliced /\ AggregatesMatch(x, Slices(x)), sliced)
             [] c = "lineage_source_to_target" -> Verdict(forth)
             [] c = "lineage_target_to_source" -> Verdict(back)
    BY <1>3 DEF TargetCheck, named, forth, back, sliced
  <2> QED
    BY <2>2, <2>3 DEF TargetChecks
<1>10. \A s \in Statuses(x) : s = "PASS"
  BY <1>1, <1>2, <1>9 DEF Statuses
<1> QED
  BY <1>10 DEF Gate

-----------------------------------------------------------------------------
(* The artifacts of a run of a clean file c.                                *)

CleanFile(c) == c \in Contents \cup Faulty /\ Clean(c)

RefOf(kind, c) == <<kind, c, 1>>
CleanHypothesis(c) ==
    [kind |-> [order |-> "EVENT"], family |-> [order |-> "order_event"],
     required |-> [order_event |-> FALSE], specs |-> <<>>,
     relationships |-> {RefOf("RelationshipDecision", c)}]
CleanMember(r) ==
    [type |-> "order", family |-> "order_event", refs |-> {r.ref}, basis |-> "SOURCE_LOCAL", edges |-> {}]
CleanGroups(c) == {CleanMember(r) : r \in c}
CleanProposal(c) == Identity!Proposal(CleanHypothesis(c), SetToSeq(CleanGroups(c)), <<>>)
CleanMetadata(c) == [x \in {r.ref : r \in c} |-> c]
CleanFinal(c) == Identity!Finalized(CleanHypothesis(c), CleanProposal(c), CleanMetadata(c))

\* A finite set as a sequence lists each element once.
LEMMA SetListed ==
  ASSUME NEW S, IsFiniteSet(S), NEW s, s = SetToSeq(S)
  PROVE  /\ DOMAIN s = 1 .. Cardinality(S) /\ \A i \in DOMAIN s : s[i] \in S
         /\ \A i, j \in DOMAIN s : s[i] = s[j] => i = j
         /\ \A x \in S : \E i \in DOMAIN s : s[i] = x
<1> DEFINE N == 1 .. Cardinality(S)
<1>1. Cardinality(S) \in Nat /\ ExistsBijection(N, S)
  BY FS_CardinalityType
<1>2. \E f \in [N -> S] : IsInjective(f)
  BY <1>1 DEF ExistsBijection, Bijection, Injection
<1>3. s = CHOOSE f \in [N -> S] : IsInjective(f)
  BY DEF SetToSeq
<1> HIDE DEF N
<1>4. s \in [N -> S] /\ IsInjective(s)
  BY <1>2, <1>3, Zenon
<1>5. s \in Injection(N, S)
  BY <1>4 DEF Injection
<1>6. IsFiniteSet(N) /\ Cardinality(N) = Cardinality(S)
  <2>1. 1 \in Int /\ Cardinality(S) \in Int
    BY <1>1
  <2>2. IsFiniteSet(N) /\ Cardinality(N) = IF 1 > Cardinality(S) THEN 0 ELSE Cardinality(S) - 1 + 1
    BY <2>1, FS_Interval DEF N
  <2> QED
    BY <1>1, <2>2
<1>7. s \in Surjection(N, S)
  BY <1>5, <1>6, FS_Injection
<1>8. \A x \in S : \E i \in N : s[i] = x
  BY <1>7 DEF Surjection
<1> QED
  BY <1>4, <1>8 DEF IsInjective, N

LEMMA CleanGroupsListed ==
  ASSUME NEW c, CleanFile(c), NEW s, s = SetToSeq(CleanGroups(c))
  PROVE  /\ DOMAIN s # {}
         /\ \A i \in DOMAIN s : \E r \in c : s[i] = CleanMember(r)
         /\ \A r \in c : \E i \in DOMAIN s : s[i] = CleanMember(r)
         /\ \A i, j \in DOMAIN s : s[i].refs \cap s[j].refs # {} => i = j
<1>1. IsFiniteSet(c) /\ c # {}
  BY ContentsAssumption DEF CleanFile, Clean
<1>2. IsFiniteSet(CleanGroups(c))
  <2> DEFINE J == [r \in c |-> CleanMember(r)]
  <2>1. J \in Surjection(c, CleanGroups(c))
    BY DEF Surjection, CleanGroups
  <2> HIDE DEF J
  <2> QED
    BY <1>1, <2>1, FS_Surjection
<1>3. /\ \A i \in DOMAIN s : s[i] \in CleanGroups(c)
      /\ \A i, j \in DOMAIN s : s[i] = s[j] => i = j
      /\ \A x \in CleanGroups(c) : \E i \in DOMAIN s : s[i] = x
  BY <1>2, SetListed
<1>4. \A i \in DOMAIN s : \E r \in c : s[i] = CleanMember(r)
  BY <1>3 DEF CleanGroups
<1>5. \A r \in c : \E i \in DOMAIN s : s[i] = CleanMember(r)
  BY <1>3 DEF CleanGroups
<1>6. ASSUME NEW i \in DOMAIN s, NEW j \in DOMAIN s, s[i].refs \cap s[j].refs # {}
      PROVE  i = j
  <2>1. PICK r \in c : s[i] = CleanMember(r)
    BY <1>4
  <2>2. PICK t \in c : s[j] = CleanMember(t)
    BY <1>4
  <2>3. s[i].refs = {r.ref} /\ s[j].refs = {t.ref}
    BY <2>1, <2>2 DEF CleanMember
  <2>4. r.ref = t.ref
    BY <1>6, <2>3
  <2>5. s[i] = s[j]
    BY <2>1, <2>2, <2>4 DEF CleanMember
  <2> QED
    BY <1>3, <2>5
<1>7. DOMAIN s # {}
  BY <1>1, <1>5
<1> QED
  BY <1>4, <1>5, <1>6, <1>7

LEMMA CleanHypothesisParts ==
  ASSUME NEW c, NEW h, h = CleanHypothesis(c)
  PROVE  /\ h.kind["order"] = "EVENT" /\ "order" \in DOMAIN h.family /\ h.family["order"] = "order_event"
         /\ h.required["order_event"] = FALSE /\ Identity!RequiredFamilies(h) = {}
         /\ h.relationships = {RefOf("RelationshipDecision", c)}
<1>1. h.required = [order_event |-> FALSE]
  BY DEF CleanHypothesis
<1>2. Identity!RequiredFamilies(h) = {}
  BY <1>1 DEF Identity!RequiredFamilies
<1> QED
  BY <1>1, <1>2 DEF CleanHypothesis

LEMMA CleanMemberParts ==
  ASSUME NEW r
  PROVE  /\ CleanMember(r).type = "order" /\ CleanMember(r).refs = {r.ref}
         /\ CleanMember(r).basis = "SOURCE_LOCAL" /\ CleanMember(r).family = "order_event"
BY DEF CleanMember

LEMMA CleanProposalBuilds ==
  ASSUME NEW c, CleanFile(c)
  PROVE  Identity!ProposalBuilds(CleanHypothesis(c), SetToSeq(CleanGroups(c)), <<>>)
<1> DEFINE h == CleanHypothesis(c)
           s == SetToSeq(CleanGroups(c))
<1>1. /\ DOMAIN s # {}
      /\ \A i \in DOMAIN s : \E r \in c : s[i] = CleanMember(r)
      /\ \A i, j \in DOMAIN s : s[i].refs \cap s[j].refs # {} => i = j
  BY CleanGroupsListed
<1>2. /\ h.kind["order"] = "EVENT" /\ "order" \in DOMAIN h.family /\ h.family["order"] = "order_event"
      /\ h.required["order_event"] = FALSE /\ Identity!RequiredFamilies(h) = {}
  BY CleanHypothesisParts
<1> HIDE DEF h, s
<1>3. \A i \in DOMAIN s : s[i].type = "order" /\ s[i].basis = "SOURCE_LOCAL" /\ s[i].family = "order_event"
  BY <1>1, CleanMemberParts
<1>4. \A i \in DOMAIN s : Identity!MembershipAllowed(h, s[i], <<>>)
  BY <1>2, <1>3 DEF Identity!MembershipAllowed, Identity!FamilyOf, Identity!NoFamily, Identity!Requires
<1>5. s # <<>>
  BY <1>1
<1> QED
  BY <1>1, <1>2, <1>3, <1>4, <1>5 DEF Identity!ProposalBuilds, h, s

\* The memberships of the proposal of a clean file.
LEMMA CleanMemberships ==
  ASSUME NEW c, CleanFile(c), NEW p, p = CleanProposal(c)
  PROVE  /\ p.hypothesis = CleanHypothesis(c)
         /\ DOMAIN p.er = {}
         /\ \A i \in DOMAIN p.memberships : \E r \in c : p.memberships[i] = CleanMember(r)
         /\ \A r \in c : \E i \in DOMAIN p.memberships : p.memberships[i] = CleanMember(r)
<1>1. p.memberships = SetToSeq(CleanGroups(c)) /\ p.hypothesis = CleanHypothesis(c)
  BY DEF CleanProposal, Identity!Proposal
<1>2. Identity!RequiredFamilies(CleanHypothesis(c)) = {}
  BY CleanHypothesisParts
<1>3. DOMAIN p.er = {}
  BY <1>2 DEF CleanProposal, Identity!Proposal
<1> QED
  BY <1>1, <1>3, CleanGroupsListed

LEMMA CleanFinalizes ==
  ASSUME NEW c, CleanFile(c), NEW review,
         Identity!Compatible(review, "IDENTITY", <<CleanProposal(c), <<>>>>)
  PROVE  Identity!FinalizeAllowed(CleanHypothesis(c), CleanProposal(c), review, <<>>, CleanMetadata(c))
<1> DEFINE h == CleanHypothesis(c)
           p == CleanProposal(c)
<1>1. /\ p.hypothesis = h /\ DOMAIN p.er = {}
      /\ \A i \in DOMAIN p.memberships : \E r \in c : p.memberships[i] = CleanMember(r)
  BY CleanMemberships
<1>2. /\ h.family["order"] = "order_event" /\ h.required["order_event"] = FALSE
      /\ Identity!RequiredFamilies(h) = {}
  BY CleanHypothesisParts
<1>3. DOMAIN CleanMetadata(c) = {r.ref : r \in c}
  BY DEF CleanMetadata
<1> HIDE DEF h, p
<1>4. ASSUME NEW i \in DOMAIN p.memberships
      PROVE  /\ Identity!StillAllowed(h, p.memberships[i], <<>>)
             /\ p.memberships[i].refs \subseteq DOMAIN CleanMetadata(c)
  <2>1. PICK r \in c : p.memberships[i] = CleanMember(r)
    BY <1>1
  <2>2. /\ p.memberships[i].type = "order" /\ p.memberships[i].refs = {r.ref}
        /\ p.memberships[i].basis = "SOURCE_LOCAL" /\ p.memberships[i].family = "order_event"
    BY <2>1, CleanMemberParts
  <2>3. Identity!StillAllowed(h, p.memberships[i], <<>>)
    BY <1>2, <2>2 DEF Identity!StillAllowed, Identity!FamilyOf, Identity!NoFamily, Identity!Requires
  <2> QED
    BY <1>3, <2>2, <2>3
<1>5. Identity!Compatible(review, "IDENTITY", <<p, <<>>>>)
  BY DEF p
<1> QED
  BY <1>1, <1>2, <1>4, <1>5 DEF Identity!FinalizeAllowed, h, p

\* The rows planning makes of a clean file.
CleanRow(r) ==
    [ref |-> r.ref, entity |-> {r.ref},
     cells |-> [order |-> r.order, date |-> r.date, qty |-> r.qty, cust |-> r.cust,
                canonical_entity_id |-> {r.ref}]]
CleanRows(c) == {CleanRow(r) : r \in c}

LEMMA CleanRowParts ==
  ASSUME NEW r
  PROVE  /\ CleanRow(r).ref = r.ref /\ CleanRow(r).entity = {r.ref}
         /\ CleanRow(r).cells.order = r.order /\ CleanRow(r).cells.date = r.date
         /\ CleanRow(r).cells.qty = r.qty /\ CleanRow(r).cells.cust = r.cust
         /\ CleanRow(r).cells.canonical_entity_id = {r.ref}
BY DEF CleanRow

LEMMA CleanRowsTable ==
  ASSUME NEW c, CleanFile(c)
  PROVE  CleanTable(CleanRows(c))
<1>1. /\ IsFiniteSet(c) /\ c # {} /\ IdentityCandidate(c)
      /\ \A r, s \in c : r.ref = s.ref => r = s
  BY ContentsAssumption DEF CleanFile, Clean
<1>2. \A r, s \in c : r.order = s.order => r = s
  <2> DEFINE f == [r \in c |-> r.order]
  <2>1. {f[r] : r \in c} = {r.order : r \in c}
    OBVIOUS
  <2>2. Cardinality({f[r] : r \in c}) = Cardinality(c)
    BY <1>1, <2>1 DEF IdentityCandidate
  <2>3. \A r \in c : f[r] = r.order
    OBVIOUS
  <2>4. DOMAIN f = c
    OBVIOUS
  <2> HIDE DEF f
  <2>5. \A r, s \in c : f[r] = f[s] => r = s
    BY <1>1, <2>2, <2>4, CountsImage
  <2> QED
    BY <2>3, <2>5
<1>3. IsFiniteSet(CleanRows(c))
  <2> DEFINE J == [r \in c |-> CleanRow(r)]
  <2>1. J \in Surjection(c, CleanRows(c))
    BY DEF Surjection, CleanRows
  <2> HIDE DEF J
  <2> QED
    BY <1>1, <2>1, FS_Surjection
<1>4. \A x \in CleanRows(c) : \E r \in c : x = CleanRow(r)
  BY DEF CleanRows
<1>5. CleanRows(c) # {}
  BY <1>1 DEF CleanRows
<1>6. \A x, y \in CleanRows(c) : x.ref = y.ref \/ x.cells.order = y.cells.order => x = y
  BY <1>1, <1>2, <1>4, CleanRowParts
<1>7. ASSUME NEW r \in c
      PROVE  CleanInputRow(CleanRow(r))
  <2>1. /\ r.qty \in Int \cup {Null, Bad}
        /\ NoKey \notin {r.ref, r.date} /\ {r.ref} # Null
    BY ContentsAssumption DEF CleanFile
  <2>2. {r.order, r.date, r.qty, r.cust} \cap {Null, Bad} = {} /\ Stored(r.qty) = r.qty
    BY DEF CleanFile, Clean
  <2> QED
    BY <2>1, <2>2, CleanRowParts DEF CleanInputRow
<1> QED
  BY <1>3, <1>4, <1>5, <1>6, <1>7 DEF CleanTable

LEMMA CleanModelParts ==
  ASSUME NEW c, CleanFile(c), NEW final, final = CleanFinal(c)
  PROVE  /\ final.relationships = {RefOf("RelationshipDecision", c)}
         /\ final.instances = {TruthEntity(r) : r \in CleanRows(c)}
         /\ final.maps = {CleanMap(c, r) : r \in CleanRows(c)}
<1> DEFINE h == CleanHypothesis(c)
           p == CleanProposal(c)
           groups == Identity!ToSet(p.memberships)
           Entity(m) == [entity |-> Identity!EntityOf(m), refs |-> m.refs]
           Map(m, x) == [ref |-> x, snap |-> CleanMetadata(c)[x], entity |-> Identity!EntityOf(m),
                         disposition |-> Identity!Disposition(h, m)]
<1>1. /\ \A i \in DOMAIN p.memberships : \E r \in c : p.memberships[i] = CleanMember(r)
      /\ \A r \in c : \E i \in DOMAIN p.memberships : p.memberships[i] = CleanMember(r)
  BY CleanMemberships
<1>2. h.kind["order"] = "EVENT" /\ h.relationships = {RefOf("RelationshipDecision", c)}
  BY CleanHypothesisParts
<1>3. /\ final.relationships = h.relationships
      /\ final.instances = {Entity(m) : m \in groups}
      /\ final.maps = UNION {{Map(m, x) : x \in m.refs} : m \in groups}
  BY DEF CleanFinal, Identity!Finalized, Identity!ToSet
<1>4. groups = {CleanMember(r) : r \in c}
  BY <1>1 DEF Identity!ToSet
<1>5. ASSUME NEW r \in c
      PROVE  /\ CleanMember(r).refs = {r.ref}
             /\ Entity(CleanMember(r)) = TruthEntity(CleanRow(r))
             /\ Map(CleanMember(r), r.ref) = CleanMap(c, CleanRow(r))
  <2>1. CleanMember(r).refs = {r.ref} /\ CleanMember(r).type = "order"
    BY CleanMemberParts
  <2>2. CleanMetadata(c)[r.ref] = c
    BY DEF CleanMetadata
  <2>3. Identity!Disposition(h, CleanMember(r)) = "EMITTED_DIRECT"
    BY <1>2, <2>1 DEF Identity!Disposition
  <2>4. Identity!EntityOf(CleanMember(r)) = {r.ref}
    BY <2>1 DEF Identity!EntityOf
  <2>5. CleanRow(r).ref = r.ref /\ CleanRow(r).entity = {r.ref}
    BY CleanRowParts
  <2> QED
    BY <2>1, <2>2, <2>3, <2>4, <2>5 DEF TruthEntity, CleanMap
<1> HIDE DEF h, p, groups, Entity, Map
<1>6. {Entity(m) : m \in groups} = {TruthEntity(r) : r \in CleanRows(c)}
  BY <1>4, <1>5 DEF CleanRows
<1>7. UNION {{Map(m, x) : x \in m.refs} : m \in groups} = {CleanMap(c, r) : r \in CleanRows(c)}
  <2>1. \A m \in groups : \A x \in m.refs : Map(m, x) \in {CleanMap(c, r) : r \in CleanRows(c)}
    BY <1>4, <1>5 DEF CleanRows
  <2>2. \A r \in c : CleanMap(c, CleanRow(r)) \in UNION {{Map(m, x) : x \in m.refs} : m \in groups}
    <3> SUFFICES ASSUME NEW r \in c
                 PROVE  CleanMap(c, CleanRow(r)) \in UNION {{Map(m, x) : x \in m.refs} : m \in groups}
      OBVIOUS
    <3>1. CleanMember(r) \in groups
      BY <1>4
    <3>2. CleanMap(c, CleanRow(r)) \in {Map(CleanMember(r), x) : x \in CleanMember(r).refs}
      BY <1>5
    <3> QED
      BY <3>1, <3>2
  <2> QED
    BY <2>1, <2>2 DEF CleanRows
<1> QED
  BY <1>2, <1>3, <1>6, <1>7

-----------------------------------------------------------------------------
(* The artifacts of such a run, when no stage is repeated: one of each      *)
(* kind, published by its stage.                                            *)

MadeAt(k) ==
    IF k = "SourceCatalog" THEN 1
    ELSE IF k = "SourceSnapshotResult" THEN 2
    ELSE IF k = "ProfileResult" THEN 3
    ELSE IF k = "DependencyResult" THEN 4
    ELSE IF k = "QualityResult" THEN 5
    ELSE IF k \in {"DomainAssertion", "EvidenceFusionResult", "RelationshipDecision"} THEN 6
    ELSE IF k = "CanonicalModelHypothesis" THEN 8
    ELSE IF k = "CanonicalIdentityProposal" THEN 9
    ELSE IF k = "CanonicalModel" THEN 11
    ELSE IF k \in {"AnalyticalInputDataset", "AnalyticalInputBinding", "AnalyticalPlan", "Specs"} THEN 12
    ELSE IF k \in {"CompiledPlan", "GeneratedSQL"} THEN 14
    ELSE IF k = "MaterializationArtifact" THEN 16
    ELSE IF k \in {"SemanticModel", "SemanticValidationResult"} THEN 17
    ELSE 18

\* The kinds other artifacts or reviews refer to.
Referred == {"RelationshipDecision", "CanonicalModel", "AnalyticalInputDataset",
             "AnalyticalInputBinding", "AnalyticalPlan", "CompiledPlan", "GeneratedSQL",
             "MaterializationArtifact", "SemanticModel"}

CleanModel(c, v) ==
    /\ v.relationships = {RefOf("RelationshipDecision", c)}
    /\ v.instances = {TruthEntity(r) : r \in CleanRows(c)}
    /\ v.maps = {CleanMap(c, r) : r \in CleanRows(c)}
CleanTarget(c) == Target(CleanRows(c), OrderTables(CleanRows(c)))
CleanDesign(c) == OrderDesign(CleanRows(c))

CleanSays(c, k, v) ==
    /\ k \in Referred => v.ref = RefOf(k, c)
    /\ k = "SourceSnapshotResult" => v.snap = c /\ v.rows = c
    /\ k = "DependencyResult" => v.found
    /\ k = "CanonicalModelHypothesis" => v.h = CleanHypothesis(c)
    /\ k = "CanonicalIdentityProposal" => v.p = CleanProposal(c)
    /\ k = "CanonicalModel" => CleanModel(c, v)
    /\ k = "AnalyticalInputDataset" =>
          v.rows = CleanRows(c) /\ v.canonical = RefOf("CanonicalModel", c)
    /\ k = "AnalyticalInputBinding" =>
          v.canonical = RefOf("CanonicalModel", c) /\ v.dataset = RefOf("AnalyticalInputDataset", c)
    /\ k = "AnalyticalPlan" =>
          /\ v.snap = c /\ v.canonical = RefOf("CanonicalModel", c)
          /\ v.binding = RefOf("AnalyticalInputBinding", c) /\ v.design = CleanDesign(c)
    /\ k = "Specs" => v.design = CleanDesign(c)
    /\ k = "CompiledPlan" =>
          /\ v.snap = c /\ v.plan = RefOf("AnalyticalPlan", c)
          /\ v.binding = RefOf("AnalyticalInputBinding", c)
          /\ v.canonical = RefOf("CanonicalModel", c)
          /\ v.design = CleanDesign(c) /\ v.sql = RefOf("GeneratedSQL", c)
    /\ k = "MaterializationArtifact" =>
          v.ok /\ v.file = CleanTarget(c) /\ v.compiled = RefOf("CompiledPlan", c)
    /\ k = "SemanticModel" =>
          /\ v.plan = RefOf("AnalyticalPlan", c) /\ v.compiled = RefOf("CompiledPlan", c)
          /\ v.mat = RefOf("MaterializationArtifact", c) /\ v.measure = "qty"
    /\ k = "SemanticValidationResult" =>
          v.model = RefOf("SemanticModel", c) /\ v.status = "PASS"

CleanArts(c, arts, n) ==
    \A k \in Kinds :
        /\ n <= MadeAt(k) => arts[k] = <<>>
        /\ n > MadeAt(k) => arts[k] = <<arts[k][1]>> /\ CleanSays(c, k, arts[k][1])

CleanOutputs(c, n, outputs) ==
    /\ \E m \in 0 .. 4 : DOMAIN outputs = 1 .. m
    /\ \A i \in DOMAIN outputs :
          /\ outputs[i].kind \in Kinds /\ MadeAt(outputs[i].kind) = n
          /\ CleanSays(c, outputs[i].kind, outputs[i].value)
    /\ \A k \in Kinds : MadeAt(k) = n => \E i \in DOMAIN outputs : outputs[i].kind = k

LEMMA LatestClean ==
  ASSUME NEW c, NEW n \in 1 .. 18, CleanArts(c, art, n), NEW k \in Kinds, n > MadeAt(k)
  PROVE  CleanSays(c, k, Latest(k)) /\ All(k) = {Latest(k)}
<1>1. PICK v : v = art[k][1]
  OBVIOUS
<1>2. art[k] = <<v>> /\ CleanSays(c, k, v)
  BY <1>1 DEF CleanArts
<1>3. Len(<<v>>) = 1 /\ <<v>>[1] = v /\ DOMAIN <<v>> = {1}
  OBVIOUS
<1>4. Latest(k) = v
  BY <1>2, <1>3 DEF Latest, Last
<1>5. All(k) = {v}
  BY <1>2, <1>3 DEF All, ToSet
<1> QED
  BY <1>2, <1>4, <1>5

\* What a stage publishes is taken, and is the first of its kind.
LEMMA CleanPublish ==
  ASSUME NEW c, NEW n \in 1 .. 18, CleanArts(c, art, n), NEW outputs, CleanOutputs(c, n, outputs),
         NEW first, NEW accepted, accepted = Accepted(art, outputs),
         NEW new, new = PublishAll(art, outputs, Cardinality(accepted), first)
  PROVE  accepted = DOMAIN outputs /\ CleanArts(c, new, n + 1)
<1>1. PICK m \in 0 .. 4 : DOMAIN outputs = 1 .. m
  BY DEF CleanOutputs
<1>2. \A i \in DOMAIN outputs : art[outputs[i].kind] = <<>>
  BY DEF CleanOutputs, CleanArts
<1>3. ToSet(<<>>) = {}
  BY DEF ToSet
<1>4. \A i \in DOMAIN outputs : ~Taken(art, outputs[i])
  BY <1>2, <1>3 DEF Taken
<1>5. accepted = DOMAIN outputs
  BY <1>4 DEF Accepted
<1>6. Cardinality(accepted) = m
  BY <1>1, <1>5, AcceptedCount
<1>7. ASSUME NEW k \in Kinds
      PROVE  /\ n + 1 <= MadeAt(k) => new[k] = <<>>
             /\ n + 1 > MadeAt(k) => new[k] = <<new[k][1]>> /\ CleanSays(c, k, new[k][1])
  <2> DEFINE mine == {i \in 1 .. m : outputs[i].kind = k}
             j == CHOOSE i \in mine : TRUE
  <2>1. new[k] = IF mine = {} THEN art[k] ELSE Publish(art[k], outputs[j].value, first)
    BY <1>6 DEF PublishAll
  <2>2. MadeAt(k) \in 1 .. 18
    BY DEF MadeAt
  <2>3. CASE MadeAt(k) # n
    <3>1. mine = {}
      BY <1>1, <2>3 DEF CleanOutputs
    <3>2. new[k] = art[k]
      BY <2>1, <3>1
    <3>3. /\ n <= MadeAt(k) => art[k] = <<>>
          /\ n > MadeAt(k) => art[k] = <<art[k][1]>> /\ CleanSays(c, k, art[k][1])
      BY DEF CleanArts
    <3> HIDE DEF mine, j
    <3> QED
      BY <2>2, <2>3, <3>2, <3>3
  <2>4. CASE MadeAt(k) = n
    <3>1. mine # {}
      BY <1>1, <2>4 DEF CleanOutputs
    <3>2. j \in mine
      BY <3>1
    <3>3. art[k] = <<>>
      BY <2>4 DEF CleanArts
    <3>4. PICK v : v = outputs[j].value
      OBVIOUS
    <3>5. new[k] = Publish(art[k], v, first)
      BY <2>1, <3>1, <3>4
    <3>6. CleanSays(c, k, v)
      BY <1>1, <3>2, <3>4 DEF CleanOutputs
    <3> HIDE DEF mine, j
    <3>7. v \notin ToSet(art[k])
      BY <1>3, <3>3
    <3>8. <<v>> \o <<>> = <<v>> /\ Append(<<>>, v) = <<v>>
      OBVIOUS
    <3>9. new[k] = <<v>>
      BY <3>3, <3>5, <3>7, <3>8 DEF Publish
    <3>10. new[k][1] = v
      BY <3>9
    <3> QED
      BY <2>4, <3>6, <3>9, <3>10
  <2> QED
    BY <2>3, <2>4
<1> QED
  BY <1>5, <1>7 DEF CleanArts

LEMMA CleanOut ==
  ASSUME NEW kind, NEW id, NEW fields, attempt = 1, "ref" \notin DOMAIN fields,
         NEW out, out = Out(kind, id, fields)
  PROVE  /\ out.kind = kind /\ out.value.ref = RefOf(kind, id)
         /\ \A f \in DOMAIN fields : out.value[f] = fields[f]
<1>1. out.kind = kind
  BY OutKind
<1>2. out.value = [f \in DOMAIN fields \cup {"ref"} |->
                     IF f = "ref" THEN <<kind, id, 1>> ELSE fields[f]]
  BY DEF Out
<1>3. out.value["ref"] = <<kind, id, 1>>
  BY <1>2
<1>4. \A f \in DOMAIN fields : out.value[f] = fields[f]
  BY <1>2
<1> QED
  BY <1>1, <1>3, <1>4 DEF RefOf

\* An output that says what it should.
CleanOutput(c, o) == o.kind \in Kinds /\ CleanSays(c, o.kind, o.value)

LEMMA OutputsOne ==
  ASSUME NEW c, NEW n, NEW a, CleanOutput(c, a), MadeAt(a.kind) = n,
         \A k \in Kinds : MadeAt(k) = n => k = a.kind
  PROVE  CleanOutputs(c, n, <<a>>)
<1>1. DOMAIN <<a>> = 1 .. 1 /\ <<a>>[1] = a
  OBVIOUS
<1>2. \A i \in 1 .. 1 : i = 1
  OBVIOUS
<1> QED
  BY <1>1, <1>2 DEF CleanOutputs, CleanOutput

LEMMA OutputsTwo ==
  ASSUME NEW c, NEW n, NEW a, CleanOutput(c, a), MadeAt(a.kind) = n,
         NEW b, CleanOutput(c, b), MadeAt(b.kind) = n,
         \A k \in Kinds : MadeAt(k) = n => k \in {a.kind, b.kind}
  PROVE  CleanOutputs(c, n, <<a, b>>)
<1>1. DOMAIN <<a, b>> = 1 .. 2 /\ <<a, b>>[1] = a /\ <<a, b>>[2] = b
  OBVIOUS
<1>2. \A i \in 1 .. 2 : i = 1 \/ i = 2
  OBVIOUS
<1> QED
  BY <1>1, <1>2 DEF CleanOutputs, CleanOutput

LEMMA OutputsThree ==
  ASSUME NEW c, NEW n, NEW a, CleanOutput(c, a), MadeAt(a.kind) = n,
         NEW b, CleanOutput(c, b), MadeAt(b.kind) = n,
         NEW d, CleanOutput(c, d), MadeAt(d.kind) = n,
         \A k \in Kinds : MadeAt(k) = n => k \in {a.kind, b.kind, d.kind}
  PROVE  CleanOutputs(c, n, <<a, b, d>>)
<1>1. DOMAIN <<a, b, d>> = 1 .. 3 /\ <<a, b, d>>[1] = a /\ <<a, b, d>>[2] = b /\ <<a, b, d>>[3] = d
  OBVIOUS
<1>2. \A i \in 1 .. 3 : i = 1 \/ i = 2 \/ i = 3
  OBVIOUS
<1> QED
  BY <1>1, <1>2 DEF CleanOutputs, CleanOutput

LEMMA OutputsFour ==
  ASSUME NEW c, NEW n, NEW a, CleanOutput(c, a), MadeAt(a.kind) = n,
         NEW b, CleanOutput(c, b), MadeAt(b.kind) = n,
         NEW d, CleanOutput(c, d), MadeAt(d.kind) = n,
         NEW e, CleanOutput(c, e), MadeAt(e.kind) = n,
         \A k \in Kinds : MadeAt(k) = n => k \in {a.kind, b.kind, d.kind, e.kind}
  PROVE  CleanOutputs(c, n, <<a, b, d, e>>)
<1>1. /\ DOMAIN <<a, b, d, e>> = 1 .. 4 /\ <<a, b, d, e>>[1] = a /\ <<a, b, d, e>>[2] = b
      /\ <<a, b, d, e>>[3] = d /\ <<a, b, d, e>>[4] = e
  OBVIOUS
<1>2. \A i \in 1 .. 4 : i = 1 \/ i = 2 \/ i = 3 \/ i = 4
  OBVIOUS
<1> QED
  BY <1>1, <1>2 DEF CleanOutputs, CleanOutput

-----------------------------------------------------------------------------
(* The reviews of such a run: each checkpoint passed has one, of its        *)
(* subject.                                                                 *)

PassedAt(checkpoint) ==
    IF checkpoint = "EVIDENCE" THEN 7
    ELSE IF checkpoint = "IDENTITY" THEN 10
    ELSE IF checkpoint = "PLAN" THEN 13 ELSE 15
CleanSubject(c, checkpoint) ==
    IF checkpoint = "EVIDENCE" THEN RefOf("RelationshipDecision", c)
    ELSE IF checkpoint = "IDENTITY" THEN <<CleanProposal(c), <<>>>>
    ELSE IF checkpoint = "PLAN" THEN RefOf("AnalyticalPlan", c)
    ELSE <<RefOf("CompiledPlan", c), RefOf("GeneratedSQL", c)>>

CleanReviews(c, history, n) ==
    /\ IsList(history)
    /\ \A i \in DOMAIN history :
          /\ history[i].checkpoint \in Checkpoints /\ PassedAt(history[i].checkpoint) < n
          /\ history[i].subject = CleanSubject(c, history[i].checkpoint)
          /\ history[i].decision = "ACCEPTED"
    /\ \A i, j \in DOMAIN history : history[i].checkpoint = history[j].checkpoint => i = j
    /\ \A checkpoint \in Checkpoints : PassedAt(checkpoint) < n =>
          \E i \in DOMAIN history : history[i].checkpoint = checkpoint

LEMMA CleanReviewed ==
  ASSUME NEW c, NEW n, CleanReviews(c, reviews, n), NEW cp \in Checkpoints, PassedAt(cp) < n
  PROVE  /\ AcceptedReviews(cp) # {}
         /\ LastAccepted(cp) \in {reviews[i] : i \in AcceptedReviews(cp)}
         /\ Identity!Compatible(LastAccepted(cp), cp, CleanSubject(c, cp))
<1>1. PICK i \in DOMAIN reviews : reviews[i].checkpoint = cp
  BY DEF CleanReviews
<1>2. AcceptedReviews(cp) = {i}
  BY <1>1 DEF CleanReviews, AcceptedReviews
<1>3. i \in Nat
  <2>1. Len(reviews) \in Nat /\ DOMAIN reviews = 1 .. Len(reviews)
    BY DEF CleanReviews, IsList
  <2> QED
    BY <1>1, <2>1
<1>4. Max({i}) = i
  <2>1. i >= i
    BY <1>3
  <2>2. Max({i}) = CHOOSE x \in {i} : \A y \in {i} : x >= y
    BY DEF Max
  <2>3. \E x \in {i} : \A y \in {i} : x >= y
    BY <2>1
  <2>4. (CHOOSE x \in {i} : \A y \in {i} : x >= y) \in {i}
    BY <2>3, Zenon
  <2> QED
    BY <2>2, <2>4
<1>5. LastAccepted(cp) = reviews[i]
  BY <1>2, <1>4 DEF LastAccepted
<1>6. Identity!Compatible(reviews[i], cp, CleanSubject(c, cp))
  BY <1>1 DEF CleanReviews, Identity!Compatible
<1> QED
  BY <1>2, <1>5, <1>6

\* The run of a clean file under way.
CleanState(c) ==
    /\ CleanFile(c) /\ attempt = 1 /\ at \in 1 .. 18
    /\ CleanArts(c, art, at) /\ CleanReviews(c, reviews, at)
    /\ at > 16 => target = CleanTarget(c)
CleanResult(h, c, n) ==
    /\ h.ok /\ CleanOutputs(c, n, h.outputs)
    /\ h.target = IF n = 16 THEN CleanTarget(c) ELSE target

LEMMA CleanDone ==
  ASSUME NEW c, NEW n \in 1 .. 18, n # 16, NEW outputs, CleanOutputs(c, n, outputs)
  PROVE  CleanResult(Done(outputs), c, n)
<1>1. /\ Done(outputs).ok /\ Done(outputs).outputs = outputs /\ Done(outputs).target = target
  BY DEF Done
<1> QED
  BY <1>1 DEF CleanResult

LEMMA CleanSnapshot ==
  ASSUME NEW c, CleanState(c), at > 2
  PROVE  Snapshot.snap = c /\ Snapshot.rows = c
<1>1. "SourceSnapshotResult" \in Kinds /\ MadeAt("SourceSnapshotResult") = 2
  BY DEF Kinds, MadeAt
<1>2. CleanSays(c, "SourceSnapshotResult", Snapshot)
  BY <1>1, LatestClean DEF CleanState, Snapshot
<1> QED
  BY <1>2 DEF CleanSays

-----------------------------------------------------------------------------
(* The handlers on such a run.                                              *)

LEMMA CleanDiscovery ==
  ASSUME NEW c, CleanState(c), at = 1
  PROVE  CleanResult(SourceDiscovery, c, 1)
<1> DEFINE o == Out("SourceCatalog", "schema", [columns |-> "orders"])
<1>1. o.kind = "SourceCatalog"
  BY OutKind
<1>2. SourceDiscovery = Done(<<o>>)
  BY DEF SourceDiscovery
<1> HIDE DEF o
<1>3. CleanOutput(c, o)
  BY <1>1 DEF CleanOutput, CleanSays, Referred, Kinds
<1>4. MadeAt(o.kind) = 1 /\ \A k \in Kinds : MadeAt(k) = 1 => k = o.kind
  BY <1>1 DEF Kinds, MadeAt
<1> QED
  BY <1>2, <1>3, <1>4, OutputsOne, CleanDone

LEMMA CleanSnapshots ==
  ASSUME NEW c, CleanState(c), at = 2, file = c
  PROVE  CleanResult(SourceSnapshot, c, 2)
<1> DEFINE fields == [snap |-> c, rows |-> c]
           o == Out("SourceSnapshotResult", c, fields)
<1>1. fields.snap = c /\ fields.rows = c /\ DOMAIN fields = {"snap", "rows"}
  OBVIOUS
<1>2. SourceSnapshot = Done(<<o>>)
  BY DEF SourceSnapshot
<1> HIDE DEF fields
<1>3. o.kind = "SourceSnapshotResult" /\ o.value.snap = c /\ o.value.rows = c
  BY <1>1, CleanOut DEF CleanState
<1> HIDE DEF o
<1>4. CleanOutput(c, o)
  BY <1>3 DEF CleanOutput, CleanSays, Referred, Kinds
<1>5. MadeAt(o.kind) = 2 /\ \A k \in Kinds : MadeAt(k) = 2 => k = o.kind
  BY <1>3 DEF Kinds, MadeAt
<1> QED
  BY <1>2, <1>4, <1>5, OutputsOne, CleanDone

LEMMA CleanEngines ==
  ASSUME NEW c, CleanState(c), NEW kind,
         (at = 3 /\ kind = "ProfileResult") \/ (at = 5 /\ kind = "QualityResult")
  PROVE  CleanResult(Engine(kind, TRUE), c, at)
<1> DEFINE o == Out(kind, Snapshot.snap, [snap |-> Snapshot.snap])
<1>1. o.kind = kind
  BY OutKind
<1>2. Engine(kind, TRUE) = Done(<<o>>)
  BY DEF Engine
<1> HIDE DEF o
<1>3. CleanOutput(c, o)
  BY <1>1 DEF CleanOutput, CleanSays, Referred, Kinds
<1>4. MadeAt(o.kind) = at /\ \A k \in Kinds : MadeAt(k) = at => k = o.kind
  BY <1>1 DEF Kinds, MadeAt
<1>5. at \in 1 .. 18 /\ at # 16
  BY DEF CleanState
<1> QED
  BY <1>2, <1>3, <1>4, <1>5, OutputsOne, CleanDone

LEMMA CleanDependencies ==
  ASSUME NEW c, CleanState(c), at = 4
  PROVE  CleanResult(DependencyDiscovery, c, 4)
<1> DEFINE fields == [snap |-> c, found |-> IdentityCandidate(c)]
           o == Out("DependencyResult", c, fields)
<1>1. fields.found = IdentityCandidate(c) /\ DOMAIN fields = {"snap", "found"}
  OBVIOUS
<1>2. IdentityCandidate(c)
  BY DEF CleanState, CleanFile, Clean
<1>3. Snapshot.snap = c /\ Snapshot.rows = c
  BY CleanSnapshot
<1>4. DependencyDiscovery = Done(<<o>>)
  BY <1>2, <1>3 DEF DependencyDiscovery
<1> HIDE DEF fields
<1>5. o.kind = "DependencyResult" /\ o.value.found = IdentityCandidate(c)
  BY <1>1, CleanOut DEF CleanState
<1> HIDE DEF o
<1>6. o.value.found
  BY <1>2, <1>5
<1>7. CleanOutput(c, o)
  BY <1>5, <1>6 DEF CleanOutput, CleanSays, Referred, Kinds
<1>8. MadeAt(o.kind) = 4 /\ \A k \in Kinds : MadeAt(k) = 4 => k = o.kind
  BY <1>5 DEF Kinds, MadeAt
<1> QED
  BY <1>4, <1>7, <1>8, OutputsOne, CleanDone

LEMMA CleanFusion ==
  ASSUME NEW c, CleanState(c), at = 6
  PROVE  CleanResult(EvidenceFusion(TRUE), c, 6)
<1> DEFINE fields == [snap |-> c]
           a == Out("DomainAssertion", c, fields)
           b == Out("EvidenceFusionResult", c, fields)
           d == Out("RelationshipDecision", c, fields)
<1>1. DOMAIN fields = {"snap"}
  OBVIOUS
<1>2. "DependencyResult" \in Kinds /\ MadeAt("DependencyResult") = 4
  BY DEF Kinds, MadeAt
<1>3. CleanSays(c, "DependencyResult", Latest("DependencyResult"))
  BY <1>2, LatestClean DEF CleanState
<1>4. Latest("DependencyResult").found
  BY <1>3 DEF CleanSays
<1>5. Snapshot.snap = c
  BY CleanSnapshot
<1>6. EvidenceFusion(TRUE) = Done(<<a, b, d>>)
  <2>1. EvidenceFusion(TRUE) =
          IF ~Latest("DependencyResult").found THEN Failing(<<>>) ELSE Done(<<a, b, d>>)
    BY <1>5 DEF EvidenceFusion
  <2> HIDE DEF a, b, d
  <2> QED
    BY <1>4, <2>1
<1> HIDE DEF fields
<1>7. /\ a.kind = "DomainAssertion" /\ b.kind = "EvidenceFusionResult"
      /\ d.kind = "RelationshipDecision" /\ d.value.ref = RefOf("RelationshipDecision", c)
  BY <1>1, CleanOut DEF CleanState
<1> HIDE DEF a, b, d
<1>8. CleanOutput(c, a) /\ CleanOutput(c, b) /\ CleanOutput(c, d)
  BY <1>7 DEF CleanOutput, CleanSays, Referred, Kinds
<1>9. /\ MadeAt(a.kind) = 6 /\ MadeAt(b.kind) = 6 /\ MadeAt(d.kind) = 6
      /\ \A k \in Kinds : MadeAt(k) = 6 => k \in {a.kind, b.kind, d.kind}
  BY <1>7 DEF Kinds, MadeAt
<1>10. CleanOutputs(c, 6, <<a, b, d>>)
  BY <1>8, <1>9, OutputsThree
<1>11. PICK outputs : outputs = <<a, b, d>>
  OBVIOUS
<1>12. EvidenceFusion(TRUE) = Done(outputs) /\ CleanOutputs(c, 6, outputs)
  BY <1>6, <1>10, <1>11
<1>13. CleanResult(Done(outputs), c, 6)
  BY <1>12, CleanDone
<1> QED
  BY <1>12, <1>13, Zenon

\* The last artifact of a kind an earlier stage published.
LEMMA CleanLatest ==
  ASSUME NEW c, CleanState(c), NEW k \in Kinds, at > MadeAt(k)
  PROVE  CleanSays(c, k, Latest(k)) /\ All(k) = {Latest(k)}
BY LatestClean DEF CleanState

LEMMA CleanHypotheses ==
  ASSUME NEW c, CleanState(c), at = 8
  PROVE  CleanResult(CanonicalHypotheses, c, 8)
<1> DEFINE fields == [snap |-> c, h |-> CleanHypothesis(c)]
           o == Out("CanonicalModelHypothesis", c, fields)
           relation == RefOf("RelationshipDecision", c)
           given == {reviews[i] : i \in AcceptedReviews("EVIDENCE")}
           link == [decision |-> relation, review |-> LastAccepted("EVIDENCE")]
<1>1. DOMAIN fields = {"snap", "h"} /\ fields.h = CleanHypothesis(c)
  OBVIOUS
<1>2. "RelationshipDecision" \in Kinds /\ MadeAt("RelationshipDecision") = 6
  BY DEF Kinds, MadeAt
<1>3. CleanSays(c, "RelationshipDecision", Latest("RelationshipDecision"))
  BY <1>2, CleanLatest
<1>4. Latest("RelationshipDecision").ref = relation
  BY <1>3 DEF CleanSays, Referred
<1>5. "EVIDENCE" \in Checkpoints /\ PassedAt("EVIDENCE") = 7
      /\ CleanSubject(c, "EVIDENCE") = relation
  BY DEF Checkpoints, PassedAt, CleanSubject
<1>6. /\ AcceptedReviews("EVIDENCE") # {} /\ LastAccepted("EVIDENCE") \in given
      /\ Identity!Compatible(LastAccepted("EVIDENCE"), "EVIDENCE", relation)
  BY <1>5, CleanReviewed DEF CleanState
<1>7. \A r \in given : r.checkpoint = "EVIDENCE" /\ r.decision = "ACCEPTED"
  BY DEF AcceptedReviews
<1>8. link.decision = relation /\ link.review = LastAccepted("EVIDENCE")
  OBVIOUS
<1>9. Snapshot.snap = c
  BY CleanSnapshot
<1>10. CanonicalHypotheses =
         IF given # {} /\ Identity!HypothesisBuilds(given, {relation}, {link}, {}, <<>>)
         THEN Done(<<o>>) ELSE Failing(<<>>)
  BY <1>4, <1>9 DEF CanonicalHypotheses, CleanHypothesis
<1> HIDE DEF fields, link, relation, given
<1>11. given # {} /\ Identity!HypothesisBuilds(given, {relation}, {link}, {}, <<>>)
  BY <1>6, <1>7, <1>8 DEF Identity!HypothesisBuilds
<1>12. o.kind = "CanonicalModelHypothesis" /\ o.value.h = CleanHypothesis(c)
  BY <1>1, CleanOut DEF CleanState
<1> HIDE DEF o
<1>13. CanonicalHypotheses = Done(<<o>>)
  BY <1>10, <1>11
<1>14. CleanOutput(c, o)
  BY <1>12 DEF CleanOutput, CleanSays, Referred, Kinds
<1>15. MadeAt(o.kind) = 8 /\ \A k \in Kinds : MadeAt(k) = 8 => k = o.kind
  BY <1>12 DEF Kinds, MadeAt
<1> QED
  BY <1>13, <1>14, <1>15, OutputsOne, CleanDone

LEMMA CleanProposes ==
  ASSUME NEW c, CleanState(c), at = 9
  PROVE  CleanResult(IdentityProposal, c, 9)
<1> DEFINE fields == [snap |-> c, p |-> CleanProposal(c)]
           o == Out("CanonicalIdentityProposal", c, fields)
<1>1. DOMAIN fields = {"snap", "p"} /\ fields.p = CleanProposal(c)
  OBVIOUS
<1>2. "CanonicalModelHypothesis" \in Kinds /\ MadeAt("CanonicalModelHypothesis") = 8
  BY DEF Kinds, MadeAt
<1>3. CleanSays(c, "CanonicalModelHypothesis", Latest("CanonicalModelHypothesis"))
  BY <1>2, CleanLatest
<1>4. Latest("CanonicalModelHypothesis").h = CleanHypothesis(c)
  BY <1>3 DEF CleanSays
<1>5. Snapshot.snap = c /\ Snapshot.rows = c
  BY CleanSnapshot
<1>6. IdentityProposal =
        IF Identity!ProposalBuilds(CleanHypothesis(c), SetToSeq(CleanGroups(c)), <<>>)
        THEN Done(<<o>>) ELSE Failing(<<>>)
  <2> DEFINE h == CleanHypothesis(c)
             groups == {[type |-> "order", family |-> h.family["order"], refs |-> {r.ref},
                         basis |-> "SOURCE_LOCAL", edges |-> {}] : r \in c}
  <2>1. h.family["order"] = "order_event"
    BY CleanHypothesisParts
  <2> HIDE DEF h
  <2>2. groups = CleanGroups(c)
    BY <2>1 DEF CleanGroups, CleanMember
  <2>3. IdentityProposal =
          IF Identity!ProposalBuilds(h, SetToSeq(groups), <<>>)
          THEN Done(<<Out("CanonicalIdentityProposal", c, [snap |-> c, p |-> Identity!Proposal(h, SetToSeq(groups), <<>>)])>>)
          ELSE Failing(<<>>)
    BY <1>4, <1>5 DEF IdentityProposal, h
  <2> HIDE DEF groups
  <2>4. QED
    BY <2>2, <2>3 DEF CleanProposal, h
<1> HIDE DEF fields
<1>7. Identity!ProposalBuilds(CleanHypothesis(c), SetToSeq(CleanGroups(c)), <<>>)
  BY CleanProposalBuilds DEF CleanState
<1>8. o.kind = "CanonicalIdentityProposal" /\ o.value.p = CleanProposal(c)
  BY <1>1, CleanOut DEF CleanState
<1> HIDE DEF o
<1>9. IdentityProposal = Done(<<o>>)
  BY <1>6, <1>7
<1>10. CleanOutput(c, o)
  BY <1>8 DEF CleanOutput, CleanSays, Referred, Kinds
<1>11. MadeAt(o.kind) = 9 /\ \A k \in Kinds : MadeAt(k) = 9 => k = o.kind
  BY <1>8 DEF Kinds, MadeAt
<1> QED
  BY <1>9, <1>10, <1>11, OutputsOne, CleanDone

LEMMA CleanFinalization ==
  ASSUME NEW c, CleanState(c), at = 11
  PROVE  CleanResult(CanonicalFinalization, c, 11)
<1> DEFINE final == CleanFinal(c)
           fields == [snap |-> c, relationships |-> final.relationships,
                      instances |-> final.instances, maps |-> final.maps]
           o == Out("CanonicalModel", c, fields)
<1>1. /\ DOMAIN fields = {"snap", "relationships", "instances", "maps"}
      /\ fields.relationships = final.relationships /\ fields.instances = final.instances
      /\ fields.maps = final.maps
  OBVIOUS
<1>2. /\ "CanonicalModelHypothesis" \in Kinds /\ MadeAt("CanonicalModelHypothesis") = 8
      /\ "CanonicalIdentityProposal" \in Kinds /\ MadeAt("CanonicalIdentityProposal") = 9
  BY DEF Kinds, MadeAt
<1>3. /\ CleanSays(c, "CanonicalModelHypothesis", Latest("CanonicalModelHypothesis"))
      /\ CleanSays(c, "CanonicalIdentityProposal", Latest("CanonicalIdentityProposal"))
  BY <1>2, CleanLatest
<1>4. /\ Latest("CanonicalModelHypothesis").h = CleanHypothesis(c)
      /\ Latest("CanonicalIdentityProposal").p = CleanProposal(c)
  BY <1>3 DEF CleanSays
<1>5. Snapshot.snap = c /\ Snapshot.rows = c
  BY CleanSnapshot
<1>6. CanonicalFinalization =
        IF /\ AcceptedReviews("IDENTITY") # {}
           /\ Identity!FinalizeAllowed(CleanHypothesis(c), CleanProposal(c),
                                       LastAccepted("IDENTITY"), <<>>, CleanMetadata(c))
        THEN Done(<<o>>) ELSE Failing(<<>>)
  BY <1>4, <1>5 DEF CanonicalFinalization, CleanFinal, CleanMetadata
<1>7. "IDENTITY" \in Checkpoints /\ PassedAt("IDENTITY") = 10
      /\ CleanSubject(c, "IDENTITY") = <<CleanProposal(c), <<>>>>
  BY DEF Checkpoints, PassedAt, CleanSubject
<1>8. /\ AcceptedReviews("IDENTITY") # {}
      /\ Identity!Compatible(LastAccepted("IDENTITY"), "IDENTITY", <<CleanProposal(c), <<>>>>)
  BY <1>7, CleanReviewed DEF CleanState
<1>9. Identity!FinalizeAllowed(CleanHypothesis(c), CleanProposal(c),
                               LastAccepted("IDENTITY"), <<>>, CleanMetadata(c))
  BY <1>8, CleanFinalizes DEF CleanState
<1> HIDE DEF fields, final
<1>10. /\ o.kind = "CanonicalModel" /\ o.value.ref = RefOf("CanonicalModel", c)
       /\ o.value.relationships = final.relationships /\ o.value.instances = final.instances
       /\ o.value.maps = final.maps
  BY <1>1, CleanOut DEF CleanState
<1> HIDE DEF o
<1>11. CanonicalFinalization = Done(<<o>>)
  BY <1>6, <1>8, <1>9
<1>12. CleanModel(c, final)
  BY CleanModelParts DEF CleanModel, CleanState, final
<1>13. CleanModel(c, o.value)
  BY <1>10, <1>12 DEF CleanModel
<1>14. CleanOutput(c, o)
  BY <1>10, <1>13 DEF CleanOutput, CleanSays, Referred, Kinds
<1>15. MadeAt(o.kind) = 11 /\ \A k \in Kinds : MadeAt(k) = 11 => k = o.kind
  BY <1>10 DEF Kinds, MadeAt
<1> QED
  BY <1>11, <1>14, <1>15, OutputsOne, CleanDone

LEMMA CleanGrainValidates ==
  ASSUME NEW rows, CleanTable(rows), NEW d, d = OrderDesign(rows)
  PROVE  GrainValidates(d, rows)
<1> DEFINE keyed == {r \in rows : ~NullGrain(d, r)}
           f == [r \in rows |-> GrainOf(d, r)]
<1>1. d.grain.columns = {"order"}
  BY DesignParts
<1>2. /\ IsFiniteSet(rows) /\ rows # {}
      /\ \A r, s \in rows : r.cells.order = s.cells.order => r = s
      /\ \A r \in rows : r.cells.order # Null
  BY DEF CleanTable, CleanInputRow
<1>3. \A r \in rows : ~NullGrain(d, r)
  BY <1>1, <1>2 DEF NullGrain
<1>4. keyed = rows
  BY <1>3
<1>5. \A r \in rows : GrainOf(d, r)["order"] = r.cells.order
  BY <1>1 DEF GrainOf
<1>6. DOMAIN f = rows /\ \A r \in rows : f[r] = GrainOf(d, r)
  OBVIOUS
<1>7. {GrainOf(d, r) : r \in rows} = {f[r] : r \in rows}
  OBVIOUS
<1> HIDE DEF f, keyed
<1>8. \A r, s \in rows : f[r] = f[s] => r = s
  BY <1>2, <1>5, <1>6
<1>9. Cardinality({f[r] : r \in rows}) = Cardinality(rows)
  BY <1>2, <1>6, <1>8, ImageCounts
<1>10. Cardinality({GrainOf(d, r) : r \in keyed}) = Cardinality(keyed)
  BY <1>4, <1>7, <1>9
<1> QED
  BY <1>2, <1>4, <1>10 DEF GrainValidates, keyed

LEMMA CleanDataset ==
  ASSUME NEW c, CleanFile(c), NEW v, CleanModel(c, v)
  PROVE  /\ DatasetBuilds(v, c) /\ PlanAccepted(v, RefOf("RelationshipDecision", c))
         /\ {DatasetRow(v, r) : r \in c} = CleanRows(c)
<1>1. \A x, y \in c : x.ref = y.ref => x = y
  BY ContentsAssumption DEF CleanFile
<1>2. ASSUME NEW r \in c
      PROVE  EntityFor(v, r.ref) = {{r.ref}}
  <2> DEFINE maps == {CleanMap(c, CleanRow(x)) : x \in c}
  <2>1. v.maps = maps
    BY DEF CleanModel, CleanRows
  <2>2. \A x \in c : CleanMap(c, CleanRow(x)).ref = x.ref /\ CleanMap(c, CleanRow(x)).entity = {x.ref}
    BY CleanRowParts DEF CleanMap
  <2>3. \A y \in maps : y.ref = r.ref => y.entity = {r.ref}
    BY <2>2
  <2>4. CleanMap(c, CleanRow(r)) \in maps
    OBVIOUS
  <2> HIDE DEF maps
  <2> QED
    BY <2>1, <2>2, <2>3, <2>4 DEF EntityFor
<1>3. ASSUME NEW r \in c
      PROVE  DatasetRow(v, r) = CleanRow(r)
  <2>1. (CHOOSE e \in {{r.ref}} : TRUE) = {r.ref}
    BY Zenon
  <2>2. (CHOOSE e \in EntityFor(v, r.ref) : TRUE) = {r.ref}
    BY <1>2, <2>1
  <2> QED
    BY <2>2 DEF DatasetRow, CleanRow
<1>4. \A r \in c : r.date # Bad /\ r.qty # Bad
  BY DEF CleanFile, Clean
<1>5. DatasetBuilds(v, c)
  BY <1>2, <1>4 DEF DatasetBuilds
<1>6. PlanAccepted(v, RefOf("RelationshipDecision", c))
  BY DEF PlanAccepted, CleanModel
<1> QED
  BY <1>3, <1>5, <1>6 DEF CleanRows

LEMMA CleanPlanning ==
  ASSUME NEW c, CleanState(c), at = 12
  PROVE  CleanResult(AnalyticalPlanning, c, 12)
<1> DEFINE rows == CleanRows(c)
           design == CleanDesign(c)
           canonical == RefOf("CanonicalModel", c)
           datasetFields == [snap |-> c, canonical |-> canonical, rows |-> rows]
           a == Out("AnalyticalInputDataset", c, datasetFields)
           bindingFields == [snap |-> c, canonical |-> canonical, dataset |-> a.value.ref]
           b == Out("AnalyticalInputBinding", c, bindingFields)
           planFields == [snap |-> c, canonical |-> canonical, binding |-> b.value.ref, design |-> design]
           d == Out("AnalyticalPlan", c, planFields)
           specFields == [plan |-> d.value.ref, design |-> design]
           e == Out("Specs", c, specFields)
<1>1. /\ "CanonicalModel" \in Kinds /\ MadeAt("CanonicalModel") = 11
      /\ "RelationshipDecision" \in Kinds /\ MadeAt("RelationshipDecision") = 6
  BY DEF Kinds, MadeAt
<1>2. /\ CleanSays(c, "CanonicalModel", Latest("CanonicalModel"))
      /\ CleanSays(c, "RelationshipDecision", Latest("RelationshipDecision"))
  BY <1>1, CleanLatest
<1>3. /\ Latest("CanonicalModel").ref = canonical /\ CleanModel(c, Latest("CanonicalModel"))
      /\ Latest("RelationshipDecision").ref = RefOf("RelationshipDecision", c)
  BY <1>2 DEF CleanSays, Referred
<1>4. Snapshot.snap = c /\ Snapshot.rows = c
  BY CleanSnapshot
<1>5. /\ DatasetBuilds(Latest("CanonicalModel"), c)
      /\ PlanAccepted(Latest("CanonicalModel"), RefOf("RelationshipDecision", c))
      /\ {DatasetRow(Latest("CanonicalModel"), r) : r \in c} = rows
  BY <1>3, CleanDataset DEF CleanState
<1>6. GrainValidates(design, rows)
  BY CleanRowsTable, CleanGrainValidates DEF CleanDesign, CleanState
<1>7. AnalyticalPlanning =
        IF ~DatasetBuilds(Latest("CanonicalModel"), c) THEN Failing(<<>>)
        ELSE IF /\ PlanAccepted(Latest("CanonicalModel"), RefOf("RelationshipDecision", c))
                /\ GrainValidates(design, rows)
             THEN Done(<<a, b, d, e>>) ELSE Failing(<<a, b>>)
  BY <1>3, <1>4, <1>5 DEF AnalyticalPlanning, CleanDesign
<1>8. DOMAIN datasetFields = {"snap", "canonical", "rows"} /\ datasetFields.canonical = canonical
      /\ datasetFields.rows = rows
  OBVIOUS
<1>9. DOMAIN bindingFields = {"snap", "canonical", "dataset"} /\ bindingFields.canonical = canonical
      /\ bindingFields.dataset = a.value.ref
  OBVIOUS
<1>10. /\ DOMAIN planFields = {"snap", "canonical", "binding", "design"} /\ planFields.snap = c
       /\ planFields.canonical = canonical /\ planFields.binding = b.value.ref /\ planFields.design = design
  OBVIOUS
<1>11. DOMAIN specFields = {"plan", "design"} /\ specFields.design = design
  OBVIOUS
<1>12. attempt = 1
  BY DEF CleanState
<1> HIDE DEF datasetFields, bindingFields, planFields, specFields, rows, design, canonical
<1>13. /\ a.kind = "AnalyticalInputDataset" /\ a.value.ref = RefOf("AnalyticalInputDataset", c)
       /\ a.value.canonical = canonical /\ a.value.rows = rows
  BY <1>8, <1>12, CleanOut
<1>14. /\ b.kind = "AnalyticalInputBinding" /\ b.value.ref = RefOf("AnalyticalInputBinding", c)
       /\ b.value.canonical = canonical /\ b.value.dataset = a.value.ref
  <2> HIDE DEF a
  <2> QED
    BY <1>9, <1>12, CleanOut
<1>15. /\ d.kind = "AnalyticalPlan" /\ d.value.ref = RefOf("AnalyticalPlan", c) /\ d.value.snap = c
       /\ d.value.canonical = canonical /\ d.value.binding = b.value.ref /\ d.value.design = design
  <2> HIDE DEF a, b
  <2> QED
    BY <1>10, <1>12, CleanOut
<1>16. e.kind = "Specs" /\ e.value.design = design
  <2> HIDE DEF a, b, d
  <2> QED
    BY <1>11, <1>12, CleanOut
<1> HIDE DEF a, b, d, e
<1>17. AnalyticalPlanning = Done(<<a, b, d, e>>)
  BY <1>5, <1>6, <1>7
<1>18. CleanOutput(c, a) /\ CleanOutput(c, b)
  BY <1>13, <1>14 DEF CleanOutput, CleanSays, Referred, Kinds, canonical, rows
<1>19. CleanOutput(c, d) /\ CleanOutput(c, e)
  BY <1>14, <1>15, <1>16 DEF CleanOutput, CleanSays, Referred, Kinds, canonical, design
<1>20. /\ MadeAt(a.kind) = 12 /\ MadeAt(b.kind) = 12 /\ MadeAt(d.kind) = 12 /\ MadeAt(e.kind) = 12
       /\ \A k \in Kinds : MadeAt(k) = 12 => k \in {a.kind, b.kind, d.kind, e.kind}
  BY <1>13, <1>14, <1>15, <1>16 DEF Kinds, MadeAt
<1>21. PICK outputs : outputs = <<a, b, d, e>>
  OBVIOUS
<1>22. CleanOutputs(c, 12, outputs)
  BY <1>18, <1>19, <1>20, <1>21, OutputsFour
<1>23. AnalyticalPlanning = Done(outputs)
  BY <1>17, <1>21
<1> QED
  BY <1>22, <1>23, CleanDone

\* What the stages after planning read.
LEMMA CleanPlanned ==
  ASSUME NEW c, CleanState(c), at > 12
  PROVE  /\ CleanSays(c, "CanonicalModel", Latest("CanonicalModel"))
         /\ CleanSays(c, "AnalyticalInputDataset", Latest("AnalyticalInputDataset"))
         /\ CleanSays(c, "AnalyticalInputBinding", Latest("AnalyticalInputBinding"))
         /\ CleanSays(c, "AnalyticalPlan", Latest("AnalyticalPlan"))
         /\ CleanSays(c, "Specs", Latest("Specs")) /\ All("Specs") = {Latest("Specs")}
         /\ CleanSays(c, "RelationshipDecision", Latest("RelationshipDecision"))
<1>1. /\ "CanonicalModel" \in Kinds /\ MadeAt("CanonicalModel") = 11
      /\ "AnalyticalInputDataset" \in Kinds /\ MadeAt("AnalyticalInputDataset") = 12
      /\ "AnalyticalInputBinding" \in Kinds /\ MadeAt("AnalyticalInputBinding") = 12
      /\ "AnalyticalPlan" \in Kinds /\ MadeAt("AnalyticalPlan") = 12
      /\ "Specs" \in Kinds /\ MadeAt("Specs") = 12
      /\ "RelationshipDecision" \in Kinds /\ MadeAt("RelationshipDecision") = 6
  BY DEF Kinds, MadeAt
<1>2. at \in 1 .. 18
  BY DEF CleanState
<1> QED
  BY <1>1, <1>2, CleanLatest

LEMMA CleanCompiled ==
  ASSUME NEW c, CleanState(c), at > 14
  PROVE  /\ CleanSays(c, "CompiledPlan", Latest("CompiledPlan"))
         /\ CleanSays(c, "GeneratedSQL", Latest("GeneratedSQL"))
<1>1. /\ "CompiledPlan" \in Kinds /\ MadeAt("CompiledPlan") = 14
      /\ "GeneratedSQL" \in Kinds /\ MadeAt("GeneratedSQL") = 14
  BY DEF Kinds, MadeAt
<1> QED
  BY <1>1, CleanLatest

LEMMA CleanBuilt ==
  ASSUME NEW c, CleanFile(c), NEW dataset, dataset.rows = CleanRows(c),
         NEW star, star = Compile(CleanDesign(c), Tables(dataset), dataset.rows)
  PROVE  star.ok /\ CleanTarget(c).ok /\ Build(CleanDesign(c), star) = CleanTarget(c)
<1>1. Tables(dataset) = OrderTables(CleanRows(c))
  BY DEF Tables, OrderTables
<1>2. CleanTable(CleanRows(c))
  BY CleanRowsTable
<1>3. star = CleanStar(CleanRows(c))
  BY <1>1 DEF CleanStar, CleanDesign
<1>4. star.ok
  BY <1>2, <1>3, CleanCompiles
<1>5. CleanTarget(c).ok
  BY <1>2, CleanLoads DEF CleanTarget
<1>6. Build(CleanDesign(c), star) = CleanTarget(c)
  BY <1>1 DEF CleanTarget, Target, CleanDesign
<1> QED
  BY <1>4, <1>5, <1>6

LEMMA CleanPlanReviewed ==
  ASSUME NEW c, CleanState(c), at > 13
  PROVE  Reviewed("PLAN", RefOf("AnalyticalPlan", c))
<1>1. /\ "PLAN" \in Checkpoints /\ PassedAt("PLAN") = 13
      /\ CleanSubject(c, "PLAN") = RefOf("AnalyticalPlan", c)
  BY DEF Checkpoints, PassedAt, CleanSubject
<1> QED
  BY <1>1, CleanReviewed DEF CleanState, Reviewed

LEMMA CleanCompilation ==
  ASSUME NEW c, CleanState(c), at = 14
  PROVE  CleanResult(Compilation, c, 14)
<1> DEFINE plan == Latest("AnalyticalPlan")
           dataset == Latest("AnalyticalInputDataset")
           binding == Latest("AnalyticalInputBinding")
           star == Compile(plan.design, Tables(dataset), dataset.rows)
           sqlFields == [snap |-> plan.snap, quarantine |-> star.quarantine]
           b == Out("GeneratedSQL", plan.snap, sqlFields)
           fields == [snap |-> plan.snap, plan |-> plan.ref, binding |-> binding.ref,
                      canonical |-> plan.canonical, design |-> plan.design, sql |-> b.value.ref]
           a == Out("CompiledPlan", plan.snap, fields)
<1>1. /\ CleanSays(c, "AnalyticalInputDataset", dataset)
      /\ CleanSays(c, "AnalyticalInputBinding", binding)
      /\ CleanSays(c, "AnalyticalPlan", plan)
      /\ CleanSays(c, "Specs", Latest("Specs")) /\ All("Specs") = {Latest("Specs")}
  BY CleanPlanned
<1>2. /\ dataset.ref = RefOf("AnalyticalInputDataset", c) /\ dataset.rows = CleanRows(c)
      /\ dataset.canonical = RefOf("CanonicalModel", c)
  BY <1>1 DEF CleanSays, Referred
<1>3. /\ binding.ref = RefOf("AnalyticalInputBinding", c)
      /\ binding.canonical = RefOf("CanonicalModel", c)
      /\ binding.dataset = RefOf("AnalyticalInputDataset", c)
  BY <1>1 DEF CleanSays, Referred
<1>4. /\ plan.ref = RefOf("AnalyticalPlan", c) /\ plan.snap = c
      /\ plan.canonical = RefOf("CanonicalModel", c)
      /\ plan.binding = RefOf("AnalyticalInputBinding", c) /\ plan.design = CleanDesign(c)
  BY <1>1 DEF CleanSays, Referred
<1>5. Latest("Specs").design = CleanDesign(c)
  BY <1>1 DEF CleanSays
<1>6. Compilation = IF PlanCurrent(plan, binding, dataset) /\ star.ok THEN Done(<<a, b>>) ELSE Failing(<<>>)
  BY DEF Compilation, CompileStar, CompiledOutputs
<1>7. DOMAIN sqlFields = {"snap", "quarantine"}
  OBVIOUS
<1>8. /\ DOMAIN fields = {"snap", "plan", "binding", "canonical", "design", "sql"}
      /\ fields.snap = plan.snap /\ fields.plan = plan.ref /\ fields.binding = binding.ref
      /\ fields.canonical = plan.canonical /\ fields.design = plan.design /\ fields.sql = b.value.ref
  OBVIOUS
<1>9. star.ok
  <2> HIDE DEF plan, dataset
  <2> QED
    BY <1>2, <1>4, CleanBuilt DEF CleanState
<1>10. attempt = 1
  BY DEF CleanState
<1> HIDE DEF plan, dataset, binding, star, sqlFields, fields
<1>11. PlanCurrent(plan, binding, dataset)
  <2>1. Reviewed("PLAN", plan.ref)
    BY <1>4, CleanPlanReviewed
  <2>2. {v.design : v \in All("Specs")} = {plan.design}
    BY <1>1, <1>4, <1>5
  <2>3. Cardinality(All("Specs")) = 1
    BY <1>1, FS_Singleton
  <2> QED
    BY <1>2, <1>3, <1>4, <2>1, <2>2, <2>3 DEF PlanCurrent
<1>12. b.kind = "GeneratedSQL" /\ b.value.ref = RefOf("GeneratedSQL", c)
  BY <1>4, <1>7, <1>10, CleanOut
<1>13. /\ a.kind = "CompiledPlan" /\ a.value.ref = RefOf("CompiledPlan", c)
       /\ a.value.snap = plan.snap /\ a.value.plan = plan.ref /\ a.value.binding = binding.ref
       /\ a.value.canonical = plan.canonical /\ a.value.design = plan.design /\ a.value.sql = b.value.ref
  <2> HIDE DEF b
  <2> QED
    BY <1>4, <1>8, <1>10, CleanOut
<1> HIDE DEF a, b
<1>14. CleanOutput(c, a) /\ CleanOutput(c, b)
  BY <1>3, <1>4, <1>12, <1>13 DEF CleanOutput, CleanSays, Referred, Kinds
<1>15. /\ MadeAt(a.kind) = 14 /\ MadeAt(b.kind) = 14
       /\ \A k \in Kinds : MadeAt(k) = 14 => k \in {a.kind, b.kind}
  BY <1>12, <1>13 DEF Kinds, MadeAt
<1>16. PICK outputs : outputs = <<a, b>>
  OBVIOUS
<1>17. CleanOutputs(c, 14, outputs)
  BY <1>14, <1>15, <1>16, OutputsTwo
<1>18. Compilation = Done(outputs)
  BY <1>6, <1>9, <1>11, <1>16
<1> QED
  BY <1>17, <1>18, CleanDone

LEMMA CleanMaterialization ==
  ASSUME NEW c, CleanState(c), at = 16
  PROVE  CleanResult(Materialization, c, 16)
<1> DEFINE compiled == Latest("CompiledPlan")
           sql == Latest("GeneratedSQL")
           dataset == Latest("AnalyticalInputDataset")
           binding == Latest("AnalyticalInputBinding")
           built == Build(compiled.design, Compile(compiled.design, Tables(dataset), dataset.rows))
           fields == [snap |-> compiled.snap, ok |-> built.ok, file |-> built,
                      compiled |-> compiled.ref, quarantine |-> sql.quarantine]
           o == Out("MaterializationArtifact", compiled.snap, fields)
           current == /\ compiled.sql = sql.ref
                      /\ binding.ref = compiled.binding
                      /\ dataset.ref = binding.dataset
                      /\ dataset.canonical = compiled.canonical
                      /\ Reviewed("MATERIALIZATION_PLAN", <<compiled.ref, sql.ref>>)
<1>1. /\ CleanSays(c, "AnalyticalInputDataset", dataset)
      /\ CleanSays(c, "AnalyticalInputBinding", binding)
  BY CleanPlanned
<1>2. CleanSays(c, "CompiledPlan", compiled) /\ CleanSays(c, "GeneratedSQL", sql)
  BY CleanCompiled
<1>3. /\ dataset.ref = RefOf("AnalyticalInputDataset", c) /\ dataset.rows = CleanRows(c)
      /\ dataset.canonical = RefOf("CanonicalModel", c)
  BY <1>1 DEF CleanSays, Referred
<1>4. /\ binding.ref = RefOf("AnalyticalInputBinding", c)
      /\ binding.dataset = RefOf("AnalyticalInputDataset", c)
  BY <1>1 DEF CleanSays, Referred
<1>5. /\ compiled.ref = RefOf("CompiledPlan", c) /\ compiled.snap = c
      /\ compiled.binding = RefOf("AnalyticalInputBinding", c)
      /\ compiled.canonical = RefOf("CanonicalModel", c)
      /\ compiled.design = CleanDesign(c) /\ compiled.sql = RefOf("GeneratedSQL", c)
  BY <1>2 DEF CleanSays, Referred
<1>6. sql.ref = RefOf("GeneratedSQL", c)
  BY <1>2 DEF CleanSays, Referred
<1>7. Materialization = IF ~current THEN Failing(<<>>)
                        ELSE IF built.ok THEN [Done(<<o>>) EXCEPT !.target = built] ELSE Failing(<<o>>)
  BY DEF Materialization, MaterializeInto
<1>8. /\ DOMAIN fields = {"snap", "ok", "file", "compiled", "quarantine"}
      /\ fields.ok = built.ok /\ fields.file = built /\ fields.compiled = compiled.ref
  OBVIOUS
<1>9. built.ok /\ built = CleanTarget(c)
  <2> HIDE DEF compiled, dataset
  <2> QED
    BY <1>3, <1>5, CleanBuilt DEF CleanState
<1>10. attempt = 1
  BY DEF CleanState
<1> HIDE DEF compiled, sql, dataset, binding, built, fields
<1>11. /\ "MATERIALIZATION_PLAN" \in Checkpoints /\ PassedAt("MATERIALIZATION_PLAN") = 15
       /\ CleanSubject(c, "MATERIALIZATION_PLAN") = <<RefOf("CompiledPlan", c), RefOf("GeneratedSQL", c)>>
  BY DEF Checkpoints, PassedAt, CleanSubject
<1>12. Reviewed("MATERIALIZATION_PLAN", <<compiled.ref, sql.ref>>)
  BY <1>5, <1>6, <1>11, CleanReviewed DEF CleanState, Reviewed
<1>13. current
  BY <1>3, <1>4, <1>5, <1>6, <1>12
<1>14. /\ o.kind = "MaterializationArtifact" /\ o.value.ref = RefOf("MaterializationArtifact", c)
       /\ o.value.ok = built.ok /\ o.value.file = built /\ o.value.compiled = compiled.ref
  BY <1>5, <1>8, <1>10, CleanOut
<1> HIDE DEF o, current
<1>15. Materialization = [Done(<<o>>) EXCEPT !.target = built]
  BY <1>7, <1>9, <1>13
<1>16. o.value.ok
  BY <1>9, <1>14
<1>17. CleanOutput(c, o)
  BY <1>5, <1>9, <1>14, <1>16 DEF CleanOutput, CleanSays, Referred, Kinds
<1>18. MadeAt(o.kind) = 16 /\ \A k \in Kinds : MadeAt(k) = 16 => k = o.kind
  BY <1>14 DEF Kinds, MadeAt
<1>19. PICK outputs : outputs = <<o>>
  OBVIOUS
<1>20. CleanOutputs(c, 16, outputs)
  BY <1>17, <1>18, <1>19, OutputsOne
<1>21. Materialization.ok /\ Materialization.outputs = outputs /\ Materialization.target = built
  BY <1>15, <1>19 DEF Done
<1> QED
  BY <1>9, <1>20, <1>21 DEF CleanResult

LEMMA CleanSemantics ==
  ASSUME NEW c, CleanState(c), at = 17
  PROVE  CleanResult(SemanticModeling, c, 17)
<1> DEFINE plan == Latest("AnalyticalPlan")
           compiled == Latest("CompiledPlan")
           mat == Latest("MaterializationArtifact")
           fields == [snap |-> plan.snap, plan |-> plan.ref, compiled |-> compiled.ref,
                      mat |-> mat.ref, measure |-> compiled.design.measure]
           a == Out("SemanticModel", plan.snap, fields)
           valFields == [model |-> a.value.ref, status |-> "PASS"]
           b == Out("SemanticValidationResult", plan.snap, valFields)
<1>1. CleanSays(c, "AnalyticalPlan", plan) /\ CleanSays(c, "CanonicalModel", Latest("CanonicalModel"))
  BY CleanPlanned
<1>2. CleanSays(c, "CompiledPlan", compiled)
  BY CleanCompiled
<1>3. "MaterializationArtifact" \in Kinds /\ MadeAt("MaterializationArtifact") = 16
  BY DEF Kinds, MadeAt
<1>4. CleanSays(c, "MaterializationArtifact", mat)
  BY <1>3, CleanLatest
<1>5. /\ plan.ref = RefOf("AnalyticalPlan", c) /\ plan.snap = c
      /\ plan.canonical = RefOf("CanonicalModel", c)
      /\ Latest("CanonicalModel").ref = RefOf("CanonicalModel", c)
  BY <1>1 DEF CleanSays, Referred
<1>6. /\ compiled.ref = RefOf("CompiledPlan", c) /\ compiled.plan = RefOf("AnalyticalPlan", c)
      /\ compiled.design = CleanDesign(c)
  BY <1>2 DEF CleanSays, Referred
<1>7. /\ mat.ref = RefOf("MaterializationArtifact", c) /\ mat.ok
      /\ mat.compiled = RefOf("CompiledPlan", c)
  BY <1>4 DEF CleanSays, Referred
<1>8. compiled.design.measure = "qty"
  BY <1>6, DesignParts DEF CleanDesign
<1>9. Reviewed("PLAN", plan.ref)
  BY <1>5, CleanPlanReviewed
<1>10. SemanticModeling =
         IF /\ Reviewed("PLAN", plan.ref)
            /\ compiled.plan = plan.ref /\ mat.compiled = compiled.ref /\ mat.ok
            /\ Latest("CanonicalModel").ref = plan.canonical
         THEN Done(<<a, b>>) ELSE Failing(<<>>)
  BY DEF SemanticModeling
<1>11. /\ DOMAIN fields = {"snap", "plan", "compiled", "mat", "measure"}
       /\ fields.plan = plan.ref /\ fields.compiled = compiled.ref /\ fields.mat = mat.ref
       /\ fields.measure = compiled.design.measure
  OBVIOUS
<1>12. DOMAIN valFields = {"model", "status"} /\ valFields.model = a.value.ref /\ valFields.status = "PASS"
  OBVIOUS
<1>13. attempt = 1
  BY DEF CleanState
<1> HIDE DEF plan, compiled, mat, fields, valFields
<1>14. /\ a.kind = "SemanticModel" /\ a.value.ref = RefOf("SemanticModel", c)
       /\ a.value.plan = plan.ref /\ a.value.compiled = compiled.ref /\ a.value.mat = mat.ref
       /\ a.value.measure = compiled.design.measure
  BY <1>5, <1>11, <1>13, CleanOut
<1>15. /\ b.kind = "SemanticValidationResult"
       /\ b.value.model = a.value.ref /\ b.value.status = "PASS"
  <2> HIDE DEF a
  <2> QED
    BY <1>5, <1>12, <1>13, CleanOut
<1> HIDE DEF a, b
<1>16. CleanOutput(c, a) /\ CleanOutput(c, b)
  BY <1>5, <1>6, <1>7, <1>8, <1>14, <1>15 DEF CleanOutput, CleanSays, Referred, Kinds
<1>17. /\ MadeAt(a.kind) = 17 /\ MadeAt(b.kind) = 17
       /\ \A k \in Kinds : MadeAt(k) = 17 => k \in {a.kind, b.kind}
  BY <1>14, <1>15 DEF Kinds, MadeAt
<1>18. PICK outputs : outputs = <<a, b>>
  OBVIOUS
<1>19. CleanOutputs(c, 17, outputs)
  BY <1>16, <1>17, <1>18, OutputsTwo
<1>20. SemanticModeling = Done(outputs)
  BY <1>5, <1>6, <1>7, <1>9, <1>10, <1>18
<1> QED
  BY <1>19, <1>20, CleanDone

\* What the gate is given.
LEMMA CleanInputs ==
  ASSUME NEW c, CleanState(c), at = 18,
         NEW dataset, dataset = Latest("AnalyticalInputDataset"),
         NEW canon, canon = Latest("CanonicalModel"),
         NEW mat, mat = Latest("MaterializationArtifact"),
         NEW x, x = GateInputs(Truth(c, dataset, canon), dataset, canon, mat)
  PROVE  CleanGate(x, CleanRows(c), c)
<1> DEFINE truth == Truth(c, dataset, canon)
           binding == Latest("AnalyticalInputBinding")
           plan == Latest("AnalyticalPlan")
           compiled == Latest("CompiledPlan")
           semantic == Latest("SemanticModel")
           semval == Latest("SemanticValidationResult")
<1>1. /\ "MaterializationArtifact" \in Kinds /\ MadeAt("MaterializationArtifact") = 16
      /\ "SemanticModel" \in Kinds /\ MadeAt("SemanticModel") = 17
      /\ "SemanticValidationResult" \in Kinds /\ MadeAt("SemanticValidationResult") = 17
  BY DEF Kinds, MadeAt
<1>2. /\ CleanSays(c, "MaterializationArtifact", mat) /\ CleanSays(c, "SemanticModel", semantic)
      /\ CleanSays(c, "SemanticValidationResult", semval)
  BY <1>1, CleanLatest
<1>3. /\ CleanSays(c, "CanonicalModel", canon) /\ CleanSays(c, "AnalyticalInputDataset", dataset)
      /\ CleanSays(c, "AnalyticalInputBinding", binding) /\ CleanSays(c, "AnalyticalPlan", plan)
      /\ CleanSays(c, "RelationshipDecision", Latest("RelationshipDecision"))
  BY CleanPlanned
<1>4. CleanSays(c, "CompiledPlan", compiled)
  BY CleanCompiled
<1>5. /\ x.truth = truth /\ x.accounting = Accounting(truth) /\ x.canonical = canon
      /\ x.dataset = dataset /\ x.binding = binding /\ x.plan = plan /\ x.compiled = compiled
      /\ x.mat = mat /\ x.semantic = semantic /\ x.semval = semval
      /\ x.target = ReadTarget(target, mat)
      /\ x.bindings = <<truth, Accounting(truth), canon.ref, plan.ref, dataset.ref, binding.ref,
                        compiled.ref, mat.ref, semantic.ref, semval.ref>>
  <2> HIDE DEF truth
  <2> QED
    BY DEF GateInputs, truth
<1> HIDE DEF truth, binding, plan, compiled, semantic, semval
<1>6. /\ canon.ref = RefOf("CanonicalModel", c) /\ CleanModel(c, canon)
      /\ Latest("RelationshipDecision").ref = RefOf("RelationshipDecision", c)
  BY <1>3 DEF CleanSays, Referred
<1>7. /\ dataset.ref = RefOf("AnalyticalInputDataset", c) /\ dataset.rows = CleanRows(c)
      /\ dataset.canonical = RefOf("CanonicalModel", c)
  BY <1>3 DEF CleanSays, Referred
<1>8. /\ binding.ref = RefOf("AnalyticalInputBinding", c)
      /\ binding.canonical = RefOf("CanonicalModel", c)
      /\ binding.dataset = RefOf("AnalyticalInputDataset", c)
  BY <1>3 DEF CleanSays, Referred
<1>9. /\ plan.ref = RefOf("AnalyticalPlan", c) /\ plan.binding = RefOf("AnalyticalInputBinding", c)
  BY <1>3 DEF CleanSays, Referred
<1>10. /\ compiled.ref = RefOf("CompiledPlan", c) /\ compiled.plan = RefOf("AnalyticalPlan", c)
       /\ compiled.design = CleanDesign(c)
  BY <1>4 DEF CleanSays, Referred
<1>11. /\ mat.ref = RefOf("MaterializationArtifact", c) /\ mat.ok /\ mat.file = CleanTarget(c)
  BY <1>2 DEF CleanSays, Referred
<1>12. /\ semantic.ref = RefOf("SemanticModel", c) /\ semantic.plan = RefOf("AnalyticalPlan", c)
       /\ semantic.compiled = RefOf("CompiledPlan", c)
       /\ semantic.mat = RefOf("MaterializationArtifact", c) /\ semantic.measure = "qty"
  BY <1>2 DEF CleanSays, Referred
<1>13. semval.model = RefOf("SemanticModel", c) /\ semval.status = "PASS"
  BY <1>2 DEF CleanSays
<1>14. ArtifactBinding(x)
  BY <1>5, <1>6, <1>7, <1>8, <1>9, <1>10, <1>11, <1>12, <1>13 DEF ArtifactBinding
<1>15. target = CleanTarget(c)
  BY DEF CleanState
<1>16. CleanTarget(c).ok
  BY <1>7, CleanBuilt DEF CleanState
<1>17. x.target = CleanTarget(c)
  BY <1>5, <1>11, <1>15, <1>16 DEF ReadTarget
<1>18. /\ x.truth = Truth(c, x.dataset, x.canonical) /\ x.accounting = x.truth.expected
  BY <1>5 DEF truth, Accounting
<1>19. /\ canon.maps = {CleanMap(c, r) : r \in CleanRows(c)}
       /\ canon.instances = {TruthEntity(r) : r \in CleanRows(c)}
       /\ RefOf("RelationshipDecision", c) \in canon.relationships
  BY <1>6 DEF CleanModel
<1> QED
  BY <1>5, <1>6, <1>7, <1>10, <1>12, <1>13, <1>14, <1>17, <1>18, <1>19
     DEF CleanGate, CleanTarget, CleanDesign

LEMMA CleanValidation ==
  ASSUME NEW c, CleanState(c), at = 18
  PROVE  CleanResult(ValidationStage, c, 18)
<1> DEFINE dataset == Latest("AnalyticalInputDataset")
           canon == Latest("CanonicalModel")
           mat == Latest("MaterializationArtifact")
           x == GateInputs(Truth(c, dataset, canon), dataset, canon, mat)
<1>1. CleanSays(c, "AnalyticalInputDataset", dataset)
  BY CleanPlanned
<1>2. dataset.rows = CleanRows(c)
  BY <1>1 DEF CleanSays
<1>3. CleanTable(CleanRows(c))
  BY CleanRowsTable DEF CleanState
<1>4. ~\E r \in dataset.rows : r.cells.qty = Null
  BY <1>2, <1>3 DEF CleanTable, CleanInputRow
<1>5. Snapshot.snap = c
  BY CleanSnapshot
<1>6. CleanGate(x, CleanRows(c), c)
  BY CleanInputs
<1>7. ValidationStage = IF \E r \in dataset.rows : r.cells.qty = Null THEN Failing(<<>>)
                        ELSE Reported(c, mat, Gate(x))
  BY <1>5 DEF ValidationStage
<1> HIDE DEF dataset, mat, x
<1>8. Gate(x) = "PASS"
  BY <1>3, <1>6, CleanPasses
<1>9. ValidationStage = Reported(c, mat, "PASS")
  BY <1>4, <1>7, <1>8
<1> DEFINE a == Out("SourceTruthManifest", c, [snap |-> c])
           b == Out("RecordAccountingArtifact", c, [snap |-> c])
           d == Out("ValidationReport", <<c, "PASS">>, [snap |-> c, g6 |-> "PASS", mat |-> mat.ref])
           e == Out("ReconciliationResult", <<c, "PASS">>, [snap |-> c])
<1>10. Reported(c, mat, "PASS") = Done(<<a, b, d, e>>)
  BY DEF Reported
<1>11. /\ a.kind = "SourceTruthManifest" /\ b.kind = "RecordAccountingArtifact"
       /\ d.kind = "ValidationReport" /\ e.kind = "ReconciliationResult"
  BY OutKind
<1> HIDE DEF a, b, d, e
<1>12. CleanOutput(c, a) /\ CleanOutput(c, b) /\ CleanOutput(c, d) /\ CleanOutput(c, e)
  BY <1>11 DEF CleanOutput, CleanSays, Referred, Kinds
<1>13. /\ MadeAt(a.kind) = 18 /\ MadeAt(b.kind) = 18 /\ MadeAt(d.kind) = 18 /\ MadeAt(e.kind) = 18
       /\ \A k \in Kinds : MadeAt(k) = 18 => k \in {a.kind, b.kind, d.kind, e.kind}
  BY <1>11 DEF Kinds, MadeAt
<1>14. PICK outputs : outputs = <<a, b, d, e>>
  OBVIOUS
<1>15. CleanOutputs(c, 18, outputs)
  BY <1>12, <1>13, <1>14, OutputsFour
<1>16. ValidationStage = Done(outputs)
  BY <1>9, <1>10, <1>14
<1> QED
  BY <1>15, <1>16, CleanDone

-----------------------------------------------------------------------------
(* The steps.  The file is the snapshot as long as nothing goes wrong.      *)

CleanInv ==
    /\ faults \in Nat /\ file \in Contents \cup Faulty
    /\ faults = 0 /\ Clean(file) =>
          status = "SUCCEEDED" \/ (status = "READY" /\ CleanState(file))

LEMMA CleanInit ==
  ASSUME PipelineInit
  PROVE  CleanInv
<1>1. /\ at = 1 /\ attempt = 1 /\ status = "READY" /\ faults = 0 /\ file \in Contents
      /\ reviews = <<>> /\ \A k \in Kinds : art[k] = <<>>
  BY DEF PipelineInit
<1>2. \A k \in Kinds : MadeAt(k) \in 1 .. 18
  BY DEF MadeAt
<1>3. CleanArts(file, art, at)
  BY <1>1, <1>2 DEF CleanArts
<1>4. \A cp \in Checkpoints : PassedAt(cp) \in 7 .. 15
  BY DEF PassedAt
<1>5. IsList(<<>>) /\ DOMAIN <<>> = {}
  BY DEF IsList, ToSet
<1>6. CleanReviews(file, reviews, at)
  BY <1>1, <1>4, <1>5 DEF CleanReviews
<1> QED
  BY <1>1, <1>3, <1>6 DEF CleanInv, CleanState, CleanFile

LEMMA CleanHandlers ==
  ASSUME CleanState(file), Stage \notin Checkpoints
  PROVE  CleanResult(Handler(TRUE), file, at)
<1>1. at \in 1 .. 18
  BY DEF CleanState
<1>2. \/ at = 1 /\ Handler(TRUE) = SourceDiscovery
      \/ at = 2 /\ Handler(TRUE) = SourceSnapshot
      \/ at = 3 /\ Handler(TRUE) = Engine("ProfileResult", TRUE)
      \/ at = 4 /\ Handler(TRUE) = DependencyDiscovery
      \/ at = 5 /\ Handler(TRUE) = Engine("QualityResult", TRUE)
      \/ at = 6 /\ Handler(TRUE) = EvidenceFusion(TRUE)
      \/ at = 8 /\ Handler(TRUE) = CanonicalHypotheses
      \/ at = 9 /\ Handler(TRUE) = IdentityProposal
      \/ at = 11 /\ Handler(TRUE) = CanonicalFinalization
      \/ at = 12 /\ Handler(TRUE) = AnalyticalPlanning
      \/ at = 14 /\ Handler(TRUE) = Compilation
      \/ at = 16 /\ Handler(TRUE) = Materialization
      \/ at = 17 /\ Handler(TRUE) = SemanticModeling
      \/ at = 18 /\ Handler(TRUE) = ValidationStage
  BY <1>1, HandlerNames, Zenon
<1>3. CASE at = 1 /\ Handler(TRUE) = SourceDiscovery
  <2>1. CleanResult(SourceDiscovery, file, 1)
    BY <1>3, CleanDiscovery
  <2> QED
    BY <1>3, <2>1
<1>4. CASE at = 2 /\ Handler(TRUE) = SourceSnapshot
  <2>1. CleanResult(SourceSnapshot, file, 2)
    BY <1>4, CleanSnapshots
  <2> QED
    BY <1>4, <2>1
<1>5. CASE at = 3 /\ Handler(TRUE) = Engine("ProfileResult", TRUE)
  <2>1. CleanResult(Engine("ProfileResult", TRUE), file, at)
    BY <1>5, CleanEngines
  <2> QED
    BY <1>5, <2>1
<1>6. CASE at = 4 /\ Handler(TRUE) = DependencyDiscovery
  <2>1. CleanResult(DependencyDiscovery, file, 4)
    BY <1>6, CleanDependencies
  <2> QED
    BY <1>6, <2>1
<1>7. CASE at = 5 /\ Handler(TRUE) = Engine("QualityResult", TRUE)
  <2>1. CleanResult(Engine("QualityResult", TRUE), file, at)
    BY <1>7, CleanEngines
  <2> QED
    BY <1>7, <2>1
<1>8. CASE at = 6 /\ Handler(TRUE) = EvidenceFusion(TRUE)
  <2>1. CleanResult(EvidenceFusion(TRUE), file, 6)
    BY <1>8, CleanFusion
  <2> QED
    BY <1>8, <2>1
<1>9. CASE at = 8 /\ Handler(TRUE) = CanonicalHypotheses
  <2>1. CleanResult(CanonicalHypotheses, file, 8)
    BY <1>9, CleanHypotheses
  <2> QED
    BY <1>9, <2>1
<1>10. CASE at = 9 /\ Handler(TRUE) = IdentityProposal
  <2>1. CleanResult(IdentityProposal, file, 9)
    BY <1>10, CleanProposes
  <2> QED
    BY <1>10, <2>1
<1>11. CASE at = 11 /\ Handler(TRUE) = CanonicalFinalization
  <2>1. CleanResult(CanonicalFinalization, file, 11)
    BY <1>11, CleanFinalization
  <2> QED
    BY <1>11, <2>1
<1>12. CASE at = 12 /\ Handler(TRUE) = AnalyticalPlanning
  <2>1. CleanResult(AnalyticalPlanning, file, 12)
    BY <1>12, CleanPlanning
  <2> QED
    BY <1>12, <2>1
<1>13. CASE at = 14 /\ Handler(TRUE) = Compilation
  <2>1. CleanResult(Compilation, file, 14)
    BY <1>13, CleanCompilation
  <2> QED
    BY <1>13, <2>1
<1>14. CASE at = 16 /\ Handler(TRUE) = Materialization
  <2>1. CleanResult(Materialization, file, 16)
    BY <1>14, CleanMaterialization
  <2> QED
    BY <1>14, <2>1
<1>15. CASE at = 17 /\ Handler(TRUE) = SemanticModeling
  <2>1. CleanResult(SemanticModeling, file, 17)
    BY <1>15, CleanSemantics
  <2> QED
    BY <1>15, <2>1
<1>16. CASE at = 18 /\ Handler(TRUE) = ValidationStage
  <2>1. CleanResult(ValidationStage, file, 18)
    BY <1>16, CleanValidation
  <2> QED
    BY <1>16, <2>1
<1> QED
  BY <1>2, <1>3, <1>4, <1>5, <1>6, <1>7, <1>8, <1>9, <1>10, <1>11, <1>12, <1>13, <1>14, <1>15, <1>16, Zenon

LEMMA CleanExecute ==
  ASSUME CleanInv, NEW complete \in BOOLEAN, NEW first, Execute(complete, first)
  PROVE  CleanInv'
<1>1. /\ faults' \in Nat /\ file' = file /\ reviews' = reviews /\ status = "READY"
      /\ faults' = 0 => faults = 0 /\ complete = TRUE
  BY DEF CleanInv, Execute
<1>2. ASSUME faults' = 0, Clean(file)
      PROVE  status' = "SUCCEEDED" \/ (status' = "READY" /\ CleanState(file)')
  <2>1. CleanState(file) /\ Stage \notin Checkpoints /\ SettleStage(Handler(TRUE), first)
    BY <1>1, <1>2 DEF CleanInv, Execute
  <2>2. PICK h : h = Handler(TRUE)
    OBVIOUS
  <2>3. SettleStage(h, first) /\ CleanResult(h, file, at)
    <3>1. CleanResult(Handler(TRUE), file, at)
      BY <2>1, CleanHandlers
    <3> QED
      BY <2>1, <2>2, <3>1, Zenon
  <2>4. PICK accepted : accepted = Accepted(art, h.outputs)
    OBVIOUS
  <2>5. /\ art' = PublishAll(art, h.outputs, Cardinality(accepted), first)
        /\ target' = h.target
        /\ IF h.ok /\ accepted = DOMAIN h.outputs THEN Advance
           ELSE status' = "FAILED" /\ UNCHANGED <<at, attempt>>
    BY <2>3, <2>4 DEF SettleStage
  <2>6. h.ok /\ CleanOutputs(file, at, h.outputs)
        /\ h.target = IF at = 16 THEN CleanTarget(file) ELSE target
    BY <2>3 DEF CleanResult
  <2>7. at \in 1 .. 18 /\ CleanArts(file, art, at) /\ CleanReviews(file, reviews, at) /\ CleanFile(file)
        /\ (at > 16 => target = CleanTarget(file)) /\ attempt = 1
    BY <2>1 DEF CleanState
  <2>8. accepted = DOMAIN h.outputs /\ CleanArts(file, art', at + 1)
    BY <2>4, <2>5, <2>6, <2>7, CleanPublish
  <2>9. Advance
    BY <2>5, <2>6, <2>8
  <2>10. CASE at = 18
    BY <2>9, <2>10, StageNames DEF Advance
  <2>11. CASE at # 18
    <3>1. at' = at + 1 /\ attempt' = 1 /\ status' = "READY"
      BY <1>1, <2>9, <2>11, StageNames DEF Advance
    <3>2. at \notin {7, 10, 13, 15}
      BY <2>1, StageNames DEF Stage, Checkpoints
    <3>3. CleanReviews(file, reviews, at + 1)
      <4>1. \A cp \in Checkpoints : PassedAt(cp) < at + 1 <=> PassedAt(cp) < at
        BY <2>7, <3>2 DEF PassedAt
      <4> QED
        BY <2>7, <4>1 DEF CleanReviews
    <3>4. at + 1 > 16 => target' = CleanTarget(file)
      BY <2>5, <2>6, <2>7
    <3>5. at + 1 \in 1 .. 18
      BY <2>7, <2>11
    <3>6. CleanFile(file)' /\ (at \in 1 .. 18)' /\ (attempt = 1)'
      BY <1>1, <2>7, <3>1, <3>5 DEF CleanFile
    <3>7. CleanArts(file, art, at)'
      BY <1>1, <2>8, <3>1
    <3>8. CleanReviews(file, reviews, at)'
      BY <1>1, <3>1, <3>3
    <3>9. (at > 16 => target = CleanTarget(file))'
      BY <1>1, <3>1, <3>4
    <3> QED
      BY <3>1, <3>6, <3>7, <3>8, <3>9, <1>1 DEF CleanState
  <2> QED
    BY <2>10, <2>11
<1>3. file' \in Contents \cup Faulty
  BY <1>1 DEF CleanInv
<1>4. Clean(file') => Clean(file)
  BY <1>1
<1> QED
  BY <1>1, <1>2, <1>3, <1>4 DEF CleanInv

LEMMA CleanReviewSubject ==
  ASSUME NEW c, CleanState(c), Stage \in Checkpoints
  PROVE  ReviewSubject(Stage) = CleanSubject(c, Stage) /\ at = PassedAt(Stage)
<1>1. at \in 1 .. 18
  BY DEF CleanState
<1>2. \/ at = 7 /\ Stage = "EVIDENCE"
      \/ at = 10 /\ Stage = "IDENTITY"
      \/ at = 13 /\ Stage = "PLAN"
      \/ at = 15 /\ Stage = "MATERIALIZATION_PLAN"
  BY <1>1, StageNames DEF Stage, Checkpoints
<1>3. CASE at = 7 /\ Stage = "EVIDENCE"
  <2>1. "RelationshipDecision" \in Kinds /\ MadeAt("RelationshipDecision") = 6
    BY DEF Kinds, MadeAt
  <2>2. CleanSays(c, "RelationshipDecision", Latest("RelationshipDecision"))
    BY <1>3, <2>1, CleanLatest
  <2>3. Latest("RelationshipDecision").ref = RefOf("RelationshipDecision", c)
    BY <2>2 DEF CleanSays, Referred
  <2>4. ReviewSubject("EVIDENCE") = Latest("RelationshipDecision").ref
    BY Zenon DEF ReviewSubject
  <2> QED
    BY <1>3, <2>3, <2>4 DEF CleanSubject, PassedAt
<1>4. CASE at = 10 /\ Stage = "IDENTITY"
  <2>1. "CanonicalIdentityProposal" \in Kinds /\ MadeAt("CanonicalIdentityProposal") = 9
    BY DEF Kinds, MadeAt
  <2>2. CleanSays(c, "CanonicalIdentityProposal", Latest("CanonicalIdentityProposal"))
    BY <1>4, <2>1, CleanLatest
  <2>3. Latest("CanonicalIdentityProposal").p = CleanProposal(c)
    BY <2>2 DEF CleanSays
  <2>4. ReviewSubject("IDENTITY") = <<Latest("CanonicalIdentityProposal").p, <<>>>>
    BY Zenon DEF ReviewSubject
  <2> QED
    BY <1>4, <2>3, <2>4 DEF CleanSubject, PassedAt
<1>5. CASE at = 13 /\ Stage = "PLAN"
  <2>1. CleanSays(c, "AnalyticalPlan", Latest("AnalyticalPlan"))
    BY <1>5, CleanPlanned
  <2>2. Latest("AnalyticalPlan").ref = RefOf("AnalyticalPlan", c)
    BY <2>1 DEF CleanSays, Referred
  <2>3. ReviewSubject("PLAN") = Latest("AnalyticalPlan").ref
    BY Zenon DEF ReviewSubject
  <2> QED
    BY <1>5, <2>2, <2>3 DEF CleanSubject, PassedAt
<1>6. CASE at = 15 /\ Stage = "MATERIALIZATION_PLAN"
  <2>1. /\ CleanSays(c, "CompiledPlan", Latest("CompiledPlan"))
        /\ CleanSays(c, "GeneratedSQL", Latest("GeneratedSQL"))
    BY <1>6, CleanCompiled
  <2>2. /\ Latest("CompiledPlan").ref = RefOf("CompiledPlan", c)
        /\ Latest("GeneratedSQL").ref = RefOf("GeneratedSQL", c)
    BY <2>1 DEF CleanSays, Referred
  <2>3. ReviewSubject("MATERIALIZATION_PLAN") = <<Latest("CompiledPlan").ref, Latest("GeneratedSQL").ref>>
    BY Zenon DEF ReviewSubject
  <2> QED
    BY <1>6, <2>2, <2>3 DEF CleanSubject, PassedAt
<1> QED
  BY <1>2, <1>3, <1>4, <1>5, <1>6

\* One more review, of the checkpoint the run waits at.
LEMMA ReviewAdded ==
  ASSUME NEW c, NEW n \in 1 .. 18, NEW history, CleanReviews(c, history, n),
         NEW cp \in Checkpoints, n = PassedAt(cp),
         NEW new, new.checkpoint = cp, new.subject = CleanSubject(c, cp), new.decision = "ACCEPTED"
  PROVE  CleanReviews(c, Append(history, new), n + 1)
<1> DEFINE longer == Append(history, new)
           T == ToSet(history) \cup {new}
<1>1. history \in Seq(T) /\ Len(history) \in Nat /\ DOMAIN history = 1 .. Len(history)
  BY DEF CleanReviews, IsList
<1>2. /\ longer \in Seq(T) /\ Len(longer) = Len(history) + 1 /\ longer[Len(history) + 1] = new
      /\ \A i \in 1 .. Len(history) : longer[i] = history[i]
  BY <1>1
<1>3. DOMAIN longer = DOMAIN history \cup {Len(history) + 1} /\ Len(history) + 1 \notin DOMAIN history
  BY <1>1, <1>2
<1> HIDE DEF longer
<1>4. IsList(longer)
  <2>1. T \subseteq ToSet(longer)
    BY <1>1, <1>2, <1>3 DEF ToSet
  <2>2. longer \in Seq(ToSet(longer))
    BY <1>2, <2>1 DEF ToSet
  <2> QED
    BY <2>2 DEF IsList
<1>5. \A x \in Checkpoints : PassedAt(x) \in Nat /\ (PassedAt(x) = n => x = cp)
  BY DEF Checkpoints, PassedAt
<1>6. \A i \in DOMAIN history : history[i].checkpoint # cp
  BY DEF CleanReviews
<1>7. \A i \in DOMAIN longer : \/ i \in DOMAIN history /\ longer[i] = history[i]
                               \/ i = Len(history) + 1 /\ longer[i] = new
  BY <1>1, <1>2, <1>3
<1>8. \A i \in DOMAIN longer :
        /\ longer[i].checkpoint \in Checkpoints /\ PassedAt(longer[i].checkpoint) < n + 1
        /\ longer[i].subject = CleanSubject(c, longer[i].checkpoint)
        /\ longer[i].decision = "ACCEPTED"
  <2> SUFFICES ASSUME NEW i \in DOMAIN longer
               PROVE  /\ longer[i].checkpoint \in Checkpoints /\ PassedAt(longer[i].checkpoint) < n + 1
                      /\ longer[i].subject = CleanSubject(c, longer[i].checkpoint)
                      /\ longer[i].decision = "ACCEPTED"
    OBVIOUS
  <2>1. CASE i \in DOMAIN history /\ longer[i] = history[i]
    <3>1. /\ history[i].checkpoint \in Checkpoints /\ PassedAt(history[i].checkpoint) < n
          /\ history[i].subject = CleanSubject(c, history[i].checkpoint)
          /\ history[i].decision = "ACCEPTED"
      BY <2>1 DEF CleanReviews
    <3>2. PassedAt(history[i].checkpoint) \in Nat
      BY <1>5, <3>1
    <3> QED
      BY <2>1, <3>1, <3>2
  <2>2. CASE longer[i] = new
    BY <2>2
  <2> QED
    BY <1>7, <2>1, <2>2
<1>9. \A i, j \in DOMAIN longer : longer[i].checkpoint = longer[j].checkpoint => i = j
  <2>1. \A i, j \in DOMAIN history : history[i].checkpoint = history[j].checkpoint => i = j
    BY DEF CleanReviews
  <2> QED
    BY <1>6, <1>7, <2>1
<1>10. \A x \in Checkpoints : PassedAt(x) < n + 1 => \E i \in DOMAIN longer : longer[i].checkpoint = x
  <2> SUFFICES ASSUME NEW x \in Checkpoints, PassedAt(x) < n + 1
               PROVE  \E i \in DOMAIN longer : longer[i].checkpoint = x
    OBVIOUS
  <2>1. CASE x = cp
    BY <1>2, <1>3, <2>1
  <2>2. CASE x # cp
    <3>1. PassedAt(x) < n
      BY <1>5, <2>2
    <3>2. PICK i \in DOMAIN history : history[i].checkpoint = x
      BY <3>1 DEF CleanReviews
    <3> QED
      BY <1>1, <1>2, <1>3, <3>2
  <2> QED
    BY <2>1, <2>2
<1>11. CleanReviews(c, longer, n + 1)
  BY <1>4, <1>8, <1>9, <1>10 DEF CleanReviews
<1> QED
  BY <1>11 DEF longer

LEMMA CleanReviewKeeps ==
  ASSUME CleanInv, NEW verdict, Review(verdict)
  PROVE  CleanInv'
<1>1. /\ faults' \in Nat /\ file' = file /\ status = "READY" /\ status' = status
      /\ faults' = 0 => faults = 0 /\ verdict = "ACCEPTED"
  BY DEF CleanInv, Review
<1>2. ASSUME faults' = 0, Clean(file)
      PROVE  CleanState(file)'
  <2>1. CleanState(file) /\ Stage \in Checkpoints /\ verdict = "ACCEPTED"
    BY <1>1, <1>2 DEF CleanInv, Review
  <2>2. ReviewSubject(Stage) = CleanSubject(file, Stage) /\ at = PassedAt(Stage)
    BY <2>1, CleanReviewSubject
  <2>3. PICK new : new = [checkpoint |-> Stage, subject |-> ReviewSubject(Stage), decision |-> verdict]
    OBVIOUS
  <2>4. /\ reviews' = Append(reviews, new) /\ at' = at + 1
        /\ art' = art /\ attempt' = attempt /\ target' = target
    BY <2>1, <2>3 DEF Review
  <2>5. new.checkpoint = Stage /\ new.subject = CleanSubject(file, Stage) /\ new.decision = "ACCEPTED"
    BY <2>1, <2>2, <2>3
  <2>6. /\ at \in 1 .. 18 /\ CleanArts(file, art, at) /\ CleanReviews(file, reviews, at) /\ CleanFile(file)
        /\ (at > 16 => target = CleanTarget(file)) /\ attempt = 1
    BY <2>1 DEF CleanState
  <2>7. CleanReviews(file, Append(reviews, new), at + 1)
    BY <2>1, <2>2, <2>5, <2>6, ReviewAdded
  <2>8. at \in {7, 10, 13, 15}
    BY <2>2 DEF PassedAt
  <2>9. CleanArts(file, art, at + 1)
    <3>1. \A k \in Kinds : MadeAt(k) \in (1 .. 18) \ {7, 10, 13, 15}
      BY DEF MadeAt
    <3> SUFFICES ASSUME NEW k \in Kinds
                 PROVE  /\ at + 1 <= MadeAt(k) => art[k] = <<>>
                        /\ at + 1 > MadeAt(k) => art[k] = <<art[k][1]>> /\ CleanSays(file, k, art[k][1])
      BY DEF CleanArts
    <3>2. /\ at <= MadeAt(k) => art[k] = <<>>
          /\ at > MadeAt(k) => art[k] = <<art[k][1]>> /\ CleanSays(file, k, art[k][1])
      BY <2>6 DEF CleanArts
    <3> QED
      BY <2>8, <3>1, <3>2
  <2>10. CleanFile(file)' /\ (at \in 1 .. 18)' /\ (attempt = 1)'
    BY <1>1, <2>4, <2>6, <2>8 DEF CleanFile
  <2>11. CleanArts(file, art, at)'
    BY <1>1, <2>4, <2>9
  <2>12. CleanReviews(file, reviews, at)'
    BY <1>1, <2>4, <2>7
  <2>13. (at > 16 => target = CleanTarget(file))'
    BY <2>4, <2>8
  <2> QED
    BY <2>10, <2>11, <2>12, <2>13 DEF CleanState
<1>3. file' \in Contents \cup Faulty
  BY <1>1 DEF CleanInv
<1>4. Clean(file') => Clean(file)
  BY <1>1
<1> QED
  BY <1>1, <1>2, <1>3, <1>4 DEF CleanInv

\* A fault leaves the invariant nothing to say.
LEMMA CleanFaults ==
  ASSUME CleanInv,
         \/ \E upto \in 0 .. 4, first \in BOOLEAN : BreakOff(upto, first)
         \/ \E i \in DOMAIN reviews : Withdraw(i)
         \/ \E content \in Faulty : EditSource(content)
         \/ target.ok /\ \E f \in target.facts : EditTarget(f)
  PROVE  CleanInv'
<1>1. faults \in Nat /\ file \in Contents \cup Faulty
  BY DEF CleanInv
<1>2. faults' = faults + 1 /\ (file' = file \/ file' \in Faulty)
  BY DEF BreakOff, Withdraw, EditSource, EditTarget
<1>3. faults' \in Nat /\ faults' # 0 /\ file' \in Contents \cup Faulty
  BY <1>1, <1>2
<1> QED
  BY <1>3 DEF CleanInv

LEMMA CleanStep ==
  ASSUME CleanInv, [PipelineNext]_pipeVars
  PROVE  CleanInv'
<1>1. CASE \E complete, first \in BOOLEAN : Execute(complete, first)
  BY <1>1, CleanExecute
<1>2. CASE Resume
  <2>1. faults' = faults /\ file' = file /\ status = "FAILED"
    BY <1>2 DEF Resume
  <2>2. ~(faults = 0 /\ Clean(file))
    BY <2>1 DEF CleanInv
  <2>3. Clean(file') => Clean(file)
    BY <2>1
  <2> QED
    BY <2>1, <2>2, <2>3 DEF CleanInv
<1>3. CASE \E verdict \in {"ACCEPTED", "REJECTED"} : Review(verdict)
  BY <1>3, CleanReviewKeeps
<1>4. CASE UNCHANGED pipeVars
  <2>1. /\ file' = file /\ art' = art /\ at' = at /\ attempt' = attempt /\ status' = status
        /\ reviews' = reviews /\ target' = target /\ faults' = faults
    BY <1>4 DEF pipeVars
  <2>2. CleanState(file) => CleanState(file)'
    <3>1. CleanArts(file, art, at) => CleanArts(file, art, at)'
      BY <2>1
    <3>2. CleanReviews(file, reviews, at) => CleanReviews(file, reviews, at)'
      BY <2>1
    <3>3. CleanFile(file) => CleanFile(file)'
      BY <2>1
    <3>4. (at > 16 => target = CleanTarget(file)) => (at > 16 => target = CleanTarget(file))'
      BY <2>1
    <3> QED
      BY <2>1, <3>1, <3>2, <3>3, <3>4 DEF CleanState
  <2>3. Clean(file') => Clean(file)
    BY <2>1
  <2> QED
    BY <2>1, <2>2, <2>3 DEF CleanInv
<1> QED
  BY <1>1, <1>2, <1>3, <1>4, CleanFaults DEF PipelineNext

\* A file whose cells are all there and parse, whose orders are unique and
\* whose amounts fit the column gets through every stage and the gate when
\* nothing fails: no handler, compiler or check of a clean run refuses it, for
\* any file of finitely many records (product_runtime, ValidationService.validate).
THEOREM CleanRuns ==
  PipelineSpec => []CleanRunPasses
<1>1. PipelineInit => CleanInv
  BY CleanInit
<1>2. CleanInv /\ [PipelineNext]_pipeVars => CleanInv'
  BY CleanStep
<1>3. CleanInv => CleanRunPasses
  BY DEF CleanInv, CleanRunPasses
<1> QED
  BY <1>1, <1>2, <1>3, PTL DEF PipelineSpec
=============================================================================
