-------------------------- MODULE SourceRows_proofs --------------------------
(***************************************************************************)
(* The rows of a source, read and divided, for data of any size.            *)
(*                                                                          *)
(* Snapshots: for every file, every extraction policy and every sequence of *)
(* imports, discoveries, attempts, crashes and faults, what a returned      *)
(* snapshot holds (SnapshotFaithful).  The first half is about one pass over *)
(* one file: which rows are visible, how they are cut into batches, what    *)
(* the batches hold put together, and which references they give out.  The  *)
(* second half is about the two fingerprints around the pass while other    *)
(* imports replace the file.                                                *)
(*                                                                          *)
(* Partitions: for every dataset, policy, number of partitions, order of    *)
(* completion, failure and left-over result, a merge that is accepted       *)
(* equals one pass over the undivided dataset, and a merge that is refused  *)
(* has a reason (MergeCorrect).                                             *)
(***************************************************************************)
EXTENDS SourceSnapshots, PartitionedScale, DataInduction, SequenceTheorems

-----------------------------------------------------------------------------
(* One pass over one file.                                                 *)

\* The filled rows among the first n, and how `ordinals' lists them: all of
\* them, upwards, the k-th being the one with k filled rows up to it.
FilledUpTo(kind, version, n) == {i \in Filled(kind, version) : i <= n}
Lists(ordinals, kind, version, n) ==
    /\ ordinals \in Seq(Nat)
    /\ Len(ordinals) = Cardinality(FilledUpTo(kind, version, n))
    /\ \A k \in 1 .. Len(ordinals) :
          ordinals[k] \in FilledUpTo(kind, version, n) /\ RankIn(Filled(kind, version), ordinals[k]) = k
    /\ \A k \in 1 .. Len(ordinals) - 1 : ordinals[k] < ordinals[k + 1]
    /\ \A i \in FilledUpTo(kind, version, n) : \E k \in 1 .. Len(ordinals) : ordinals[k] = i

\* A version of a file is rows in a sequence.
IsVersion(version) == version.rows \in Seq(Range(version.rows))

LEMMA FilledFinite ==
    ASSUME NEW kind, NEW version, IsVersion(version), NEW n \in Nat
    PROVE  /\ Filled(kind, version) \subseteq 1 .. Len(version.rows)
           /\ FilledUpTo(kind, version, n) \subseteq Filled(kind, version)
           /\ IsFiniteSet(Filled(kind, version)) /\ IsFiniteSet(FilledUpTo(kind, version, n))
           /\ Cardinality(FilledUpTo(kind, version, n)) \in Nat
  <1>1. Filled(kind, version) \subseteq 1 .. Len(version.rows) /\ Len(version.rows) \in Nat
    BY DEF Filled, IsVersion
  <1>2. FilledUpTo(kind, version, n) \subseteq Filled(kind, version)
    BY DEF FilledUpTo
  <1>3. IsFiniteSet(1 .. Len(version.rows))
    BY <1>1, FS_Interval
  <1>4. IsFiniteSet(Filled(kind, version))
    BY <1>1, <1>3, FS_Subset
  <1>5. IsFiniteSet(FilledUpTo(kind, version, n))
    BY <1>2, <1>4, FS_Subset
  <1>6. QED
    BY <1>1, <1>2, <1>4, <1>5, FS_CardinalityType

LEMMA ListsNone ==
    ASSUME NEW kind, NEW version, IsVersion(version)
    PROVE  Lists(<<>>, kind, version, 0)
  <1>1. FilledUpTo(kind, version, 0) = {}
    <2>1. \A i \in Filled(kind, version) : i \in 1 .. Len(version.rows)
      BY FilledFinite, 0 \in Nat
    <2>2. QED
      BY <2>1 DEF FilledUpTo
  <1>2. Cardinality(FilledUpTo(kind, version, 0)) = 0
    BY <1>1, FS_EmptySet
  <1>3. <<>> \in Seq(Nat) /\ Len(<<>>) = 0
    OBVIOUS
  <1>4. QED
    BY <1>1, <1>2, <1>3 DEF Lists

LEMMA ListsSkip ==
    ASSUME NEW kind, NEW version, IsVersion(version), NEW n \in 1 .. Len(version.rows),
           NEW s, Lists(s, kind, version, n - 1), Skipped(kind, version.rows[n])
    PROVE  Lists(s, kind, version, n)
  <1>1. FilledUpTo(kind, version, n) = FilledUpTo(kind, version, n - 1)
    <2>1. n \notin Filled(kind, version) /\ Filled(kind, version) \subseteq Nat
      BY FilledFinite, 0 \in Nat DEF Filled
    <2>2. \A i \in Filled(kind, version) : i <= n <=> i <= n - 1
      BY <2>1
    <2>3. QED
      BY <2>2 DEF FilledUpTo
  <1>2. QED
    BY <1>1 DEF Lists

LEMMA ListsTake ==
    ASSUME NEW kind, NEW version, IsVersion(version), NEW n \in 1 .. Len(version.rows),
           NEW s, Lists(s, kind, version, n - 1), ~Skipped(kind, version.rows[n])
    PROVE  Lists(Append(s, n), kind, version, n)
  <1> DEFINE t == Append(s, n)
             before == FilledUpTo(kind, version, n - 1)
             now == FilledUpTo(kind, version, n)
  <1>0. n \in Nat /\ n - 1 \in Nat /\ n \in DOMAIN version.rows
    BY DEF IsVersion
  <1>1. n \in Filled(kind, version) /\ Filled(kind, version) \subseteq Nat
    BY <1>0, FilledFinite DEF Filled
  <1>2. now = before \cup {n} /\ n \notin before /\ \A i \in before : i < n
    <2>1. \A i \in Filled(kind, version) : i <= n <=> (i <= n - 1 \/ i = n)
      BY <1>0, <1>1
    <2>2. QED
      BY <1>0, <1>1, <2>1 DEF FilledUpTo
  <1>3. IsFiniteSet(before) /\ Cardinality(before) \in Nat
    BY <1>0, FilledFinite
  <1>4. Cardinality(now) = Cardinality(before) + 1
    BY <1>2, <1>3, FS_AddElement
  <1>5. s \in Seq(Nat) /\ Len(s) = Cardinality(before)
    BY DEF Lists
  <1>6. t \in Seq(Nat) /\ Len(t) = Len(s) + 1 /\ t[Len(s) + 1] = n /\ \A k \in 1 .. Len(s) : t[k] = s[k]
    BY <1>0, <1>5
  <1>7. RankIn(Filled(kind, version), n) = Cardinality(now)
    BY DEF RankIn, FilledUpTo
  <1>8. \A k \in 1 .. Len(s) : s[k] \in before /\ RankIn(Filled(kind, version), s[k]) = k
    BY DEF Lists
  <1>9. \A k \in 1 .. Len(s) - 1 : s[k] < s[k + 1]
    BY DEF Lists
  <1>10. \A i \in before : \E k \in 1 .. Len(s) : s[k] = i
    BY DEF Lists
  <1> HIDE DEF t, before, now
  <1>11. \A k \in 1 .. Len(t) : t[k] \in now /\ RankIn(Filled(kind, version), t[k]) = k
    <2> SUFFICES ASSUME NEW k \in 1 .. Len(t)
                 PROVE  t[k] \in now /\ RankIn(Filled(kind, version), t[k]) = k
      OBVIOUS
    <2>1. CASE k \in 1 .. Len(s)
      BY <1>2, <1>6, <1>8, <2>1
    <2>2. CASE k = Len(s) + 1
      BY <1>2, <1>4, <1>5, <1>6, <1>7, <2>2
    <2>3. QED
      BY <1>5, <1>6, <2>1, <2>2
  <1>12. \A k \in 1 .. Len(t) - 1 : t[k] < t[k + 1]
    <2> SUFFICES ASSUME NEW k \in 1 .. Len(t) - 1 PROVE t[k] < t[k + 1]
      OBVIOUS
    <2>1. CASE k \in 1 .. Len(s) - 1
      <3>1. k \in 1 .. Len(s) /\ k + 1 \in 1 .. Len(s)
        BY <1>5, <2>1
      <3>2. QED
        BY <1>6, <1>9, <2>1, <3>1
    <2>2. CASE k = Len(s)
      <3>1. k \in 1 .. Len(s)
        BY <1>5, <2>2
      <3>2. QED
        BY <1>2, <1>6, <1>8, <2>2, <3>1
    <2>3. QED
      BY <1>5, <1>6, <2>1, <2>2
  <1>13. \A i \in now : \E k \in 1 .. Len(t) : t[k] = i
    <2> SUFFICES ASSUME NEW i \in now PROVE \E k \in 1 .. Len(t) : t[k] = i
      OBVIOUS
    <2>1. CASE i = n
      <3>1. Len(t) \in 1 .. Len(t) /\ t[Len(t)] = i
        BY <1>5, <1>6, <2>1
      <3>2. QED
        BY <3>1
    <2>2. CASE i \in before
      <3>1. PICK k \in 1 .. Len(s) : s[k] = i
        BY <1>10, <2>2
      <3>2. k \in 1 .. Len(t) /\ t[k] = i
        BY <1>5, <1>6, <3>1
      <3>3. QED
        BY <3>2
    <2>3. QED
      BY <1>2, <2>1, <2>2
  <1>14. Len(t) = Cardinality(now)
    BY <1>4, <1>5, <1>6
  <1>15. QED
    BY <1>6, <1>11, <1>12, <1>13, <1>14 DEF t, now, Lists

\* The recursion of Visible defines something.
IsUpTo(f, kind, version) ==
    f = [n \in 0 .. Len(version.rows) |->
            IF n = 0 THEN <<>>
            ELSE IF Skipped(kind, version.rows[n]) THEN f[n - 1] ELSE Append(f[n - 1], n)]

LEMMA UpToExists ==
    ASSUME NEW kind, NEW version, IsVersion(version)
    PROVE  \E f : IsUpTo(f, kind, version)
  <1> DEFINE N == Len(version.rows)
             next == [n \in 1 .. N |-> [s \in Seq(Nat) |-> IF Skipped(kind, version.rows[n]) THEN s ELSE Append(s, n)]]
  <1>1. N \in Nat
    BY DEF IsVersion
  <1>2. next \in [1 .. N -> [Seq(Nat) -> Seq(Nat)]]
    <2>1. \A n \in 1 .. N : \A s \in Seq(Nat) : Append(s, n) \in Seq(Nat)
      BY <1>1
    <2>2. QED
      BY <2>1
  <1>3. \A n \in 1 .. N, s \in Seq(Nat) : next[n][s] = IF Skipped(kind, version.rows[n]) THEN s ELSE Append(s, n)
    OBVIOUS
  <1>4. <<>> \in Seq(Nat)
    OBVIOUS
  <1> HIDE DEF next, N
  <1>5. PICK f : IsBuilt(f, Seq(Nat), <<>>, next, N)
    BY <1>1, <1>2, <1>4, BuildExists
  <1>6. f \in [0 .. N -> Seq(Nat)] /\ f[0] = <<>> /\ \A n \in 1 .. N : f[n] = next[n][f[n - 1]]
    BY <1>5 DEF IsBuilt
  <1>7. \A n \in 1 .. N : n - 1 \in 0 .. N
    BY <1>1
  <1>8. \A n \in 1 .. N : f[n] = IF Skipped(kind, version.rows[n]) THEN f[n - 1] ELSE Append(f[n - 1], n)
    BY <1>3, <1>6, <1>7
  <1>9. \A n \in 0 .. N : n # 0 => n \in 1 .. N
    BY <1>1
  <1>10. \A n \in 0 .. N : f[n] = IF n = 0 THEN <<>>
            ELSE IF Skipped(kind, version.rows[n]) THEN f[n - 1] ELSE Append(f[n - 1], n)
    BY <1>6, <1>8, <1>9
  <1>11. f = [n \in 0 .. N |-> f[n]]
    BY <1>6
  <1>12. IsUpTo(f, kind, version)
    BY <1>10, <1>11 DEF IsUpTo, N
  <1>13. QED
    BY <1>12

\* _rows yields every row with something in it, in the order of the file.
LEMMA VisibleLists ==
    ASSUME NEW kind, NEW version, IsVersion(version)
    PROVE  Lists(Visible(kind, version), kind, version, Len(version.rows))
  <1> DEFINE N == Len(version.rows)
             f == CHOOSE g : IsUpTo(g, kind, version)
             Bad == {n \in 0 .. N : ~Lists(f[n], kind, version, n)}
  <1>1. N \in Nat
    BY DEF IsVersion
  <1>2. Visible(kind, version) = f[N]
    BY DEF Visible, IsUpTo
  <1>3. IsUpTo(f, kind, version)
    BY UpToExists, Zenon
  <1> HIDE DEF f
  <1>4. \A n \in 0 .. N : f[n] = IF n = 0 THEN <<>>
            ELSE IF Skipped(kind, version.rows[n]) THEN f[n - 1] ELSE Append(f[n - 1], n)
    BY <1>3 DEF IsUpTo
  <1>5. ASSUME Bad # {} PROVE FALSE
    <2>1. PICK m \in Bad : \A n \in Bad : m <= n
      <3>1. Bad \in SUBSET Nat
        OBVIOUS
      <3>2. QED
        BY <1>5, <3>1, LeastNatural
    <2>2. CASE m = 0
      <3>1. f[m] = <<>>
        BY <1>1, <1>4, <2>2
      <3>2. QED
        BY <2>1, <2>2, <3>1, ListsNone
    <2>3. CASE m # 0
      <3>1. m \in 1 .. N /\ m - 1 \in 0 .. N /\ m - 1 \notin Bad
        BY <2>1, <2>3
      <3>2. Lists(f[m - 1], kind, version, m - 1)
        BY <3>1
      <3>3. f[m] = IF Skipped(kind, version.rows[m]) THEN f[m - 1] ELSE Append(f[m - 1], m)
        BY <1>4, <2>3, <3>1
      <3>4. Lists(f[m], kind, version, m)
        BY <3>1, <3>2, <3>3, ListsSkip, ListsTake
      <3>5. QED
        BY <2>1, <3>4
    <2>4. QED
      BY <2>2, <2>3
  <1>6. QED
    BY <1>1, <1>2, <1>5

\* The smaller of two naturals.
LEMMA MinOfTwo ==
    ASSUME NEW a \in Nat, NEW b \in Nat
    PROVE  Min({a, b}) = IF b <= a THEN b ELSE a
  <1>1. \E x \in {a, b} : \A y \in {a, b} : x <= y
    OBVIOUS
  <1> DEFINE m == CHOOSE x \in {a, b} : \A y \in {a, b} : x <= y
  <1>2. m \in {a, b} /\ \A y \in {a, b} : m <= y
    BY <1>1, Zenon
  <1>3. Min({a, b}) = m
    BY DEF Min
  <1> HIDE DEF m
  <1>4. QED
    BY <1>2, <1>3

\* The number of rows of an extraction that meets no malformed one.
LEMMA ObservedCount ==
    ASSUME NEW kind, NEW version, IsVersion(version),
           NEW policy, policy.max \in Nat, FailsAt(kind, version, policy) = {}
    PROVE  /\ Observed(kind, version, policy) \in 0 .. Len(Visible(kind, version))
           /\ Observed(kind, version, policy)
                 = IF policy.max = 0 \/ Len(Visible(kind, version)) <= policy.max
                   THEN Len(Visible(kind, version)) ELSE policy.max
  <1> DEFINE all == Len(Visible(kind, version))
  <1>1. all \in Nat
    BY VisibleLists DEF Lists
  <1>2. Observed(kind, version, policy) = IF policy.max = 0 THEN all ELSE Min({policy.max, all})
    BY DEF Observed, Reach
  <1> HIDE DEF all
  <1>3. Min({policy.max, all}) = IF all <= policy.max THEN all ELSE policy.max
    BY <1>1, MinOfTwo
  <1>4. Observed(kind, version, policy) = IF policy.max = 0 \/ all <= policy.max THEN all ELSE policy.max
    BY <1>2, <1>3
  <1>5. Observed(kind, version, policy) \in 0 .. all
    BY <1>1, <1>4
  <1>6. QED
    BY <1>4, <1>5 DEF all

-----------------------------------------------------------------------------
(* Batches.                                                                *)

LEMMA DivMod ==
    ASSUME NEW n \in Nat, NEW c \in Nat \ {0}
    PROVE  n \div c \in Nat /\ n % c \in 0 .. c - 1 /\ n = (n \div c) * c + (n % c)
  OBVIOUS

LEMMA TimesNext ==
    ASSUME NEW b \in Int, NEW c \in Nat \ {0}
    PROVE  b * c \in Int /\ b * c = (b - 1) * c + c /\ (b - 1) * c < b * c
  OBVIOUS

LEMMA TimesMonotone ==
    ASSUME NEW a \in Nat, NEW b \in Nat, a <= b, NEW c \in Nat \ {0}
    PROVE  a * c \in Nat /\ b * c \in Nat /\ a * c <= b * c
  OBVIOUS

\* A sequence with one more entry.
LEMMA AppendOne ==
    ASSUME NEW k \in Nat, NEW f, f = [i \in 1 .. k |-> f[i]], NEW x
    PROVE  /\ Len(f) = k /\ Len(Append(f, x)) = k + 1
           /\ Append(f, x) = [i \in 1 .. k + 1 |-> Append(f, x)[i]]
           /\ \A i \in 1 .. k : Append(f, x)[i] = f[i]
           /\ Append(f, x)[k + 1] = x
  <1> DEFINE S == {f[i] : i \in 1 .. k} \cup {x}
  <1>1. f \in [1 .. k -> S] /\ x \in S
    OBVIOUS
  <1> HIDE DEF S
  <1>2. f \in Seq(S)
    BY <1>1
  <1>3. Len(f) = k
    BY <1>1, <1>2
  <1>4. QED
    BY <1>1, <1>2, <1>3

\* cut[b] is the number of rows in the first b batches.
IsCut(cut, batches, kind, version, n) ==
    /\ Len(batches) \in Nat /\ batches = [b \in 1 .. Len(batches) |-> batches[b]]
    /\ cut \in [0 .. Len(batches) -> 0 .. n] /\ cut[0] = 0 /\ cut[Len(batches)] = n
    /\ \A b \in 1 .. Len(batches) :
          cut[b - 1] < cut[b] /\ batches[b] = Batch(kind, version, cut[b - 1] + 1, cut[b] - cut[b - 1], b - 1)

\* A batch is staged when chunk_size rows are pending, and what is pending
\* after the last row is staged too.
LEMMA BatchesCut ==
    ASSUME NEW kind, NEW version, IsVersion(version),
           NEW policy, policy.chunk \in Nat \ {0}, policy.max \in Nat, FailsAt(kind, version, policy) = {}
    PROVE  \E cut : IsCut(cut, Batches(kind, version, policy), kind, version, Observed(kind, version, policy))
  <1> DEFINE n == Observed(kind, version, policy)
             c == policy.chunk
             whole == n \div c
             rest == n % c
             full == [b \in 1 .. whole |-> Batch(kind, version, (b - 1) * c + 1, c, b - 1)]
             last == Batch(kind, version, whole * c + 1, rest, whole)
             all == Batches(kind, version, policy)
  <1>1. n \in Nat /\ c \in Nat \ {0}
    <2>1. Len(Visible(kind, version)) \in Nat
      BY VisibleLists DEF Lists
    <2>2. n \in 0 .. Len(Visible(kind, version))
      BY ObservedCount
    <2>3. QED
      BY <2>1, <2>2
  <1>2. whole \in Nat /\ rest \in 0 .. c - 1 /\ n = whole * c + rest
    <2> HIDE DEF n, c
    <2>1. QED
      BY <1>1, DivMod
  <1>3. all = IF rest = 0 THEN full ELSE Append(full, last)
    BY DEF Batches
  <1>4. full = [b \in 1 .. whole |-> full[b]]
    OBVIOUS
  <1>5. \A b \in 1 .. whole : full[b] = Batch(kind, version, (b - 1) * c + 1, c, b - 1)
    OBVIOUS
  <1> HIDE DEF n, c, whole, rest, full, all
  <1>6. whole * c \in Nat
    BY <1>1, <1>2, TimesMonotone
  <1>7. \A b \in 0 .. whole : b * c \in 0 .. n
    <2> SUFFICES ASSUME NEW b \in 0 .. whole PROVE b * c \in 0 .. n
      OBVIOUS
    <2>1. b * c \in Nat /\ b * c <= whole * c
      BY <1>1, <1>2, TimesMonotone
    <2>2. QED
      BY <1>1, <1>2, <1>6, <2>1
  <1>8. \A b \in 1 .. whole : (b - 1) * c < b * c /\ b * c - (b - 1) * c = c
    <2> SUFFICES ASSUME NEW b \in 1 .. whole PROVE (b - 1) * c < b * c /\ b * c - (b - 1) * c = c
      OBVIOUS
    <2>1. b \in Int /\ b - 1 \in 0 .. whole
      BY <1>2
    <2>2. b * c = (b - 1) * c + c /\ (b - 1) * c < b * c
      BY <1>1, <2>1, TimesNext
    <2>3. b * c \in Int /\ (b - 1) * c \in Int
      BY <1>7, <2>1
    <2>4. QED
      BY <1>1, <2>2, <2>3
  <1>9. 0 * c = 0
    BY <1>1
  <1>10. CASE rest = 0
    <2> DEFINE cut == [b \in 0 .. whole |-> b * c]
    <2>1. all = full /\ Len(all) = whole /\ whole * c = n
      BY <1>2, <1>3, <1>4, <1>6, <1>10, AppendOne
    <2>2. cut \in [0 .. whole -> 0 .. n]
      BY <1>7
    <2>3. cut[0] = 0 /\ cut[whole] = n
      BY <1>2, <1>9, <2>1
    <2>4. ASSUME NEW b \in 1 .. whole
          PROVE  cut[b - 1] < cut[b] /\ all[b] = Batch(kind, version, cut[b - 1] + 1, cut[b] - cut[b - 1], b - 1)
      <3>1. cut[b] = b * c /\ cut[b - 1] = (b - 1) * c
        BY <1>2
      <3> HIDE DEF cut
      <3>2. cut[b - 1] < cut[b] /\ cut[b] - cut[b - 1] = c
        BY <1>8, <3>1
      <3>3. all[b] = Batch(kind, version, cut[b - 1] + 1, c, b - 1)
        BY <1>5, <2>1, <3>1
      <3>4. QED
        BY <3>2, <3>3
    <2> HIDE DEF cut
    <2>5. IsCut(cut, all, kind, version, n)
      BY <1>2, <1>4, <2>1, <2>2, <2>3, <2>4 DEF IsCut
    <2>6. QED
      BY <2>5 DEF all, n
  <1>11. CASE rest # 0
    <2> DEFINE cut == [b \in 0 .. whole + 1 |-> IF b = whole + 1 THEN n ELSE b * c]
    <2>1. /\ Len(all) = whole + 1 /\ all = [b \in 1 .. whole + 1 |-> all[b]]
          /\ all[whole + 1] = last /\ \A b \in 1 .. whole : all[b] = full[b]
      <3> HIDE DEF last
      <3>1. all = Append(full, last)
        BY <1>3, <1>11
      <3>2. QED
        BY <1>2, <1>4, <3>1, AppendOne
    <2>2. \A b \in 0 .. whole : cut[b] = b * c
      BY <1>2
    <2>3. cut[whole + 1] = n
      BY <1>2
    <2>4. DOMAIN cut = 0 .. whole + 1 /\ cut = [b \in 0 .. whole + 1 |-> cut[b]]
      OBVIOUS
    <2> HIDE DEF cut
    <2>5. cut[0] = 0 /\ cut[whole] = whole * c
      BY <1>2, <1>9, <2>2
    <2>6. \A b \in 0 .. whole + 1 : cut[b] \in 0 .. n
      <3>1. \A b \in 0 .. whole + 1 : b \in 0 .. whole \/ b = whole + 1
        BY <1>2
      <3>2. n \in 0 .. n
        BY <1>1
      <3>3. QED
        BY <1>7, <2>2, <2>3, <3>1, <3>2
    <2>7. cut \in [0 .. whole + 1 -> 0 .. n]
      BY <2>4, <2>6
    <2>8. ASSUME NEW b \in 1 .. whole + 1
          PROVE  cut[b - 1] < cut[b] /\ all[b] = Batch(kind, version, cut[b - 1] + 1, cut[b] - cut[b - 1], b - 1)
      <3>1. CASE b \in 1 .. whole
        <4>1. cut[b] = b * c /\ cut[b - 1] = (b - 1) * c
          BY <1>2, <2>2, <3>1
        <4>2. cut[b - 1] < cut[b] /\ cut[b] - cut[b - 1] = c
          BY <1>8, <3>1, <4>1
        <4>3. all[b] = Batch(kind, version, cut[b - 1] + 1, c, b - 1)
          BY <1>5, <2>1, <3>1, <4>1
        <4>4. QED
          BY <4>2, <4>3
      <3>2. CASE b = whole + 1
        <4>1. b - 1 = whole /\ cut[b - 1] = whole * c /\ cut[b] = n
          BY <1>2, <2>3, <2>5, <3>2
        <4>2. cut[b - 1] < cut[b] /\ cut[b] - cut[b - 1] = rest
          BY <1>1, <1>2, <1>6, <1>11, <4>1
        <4>3. all[b] = Batch(kind, version, cut[b - 1] + 1, rest, b - 1)
          BY <2>1, <3>2, <4>1
        <4>4. QED
          BY <4>2, <4>3
      <3>3. QED
        BY <1>2, <3>1, <3>2
    <2>9. IsCut(cut, all, kind, version, n)
      BY <1>2, <2>1, <2>3, <2>5, <2>7, <2>8 DEF IsCut
    <2>10. QED
      BY <2>9 DEF all, n
  <1>12. QED
    BY <1>10, <1>11

-----------------------------------------------------------------------------
(* What the batches hold, put together.                                    *)

IsFlat(f, seqs) ==
    f = [i \in 1 .. Len(seqs) |-> IF i = 1 THEN seqs[i] ELSE f[i - 1] \o seqs[i]]

\* The recursion of FlattenSeq defines something.
LEMMA FlatExists ==
    ASSUME NEW S, NEW seqs \in Seq(Seq(S))
    PROVE  \E f : IsFlat(f, seqs)
  <1> DEFINE N == Len(seqs)
             next == [n \in 1 .. N |-> [s \in Seq(S) |-> s \o seqs[n]]]
  <1>1. N \in Nat /\ \A n \in 1 .. N : seqs[n] \in Seq(S)
    OBVIOUS
  <1>2. next \in [1 .. N -> [Seq(S) -> Seq(S)]]
    <2>1. \A n \in 1 .. N : \A s \in Seq(S) : s \o seqs[n] \in Seq(S)
      BY <1>1
    <2>2. QED
      BY <2>1
  <1>3. \A n \in 1 .. N, s \in Seq(S) : next[n][s] = s \o seqs[n]
    OBVIOUS
  <1>4. <<>> \in Seq(S)
    OBVIOUS
  <1> HIDE DEF next, N
  <1>5. PICK g : IsBuilt(g, Seq(S), <<>>, next, N)
    BY <1>1, <1>2, <1>4, BuildExists
  <1>6. g \in [0 .. N -> Seq(S)] /\ g[0] = <<>> /\ \A n \in 1 .. N : g[n] = next[n][g[n - 1]]
    BY <1>5 DEF IsBuilt
  <1>7. \A n \in 1 .. N : n - 1 \in 0 .. N /\ (n # 1 => n - 1 \in 1 .. N)
    BY <1>1
  <1>8. \A n \in 1 .. N : g[n] = g[n - 1] \o seqs[n]
    BY <1>3, <1>6, <1>7
  <1>9. \A n \in 1 .. N : n = 1 => g[n] = seqs[n]
    <2> SUFFICES ASSUME NEW n \in 1 .. N, n = 1 PROVE g[n] = seqs[n]
      OBVIOUS
    <2>0. n - 1 = 0
      OBVIOUS
    <2>1. g[n] = <<>> \o seqs[n]
      BY <1>6, <1>8, <2>0, Zenon
    <2>2. seqs[n] \in Seq(S)
      BY <1>1
    <2>3. <<>> \o seqs[n] = seqs[n]
      BY <2>2, ConcatEmptySeq
    <2>4. QED
      BY <2>1, <2>3
  <1> DEFINE f == [n \in 1 .. N |-> g[n]]
  <1>10. \A n \in 1 .. N : f[n] = g[n]
    OBVIOUS
  <1>11. f = [n \in 1 .. N |-> f[n]]
    OBVIOUS
  <1> HIDE DEF f
  <1>12. \A n \in 1 .. N : f[n] = IF n = 1 THEN seqs[n] ELSE f[n - 1] \o seqs[n]
    BY <1>7, <1>8, <1>9, <1>10
  <1>13. IsFlat(f, seqs)
    BY <1>11, <1>12 DEF IsFlat, N
  <1>14. QED
    BY <1>13

\* The piece of `whole' after the first `lo' elements, up to element `hi'.
IsPiece(s, whole, lo, hi) ==
    Len(s) = hi - lo /\ \A k \in 1 .. hi - lo : s[k] = whole[lo + k]

LEMMA PiecesJoin ==
    ASSUME NEW S, NEW whole \in Seq(S), NEW s \in Seq(S), NEW t \in Seq(S),
           NEW lo \in Nat, NEW hi \in Nat, lo <= hi, hi <= Len(whole),
           IsPiece(s, whole, 0, lo), IsPiece(t, whole, lo, hi)
    PROVE  IsPiece(s \o t, whole, 0, hi)
  <1>1. Len(s) = lo /\ Len(t) = hi - lo
    BY DEF IsPiece
  <1>2. Len(s \o t) = hi
    BY <1>1
  <1>3. ASSUME NEW k \in 1 .. hi PROVE (s \o t)[k] = whole[0 + k]
    <2>1. CASE k <= lo
      <3>1. k \in 1 .. Len(s) /\ k \in 1 .. lo - 0
        BY <1>1, <2>1
      <3>2. (s \o t)[k] = s[k]
        BY <3>1
      <3>3. s[k] = whole[0 + k]
        BY <3>1 DEF IsPiece
      <3>4. QED
        BY <3>2, <3>3
    <2>2. CASE ~(k <= lo)
      <3>1. k - lo \in 1 .. hi - lo /\ lo + (k - lo) = 0 + k
        BY <2>2
      <3>2. (s \o t)[k] = t[k - lo]
        BY <1>1, <2>2
      <3>3. t[k - lo] = whole[lo + (k - lo)]
        BY <3>1 DEF IsPiece
      <3>4. QED
        BY <3>1, <3>2, <3>3
    <2>3. QED
      BY <2>1, <2>2
  <1>4. QED
    BY <1>2, <1>3 DEF IsPiece

\* A sequence cut into pieces is its pieces put together.
LEMMA FlattenPieces ==
    ASSUME NEW S, NEW whole \in Seq(S), NEW seqs \in Seq(Seq(S)),
           NEW cut \in [0 .. Len(seqs) -> 0 .. Len(whole)], cut[0] = 0, cut[Len(seqs)] = Len(whole),
           \A b \in 1 .. Len(seqs) : cut[b - 1] <= cut[b] /\ IsPiece(seqs[b], whole, cut[b - 1], cut[b])
    PROVE  FlattenSeq(seqs) = whole
  <1>0. Len(seqs) \in Nat /\ Len(whole) \in Nat
    OBVIOUS
  <1>1. CASE Len(seqs) = 0
    <2>1. Len(whole) = 0
      BY <1>1
    <2>2. seqs = <<>> /\ whole = <<>>
      BY <1>1, <2>1
    <2>3. QED
      BY <1>1, <2>2 DEF FlattenSeq
  <1>2. CASE Len(seqs) # 0
    <2> DEFINE N == Len(seqs)
               f == CHOOSE g : IsFlat(g, seqs)
               Bad == {i \in 1 .. N : ~(f[i] \in Seq(S) /\ IsPiece(f[i], whole, 0, cut[i]))}
    <2>1. FlattenSeq(seqs) = f[N]
      BY <1>2 DEF FlattenSeq, IsFlat
    <2>2. IsFlat(f, seqs)
      BY FlatExists, Zenon
    <2> HIDE DEF f
    <2>3. \A i \in 1 .. N : f[i] = IF i = 1 THEN seqs[i] ELSE f[i - 1] \o seqs[i]
      BY <2>2 DEF IsFlat
    <2>4. ASSUME Bad # {} PROVE FALSE
      <3>1. PICK m \in Bad : \A i \in Bad : m <= i
        <4>1. Bad \in SUBSET Nat
          BY <1>0
        <4>2. QED
          BY <2>4, <4>1, LeastNatural
      <3>2. m \in 1 .. N /\ m \in 0 .. N /\ m - 1 \in 0 .. N /\ seqs[m] \in Seq(S)
        BY <1>0, <3>1
      <3>3. cut[m - 1] <= cut[m] /\ IsPiece(seqs[m], whole, cut[m - 1], cut[m])
        BY <3>2
      <3>4. cut[m] \in Nat /\ cut[m - 1] \in Nat /\ cut[m] <= Len(whole)
        <4>1. cut[m] \in 0 .. Len(whole) /\ cut[m - 1] \in 0 .. Len(whole)
          BY <3>2
        <4>2. QED
          BY <1>0, <4>1
      <3>5. CASE m = 1
        <4>1. f[m] = seqs[m] /\ cut[m - 1] = 0
          BY <2>3, <3>2, <3>5
        <4>2. QED
          BY <3>1, <3>2, <3>3, <4>1
      <3>6. CASE m # 1
        <4>1. f[m] = f[m - 1] \o seqs[m]
          BY <2>3, <3>2, <3>6
        <4>2. m - 1 \in 1 .. N /\ m - 1 \notin Bad
          BY <1>0, <3>1, <3>2, <3>6
        <4>3. f[m - 1] \in Seq(S) /\ IsPiece(f[m - 1], whole, 0, cut[m - 1])
          BY <4>2
        <4>4. IsPiece(f[m - 1] \o seqs[m], whole, 0, cut[m])
          BY <3>2, <3>3, <3>4, <4>3, PiecesJoin
        <4>5. f[m - 1] \o seqs[m] \in Seq(S)
          BY <3>2, <4>3
        <4>6. QED
          BY <3>1, <4>1, <4>4, <4>5
      <3>7. QED
        BY <3>5, <3>6
    <2>5. f[N] \in Seq(S) /\ IsPiece(f[N], whole, 0, Len(whole))
      <3>1. N \in 1 .. N
        BY <1>0, <1>2
      <3>2. N \notin Bad
        BY <2>4
      <3>3. QED
        BY <3>1, <3>2
    <2>6. Len(f[N]) = Len(whole) /\ \A k \in 1 .. Len(whole) : f[N][k] = whole[k]
      BY <1>0, <2>5 DEF IsPiece
    <2>7. f[N] = whole
      BY <2>5, <2>6, SeqEqual
    <2>8. QED
      BY <2>1, <2>7
  <1>3. QED
    BY <1>1, <1>2

\* The first n visible rows.
RowsRead(kind, version, n) == [k \in 1 .. n |-> version.rows[Visible(kind, version)[k]]]

LEMMA VisibleRows ==
    ASSUME NEW kind, NEW version, IsVersion(version), NEW n \in 0 .. Len(Visible(kind, version))
    PROVE  /\ \A k \in 1 .. n : Visible(kind, version)[k] \in 1 .. Len(version.rows)
           /\ RowsRead(kind, version, n) \in Seq(Range(version.rows))
           /\ Len(RowsRead(kind, version, n)) = n
  <1> DEFINE V == Visible(kind, version)
             S == Range(version.rows)
             R == RowsRead(kind, version, n)
  <1>1. Len(V) \in Nat /\ \A k \in 1 .. Len(V) : V[k] \in FilledUpTo(kind, version, Len(version.rows))
    BY VisibleLists DEF Lists
  <1>2. FilledUpTo(kind, version, Len(version.rows)) \subseteq 1 .. Len(version.rows)
    <2>1. Len(version.rows) \in Nat
      BY DEF IsVersion
    <2>2. QED
      BY <2>1, FilledFinite
  <1>3. \A k \in 1 .. n : V[k] \in 1 .. Len(version.rows)
    BY <1>1, <1>2
  <1>4. \A i \in 1 .. Len(version.rows) : version.rows[i] \in S
    BY DEF IsVersion
  <1> HIDE DEF V, S
  <1>5. R \in [1 .. n -> S]
    BY <1>3, <1>4 DEF RowsRead, V
  <1> HIDE DEF R
  <1>6. n \in Nat
    BY <1>1 DEF V
  <1>7. R \in Seq(S)
    BY <1>5, <1>6
  <1>8. Len(R) = n
    BY <1>5, <1>6, <1>7
  <1>9. QED
    BY <1>3, <1>7, <1>8 DEF R, S, V

\* The rows stage_rows is given for each batch.
LEMMA BatchContent ==
    ASSUME NEW kind, NEW version, NEW cut, NEW batches, NEW n,
           IsCut(cut, batches, kind, version, n), NEW b \in 1 .. Len(batches)
    PROVE  batches[b].rows = [k \in 1 .. cut[b] - cut[b - 1] |->
                                version.rows[Visible(kind, version)[cut[b - 1] + 1 + k - 1]]]
  <1> DEFINE first == cut[b - 1] + 1
             size == cut[b] - cut[b - 1]
             index == b - 1
  <1>1. batches[b] = Batch(kind, version, first, size, index)
    BY DEF IsCut
  <1> HIDE DEF first, size, index
  <1>2. batches[b].rows = [k \in 1 .. size |-> version.rows[Visible(kind, version)[first + k - 1]]]
    BY <1>1 DEF Batch
  <1>3. QED
    BY <1>2 DEF first, size, index

\* The ordinals stage_rows gives them.
LEMMA BatchSpan ==
    ASSUME NEW kind, NEW version, NEW cut, NEW batches, NEW n,
           IsCut(cut, batches, kind, version, n), NEW b \in 1 .. Len(batches)
    PROVE  /\ batches[b].index = b - 1
           /\ batches[b].first = Visible(kind, version)[cut[b - 1] + 1]
           /\ batches[b].last = Visible(kind, version)[cut[b - 1] + 1] + (cut[b] - cut[b - 1]) - 1
  <1> DEFINE first == cut[b - 1] + 1
             size == cut[b] - cut[b - 1]
             index == b - 1
  <1>1. batches[b] = Batch(kind, version, first, size, index)
    BY DEF IsCut
  <1> HIDE DEF first, size, index
  <1>2. /\ batches[b].index = index
        /\ batches[b].first = Visible(kind, version)[first]
        /\ batches[b].last = Visible(kind, version)[first] + size - 1
    BY <1>1 DEF Batch
  <1>3. QED
    BY <1>2 DEF first, size, index

\* The batches hold the rows that were read, in order and once each.
LEMMA BatchesHoldRows ==
    ASSUME NEW kind, NEW version, IsVersion(version), NEW n \in 0 .. Len(Visible(kind, version)),
           NEW cut, NEW batches, IsCut(cut, batches, kind, version, n)
    PROVE  BatchRows(batches) = RowsRead(kind, version, n)
  <1> DEFINE K == Len(batches)
             S == Range(version.rows)
             R == RowsRead(kind, version, n)
             seqs == [b \in DOMAIN batches |-> batches[b].rows]
  <1>1. R \in Seq(S) /\ Len(R) = n
    BY VisibleRows
  <1>2. /\ K \in Nat /\ DOMAIN batches = 1 .. K
        /\ cut \in [0 .. K -> 0 .. n] /\ cut[0] = 0 /\ cut[K] = n
        /\ \A b \in 1 .. K : cut[b - 1] < cut[b]
    BY DEF IsCut
  <1>3. n \in Nat
    <2>1. Len(Visible(kind, version)) \in Nat
      BY VisibleLists DEF Lists
    <2>2. QED
      BY <2>1
  <1>4. ASSUME NEW b \in 1 .. K
        PROVE  /\ batches[b].rows \in Seq(S) /\ cut[b - 1] <= cut[b]
               /\ IsPiece(batches[b].rows, R, cut[b - 1], cut[b])
    <2> DEFINE lo == cut[b - 1]
               hi == cut[b]
               rows == batches[b].rows
    <2>1. lo \in 0 .. n /\ hi \in 0 .. n /\ lo < hi
      BY <1>2, <1>4
    <2>2. rows = [k \in 1 .. hi - lo |-> version.rows[Visible(kind, version)[lo + 1 + k - 1]]]
      BY <1>4, BatchContent
    <2> HIDE DEF lo, hi, rows
    <2>3. hi - lo \in Nat /\ \A k \in 1 .. hi - lo : lo + 1 + k - 1 = lo + k /\ lo + k \in 1 .. n
      BY <1>3, <2>1
    <2>4. \A k \in 1 .. hi - lo : rows[k] = R[lo + k] /\ R[lo + k] \in S
      <3>1. \A k \in 1 .. n : R[k] = version.rows[Visible(kind, version)[k]]
        BY DEF RowsRead
      <3>2. \A k \in 1 .. n : R[k] \in S
        BY <1>1
      <3> HIDE DEF R, S
      <3>3. QED
        BY <2>2, <2>3, <3>1, <3>2
    <2>5. rows = [k \in 1 .. hi - lo |-> rows[k]]
      BY <2>2
    <2>6. rows \in [1 .. hi - lo -> S]
      BY <2>4, <2>5
    <2> HIDE DEF S, R
    <2>7. rows \in Seq(S)
      BY <2>3, <2>6
    <2>8. Len(rows) = hi - lo
      BY <2>3, <2>6, <2>7
    <2>9. IsPiece(rows, R, lo, hi)
      BY <2>4, <2>8 DEF IsPiece
    <2>10. QED
      BY <1>3, <2>1, <2>7, <2>9 DEF lo, hi, rows
  <1>5. \A b \in 1 .. K : seqs[b] = batches[b].rows
    BY <1>2
  <1>6. seqs \in Seq(Seq(S)) /\ Len(seqs) = K
    <2>1. \A b \in 1 .. K : seqs[b] \in Seq(S)
      BY <1>4, <1>5
    <2>2. seqs = [b \in 1 .. K |-> seqs[b]]
      BY <1>2
    <2> HIDE DEF seqs, S
    <2>3. seqs \in [1 .. K -> Seq(S)]
      BY <2>1, <2>2
    <2> HIDE DEF K
    <2>4. seqs \in Seq(Seq(S))
      BY <1>2, <2>3
    <2>5. QED
      BY <1>2, <2>3, <2>4
  <1> HIDE DEF seqs, S, R, K
  <1>7. FlattenSeq(seqs) = R
    <2>1. \A b \in 1 .. Len(seqs) : cut[b - 1] <= cut[b] /\ IsPiece(seqs[b], R, cut[b - 1], cut[b])
      BY <1>4, <1>5, <1>6
    <2>2. cut \in [0 .. Len(seqs) -> 0 .. Len(R)] /\ cut[0] = 0 /\ cut[Len(seqs)] = Len(R)
      BY <1>1, <1>2, <1>6
    <2>3. QED
      BY <1>1, <1>6, <2>1, <2>2, FlattenPieces
  <1>8. QED
    BY <1>7 DEF BatchRows, seqs, R

-----------------------------------------------------------------------------
(* The references the batches give out.                                    *)

LEMMA CutClimbs ==
    ASSUME NEW kind, NEW version, NEW n \in Nat,
           NEW cut, NEW batches, IsCut(cut, batches, kind, version, n)
    PROVE  \A b, c \in 0 .. Len(batches) : b <= c => cut[b] <= cut[c]
  <1> DEFINE K == Len(batches)
  <1>1. K \in Nat /\ \A b \in 0 .. K : cut[b] \in 0 .. n
    BY DEF IsCut
  <1>2. \A b \in 1 .. K : cut[b - 1] < cut[b]
    BY DEF IsCut
  <1> HIDE DEF K
  <1>3. \A b \in 0 .. K - 1 : cut[b] < cut[b + 1]
    <2> SUFFICES ASSUME NEW b \in 0 .. K - 1 PROVE cut[b] < cut[b + 1]
      OBVIOUS
    <2>1. b + 1 \in 1 .. K /\ (b + 1) - 1 = b
      BY <1>1
    <2>2. cut[(b + 1) - 1] < cut[b + 1]
      BY <1>2, <2>1, Zenon
    <2>3. QED
      BY <2>1, <2>2
  <1>4. 0 \in Int /\ K \in Int /\ \A b \in 0 .. K : cut[b] \in Int
    BY <1>1
  <1>5. \A b, c \in 0 .. K : b <= c => cut[b] + (c - b) <= cut[c]
    BY <1>3, <1>4, Climbs
  <1>6. QED
    BY <1>1, <1>4, <1>5 DEF K

\* Every row that was read is in one batch.
LEMMA RowHasBatch ==
    ASSUME NEW kind, NEW version, NEW n \in Nat,
           NEW cut, NEW batches, IsCut(cut, batches, kind, version, n), NEW k \in 1 .. n
    PROVE  \E b \in 1 .. Len(batches) : cut[b - 1] < k /\ k <= cut[b]
  <1> DEFINE K == Len(batches)
             Past == {b \in 0 .. K : k <= cut[b]}
  <1>1. K \in Nat /\ cut[0] = 0 /\ cut[K] = n /\ \A b \in 0 .. K : cut[b] \in Int
    BY DEF IsCut
  <1>2. Past \in SUBSET Nat /\ K \in Past
    BY <1>1
  <1>3. PICK b \in Past : \A c \in Past : b <= c
    BY <1>2, LeastNatural
  <1>4. b # 0
    BY <1>1
  <1>5. b \in 1 .. K /\ b - 1 \in 0 .. K /\ b - 1 \notin Past
    BY <1>1, <1>3, <1>4
  <1>6. cut[b - 1] < k /\ k <= cut[b]
    BY <1>1, <1>3, <1>5
  <1>7. QED
    BY <1>5, <1>6

\* The references are those of the rows from each batch's first ordinal on.
LEMMA ReferenceOf ==
    ASSUME NEW kind, NEW version, NEW n \in Nat,
           NEW cut, NEW batches, IsCut(cut, batches, kind, version, n), NEW r
    PROVE  r \in References(batches) <=>
              \E b \in 1 .. Len(batches) :
                 \E o \in Visible(kind, version)[cut[b - 1] + 1]
                          .. Visible(kind, version)[cut[b - 1] + 1] + (cut[b] - cut[b - 1]) - 1 :
                    r = [batch |-> b - 1, ordinal |-> o]
  <1>1. DOMAIN batches = 1 .. Len(batches)
    BY DEF IsCut
  <1>2. r \in References(batches) <=>
           \E b \in 1 .. Len(batches) : \E o \in batches[b].first .. batches[b].last :
              r = [batch |-> batches[b].index, ordinal |-> o]
    BY <1>1 DEF References, Range
  <1>3. ASSUME NEW b \in 1 .. Len(batches)
        PROVE  /\ batches[b].index = b - 1
               /\ batches[b].first = Visible(kind, version)[cut[b - 1] + 1]
               /\ batches[b].last = Visible(kind, version)[cut[b - 1] + 1] + (cut[b] - cut[b - 1]) - 1
    BY <1>3, BatchSpan
  <1>4. QED
    BY <1>2, <1>3

Ordinals(batches) == {r.ordinal : r \in References(batches)}

\* No two rows that were read share an ordinal, let alone a reference: a batch
\* counts on from its first ordinal, and those of the rows go up at least as fast.
LEMMA ReferencesCount ==
    ASSUME NEW kind, NEW version, IsVersion(version), NEW n \in 0 .. Len(Visible(kind, version)),
           NEW cut, NEW batches, IsCut(cut, batches, kind, version, n)
    PROVE  /\ Cardinality(References(batches)) = n
           /\ Cardinality(Ordinals(batches)) = n
  <1> DEFINE K == Len(batches)
             V == Visible(kind, version)
             In(k, b) == cut[b - 1] < k /\ k <= cut[b]
             slot == [k \in 1 .. n |-> CHOOSE b \in 1 .. K : In(k, b)]
             Ord(k, b) == V[cut[b - 1] + 1] + (k - cut[b - 1]) - 1
             F == [k \in 1 .. n |-> [batch |-> slot[k] - 1, ordinal |-> Ord(k, slot[k])]]
             G == [k \in 1 .. n |-> Ord(k, slot[k])]
             refs == References(batches)
             ords == {r.ordinal : r \in refs}
  <1>1. Len(V) \in Nat /\ n \in Nat /\ n <= Len(V) /\ \A i \in 1 .. Len(V) : V[i] \in Int
    <2>1. V \in Seq(Nat)
      BY VisibleLists DEF Lists
    <2>2. QED
      BY <2>1
  <1>2. \A i, j \in 1 .. Len(V) : i <= j => V[i] + (j - i) <= V[j]
    <2>1. \A i \in 1 .. Len(V) - 1 : V[i] < V[i + 1]
      BY VisibleLists DEF Lists
    <2> HIDE DEF V
    <2>2. 1 \in Int /\ Len(V) \in Int
      BY <1>1
    <2>3. QED
      BY <1>1, <2>1, <2>2, Climbs
  <1>3. K \in Nat /\ \A b \in 0 .. K : cut[b] \in 0 .. n
    BY DEF IsCut
  <1>4. \A b, c \in 0 .. K : b <= c => cut[b] <= cut[c]
    BY <1>1, CutClimbs
  <1>5. \A k \in 1 .. n : slot[k] \in 1 .. K /\ In(k, slot[k])
    <2> SUFFICES ASSUME NEW k \in 1 .. n PROVE slot[k] \in 1 .. K /\ In(k, slot[k])
      OBVIOUS
    <2>1. \E b \in 1 .. K : In(k, b)
      BY <1>1, RowHasBatch
    <2>2. slot[k] = CHOOSE b \in 1 .. K : In(k, b)
      OBVIOUS
    <2> HIDE DEF slot, In
    <2>3. QED
      BY <2>1, <2>2
  <1> HIDE DEF slot
  \* one batch, whichever way it is found
  <1>6. \A k, l \in 1 .. n : \A b, c \in 1 .. K : In(k, b) /\ In(l, c) /\ b < c => k <= cut[c - 1]
    <2> SUFFICES ASSUME NEW k \in 1 .. n, NEW l \in 1 .. n, NEW b \in 1 .. K, NEW c \in 1 .. K,
                        In(k, b), In(l, c), b < c
                 PROVE  k <= cut[c - 1]
      OBVIOUS
    <2>1. b \in 0 .. K /\ c - 1 \in 0 .. K /\ b <= c - 1
      BY <1>3
    <2>2. cut[b] <= cut[c - 1] /\ cut[b] \in Int /\ cut[c - 1] \in Int
      BY <1>1, <1>3, <1>4, <2>1
    <2>3. QED
      BY <2>2
  <1>7. \A k \in 1 .. n : \A b \in 1 .. K : In(k, b) => slot[k] = b
    <2> SUFFICES ASSUME NEW k \in 1 .. n, NEW b \in 1 .. K, In(k, b), slot[k] # b PROVE FALSE
      OBVIOUS
    <2>1. slot[k] \in 1 .. K /\ In(k, slot[k])
      BY <1>5
    <2>2. slot[k] < b \/ b < slot[k]
      BY <1>3, <2>1
    <2>3. b - 1 \in 0 .. K /\ slot[k] - 1 \in 0 .. K
      BY <1>3, <2>1
    <2>4. cut[b - 1] \in Int /\ cut[slot[k] - 1] \in Int
      BY <1>1, <1>3, <2>3
    <2>5. k <= cut[b - 1] \/ k <= cut[slot[k] - 1]
      BY <1>6, <2>1, <2>2
    <2>6. QED
      BY <2>1, <2>4, <2>5
  <1>8. \A k \in 1 .. n : \A b \in 1 .. K : In(k, b) =>
           /\ cut[b - 1] \in Nat /\ cut[b - 1] + 1 \in 1 .. Len(V) /\ V[cut[b - 1] + 1] \in Int
           /\ k \in 1 .. Len(V) /\ V[k] \in Int
           /\ Ord(k, b) \in Int /\ V[cut[b - 1] + 1] <= Ord(k, b) /\ Ord(k, b) <= V[k]
    <2> SUFFICES ASSUME NEW k \in 1 .. n, NEW b \in 1 .. K, In(k, b)
                 PROVE  /\ cut[b - 1] \in Nat /\ cut[b - 1] + 1 \in 1 .. Len(V) /\ V[cut[b - 1] + 1] \in Int
                        /\ k \in 1 .. Len(V) /\ V[k] \in Int
                        /\ Ord(k, b) \in Int /\ V[cut[b - 1] + 1] <= Ord(k, b) /\ Ord(k, b) <= V[k]
      OBVIOUS
    <2> DEFINE lo == cut[b - 1]
    <2>0. b - 1 \in 0 .. K
      BY <1>3
    <2>1. lo \in 0 .. n /\ lo < k
      BY <1>3, <2>0
    <2> HIDE DEF V, lo
    <2>2. lo \in Nat /\ lo + 1 \in 1 .. Len(V) /\ k \in 1 .. Len(V) /\ lo + 1 <= k
      BY <1>1, <2>1
    <2>3. V[lo + 1] \in Int /\ V[k] \in Int /\ V[lo + 1] + (k - (lo + 1)) <= V[k]
      BY <1>1, <1>2, <2>2
    <2>4. Ord(k, b) = V[lo + 1] + (k - lo) - 1
      BY DEF lo
    <2> HIDE DEF Ord
    <2>5. Ord(k, b) \in Int /\ V[lo + 1] <= Ord(k, b) /\ Ord(k, b) <= V[k]
      BY <2>2, <2>3, <2>4
    <2>6. QED
      BY <2>2, <2>3, <2>5 DEF lo
  \* the ordinals given out go up with the rows
  <1>9. \A k, l \in 1 .. n : k < l => Ord(k, slot[k]) < Ord(l, slot[l])
    <2> SUFFICES ASSUME NEW k \in 1 .. n, NEW l \in 1 .. n, k < l
                 PROVE  Ord(k, slot[k]) < Ord(l, slot[l])
      OBVIOUS
    <2> DEFINE b == slot[k]
               c == slot[l]
    <2>1. b \in 1 .. K /\ c \in 1 .. K /\ In(k, b) /\ In(l, c)
      BY <1>5
    <2> HIDE DEF b, c
    <2>2. CASE b = c
      <3>1. cut[b - 1] \in Nat /\ V[cut[b - 1] + 1] \in Int
        BY <1>8, <2>1
      <3>2. QED
        BY <2>2, <3>1 DEF b, c
    <2>3. CASE b < c
      <3> DEFINE lo == cut[c - 1]
                 x == Ord(k, b)
                 y == Ord(l, c)
      <3>1. k <= lo
        BY <1>6, <2>1, <2>3
      <3>2. lo \in Nat /\ lo + 1 \in 1 .. Len(V) /\ V[lo + 1] \in Int /\ y \in Int /\ V[lo + 1] <= y
        BY <1>8, <2>1
      <3>3. k \in 1 .. Len(V) /\ V[k] \in Int /\ x \in Int /\ x <= V[k]
        BY <1>8, <2>1
      <3> HIDE DEF lo, x, y, V
      <3>4. V[k] + ((lo + 1) - k) <= V[lo + 1] /\ k < lo + 1
        BY <1>2, <3>1, <3>2, <3>3
      <3>5. x < y
        BY <3>2, <3>3, <3>4
      <3>6. QED
        BY <3>5 DEF x, y, b, c
    <2>4. CASE c < b
      <3>1. l <= cut[b - 1] /\ cut[b - 1] < k /\ cut[b - 1] \in Nat
        BY <1>6, <1>8, <2>1, <2>4
      <3>2. QED
        BY <3>1
    <2>5. QED
      BY <1>3, <2>1, <2>2, <2>3, <2>4
  <1>10. \A k, l \in 1 .. n : Ord(k, slot[k]) = Ord(l, slot[l]) => k = l
    <2> SUFFICES ASSUME NEW k \in 1 .. n, NEW l \in 1 .. n, Ord(k, slot[k]) = Ord(l, slot[l]), k # l
                 PROVE  FALSE
      OBVIOUS
    <2>1. Ord(k, slot[k]) \in Int /\ Ord(l, slot[l]) \in Int
      BY <1>5, <1>8
    <2>2. k < l \/ l < k
      OBVIOUS
    <2> HIDE DEF Ord
    <2>3. Ord(k, slot[k]) < Ord(l, slot[l]) \/ Ord(l, slot[l]) < Ord(k, slot[k])
      BY <1>9, <2>2
    <2>4. QED
      BY <2>1, <2>3
  <1>11. \A k \in 1 .. n : F[k] \in refs /\ F[k].ordinal = Ord(k, slot[k])
    <2> SUFFICES ASSUME NEW k \in 1 .. n PROVE F[k] \in refs /\ F[k].ordinal = Ord(k, slot[k])
      OBVIOUS
    <2> DEFINE b == slot[k]
               o == Ord(k, b)
               lo == cut[b - 1]
               hi == cut[b]
               v == V[lo + 1]
    <2>1. F[k] = [batch |-> b - 1, ordinal |-> o]
      OBVIOUS
    <2>2. b \in 1 .. K /\ In(k, b)
      BY <1>5
    <2>3. lo \in Nat /\ v \in Int /\ lo < k /\ k <= hi /\ o = v + (k - lo) - 1
      BY <1>8, <2>2
    <2>4. hi \in Int
      <3>1. b \in 0 .. K
        BY <1>3, <2>2
      <3>2. QED
        BY <1>1, <1>3, <3>1
    <2> HIDE DEF v, o, lo, hi
    <2>5. o \in v .. v + (hi - lo) - 1
      BY <2>3, <2>4
    <2> HIDE DEF b, F, V
    <2>6. F[k] \in refs
      BY <1>1, <2>1, <2>2, <2>5, ReferenceOf DEF v, lo, hi, V
    <2>7. F[k].ordinal = o
      BY <2>1
    <2>8. QED
      BY <2>6, <2>7 DEF o, b
  <1>12. \A r \in refs : \E k \in 1 .. n : F[k] = r
    <2> SUFFICES ASSUME NEW r \in refs PROVE \E k \in 1 .. n : F[k] = r
      OBVIOUS
    <2>1. PICK b \in 1 .. K : \E o \in V[cut[b - 1] + 1] .. V[cut[b - 1] + 1] + (cut[b] - cut[b - 1]) - 1 :
                                 r = [batch |-> b - 1, ordinal |-> o]
      BY <1>1, ReferenceOf
    <2> DEFINE lo == cut[b - 1]
               hi == cut[b]
               v == V[lo + 1]
    <2>2. PICK o \in v .. v + (hi - lo) - 1 : r = [batch |-> b - 1, ordinal |-> o]
      BY <2>1
    <2>3. b \in 0 .. K /\ b - 1 \in 0 .. K /\ lo \in 0 .. n /\ hi \in 0 .. n /\ lo < hi
      <3>1. b \in 0 .. K /\ b - 1 \in 0 .. K
        BY <1>3
      <3>2. QED
        BY <1>3, <3>1 DEF IsCut
    <2>4. v \in Int
      <3>1. lo + 1 \in 1 .. Len(V)
        BY <1>1, <2>3
      <3>2. QED
        BY <1>1, <3>1
    <2> DEFINE k == lo + (o - v) + 1
    <2> HIDE DEF v, lo, hi
    <2>5. k \in 1 .. n /\ lo < k /\ k <= hi /\ o = v + (k - lo) - 1
      BY <1>1, <2>2, <2>3, <2>4
    <2> HIDE DEF k
    <2>6. slot[k] = b
      BY <1>7, <2>5 DEF lo, hi
    <2>7. F[k] = [batch |-> b - 1, ordinal |-> o]
      BY <2>5, <2>6 DEF v, lo
    <2>8. QED
      BY <2>2, <2>5, <2>7
  <1>13. \A k \in 1 .. n : G[k] = Ord(k, slot[k])
    OBVIOUS
  <1>14. DOMAIN F = 1 .. n /\ F = [k \in 1 .. n |-> F[k]] /\ DOMAIN G = 1 .. n /\ G = [k \in 1 .. n |-> G[k]]
    OBVIOUS
  <1> HIDE DEF F, G, Ord, refs
  <1>15. F \in Bijection(1 .. n, refs)
    <2>1. F \in [1 .. n -> refs]
      BY <1>11, <1>14
    <2>2. \A k, l \in 1 .. n : F[k] = F[l] => k = l
      BY <1>10, <1>11
    <2>3. QED
      BY <1>12, <2>1, <2>2 DEF Bijection, Injection, Surjection, IsInjective
  <1>16. G \in Bijection(1 .. n, ords)
    <2>1. \A k \in 1 .. n : G[k] \in ords
      BY <1>11, <1>13
    <2>2. G \in [1 .. n -> ords]
      BY <1>14, <2>1
    <2>3. \A k, l \in 1 .. n : G[k] = G[l] => k = l
      BY <1>10, <1>13
    <2>4. \A o \in ords : \E k \in 1 .. n : G[k] = o
      BY <1>11, <1>12, <1>13
    <2>5. QED
      BY <2>2, <2>3, <2>4 DEF Bijection, Injection, Surjection, IsInjective
  <1>17. IsFiniteSet(1 .. n) /\ Cardinality(1 .. n) = n
    BY <1>1, FS_Interval
  <1> HIDE DEF ords
  <1>18. Cardinality(refs) = n
    BY <1>15, <1>17, FS_Bijection DEF ExistsBijection
  <1>19. Cardinality(ords) = n
    BY <1>16, <1>17, FS_Bijection DEF ExistsBijection
  <1>20. QED
    BY <1>18, <1>19 DEF refs, ords, Ordinals

-----------------------------------------------------------------------------
(* A pass that meets no malformed row.                                     *)

\* What SnapshotIsFaithful says of the rows of a snapshot.
PassFaithful(kind, version, policy, batches) ==
    /\ HoldsFilled(BatchRows(batches), kind, version, policy)
    /\ Cardinality(References(batches)) = Observed(kind, version, policy)
    /\ Cardinality({r.ordinal : r \in References(batches)}) = Observed(kind, version, policy)
    /\ TableStatus(kind, version, policy) = "FULLY_OBSERVED"
          <=> Cardinality(Filled(kind, version)) = Observed(kind, version, policy)
    /\ \A b \in Range(batches) : BatchValid(b)
    /\ Observed(kind, version, policy) = Len(BatchRows(batches))

LEMMA FilledCount ==
    ASSUME NEW kind, NEW version, IsVersion(version)
    PROVE  /\ Len(Visible(kind, version)) = Cardinality(Filled(kind, version))
           /\ \A i \in Filled(kind, version) :
                 \E k \in 1 .. Len(Visible(kind, version)) :
                    Visible(kind, version)[k] = i /\ RankIn(Filled(kind, version), i) = k
  <1>1. Len(version.rows) \in Nat
    BY DEF IsVersion
  <1>2. FilledUpTo(kind, version, Len(version.rows)) = Filled(kind, version)
    <2>1. \A i \in Filled(kind, version) : i \in 1 .. Len(version.rows)
      BY <1>1, FilledFinite
    <2>2. QED
      BY <1>1, <2>1 DEF FilledUpTo
  <1> DEFINE V == Visible(kind, version)
             filled == Filled(kind, version)
  <1>3. /\ Len(V) = Cardinality(filled)
        /\ \A k \in 1 .. Len(V) : RankIn(filled, V[k]) = k
        /\ \A i \in filled : \E k \in 1 .. Len(V) : V[k] = i
    <2>1. Lists(V, kind, version, Len(version.rows))
      BY VisibleLists
    <2> HIDE DEF V
    <2>2. QED
      BY <1>2, <2>1 DEF Lists
  <1> HIDE DEF V, filled
  <1>4. \A i \in filled : \E k \in 1 .. Len(V) : V[k] = i /\ RankIn(filled, i) = k
    BY <1>3
  <1>5. QED
    BY <1>3, <1>4 DEF V, filled

LEMMA BatchesValid ==
    ASSUME NEW kind, NEW version, IsVersion(version), NEW n \in 0 .. Len(Visible(kind, version)),
           NEW cut, NEW batches, IsCut(cut, batches, kind, version, n), NEW b \in 1 .. Len(batches)
    PROVE  BatchValid(batches[b])
  <1> DEFINE lo == cut[b - 1]
             hi == cut[b]
             v == Visible(kind, version)[lo + 1]
  <1>1. Visible(kind, version) \in Seq(Nat)
    BY VisibleLists DEF Lists
  <1>2. Len(batches) \in Nat /\ lo < hi
    BY DEF IsCut
  <1>3. lo \in 0 .. n /\ hi \in 0 .. n
    <2>1. b \in 0 .. Len(batches) /\ b - 1 \in 0 .. Len(batches)
      BY <1>2
    <2>2. QED
      BY <2>1 DEF IsCut
  <1>4. v \in Nat
    BY <1>1, <1>2, <1>3
  <1>5. batches[b].first = v /\ batches[b].last = v + (hi - lo) - 1
    BY BatchSpan
  <1>6. batches[b].rows = [k \in 1 .. hi - lo |-> version.rows[Visible(kind, version)[lo + 1 + k - 1]]]
    BY BatchContent
  <1> HIDE DEF lo, hi, v
  <1>7. batches[b].first <= batches[b].last
    BY <1>2, <1>3, <1>4, <1>5
  <1>8. DOMAIN batches[b].rows = 1 .. hi - lo /\ 1 \in 1 .. hi - lo
    BY <1>2, <1>3, <1>6
  <1>9. DOMAIN <<>> = {}
    OBVIOUS
  <1>10. batches[b].rows # <<>>
    BY <1>8, <1>9
  <1>11. QED
    BY <1>7, <1>10 DEF BatchValid

\* create_bounded_snapshot's loop, for every file and policy: when it ends
\* without a malformed row, the batches hold the rows they should.
LEMMA PassHolds ==
    ASSUME NEW kind, NEW version, IsVersion(version),
           NEW policy, policy.chunk \in Nat \ {0}, policy.max \in Nat, FailsAt(kind, version, policy) = {}
    PROVE  PassFaithful(kind, version, policy, Batches(kind, version, policy))
  <1> DEFINE V == Visible(kind, version)
             n == Observed(kind, version, policy)
             B == Batches(kind, version, policy)
             R == RowsRead(kind, version, n)
             filled == Filled(kind, version)
             count == Cardinality(filled)
  <1>1. n \in 0 .. Len(V) /\ n = IF policy.max = 0 \/ Len(V) <= policy.max THEN Len(V) ELSE policy.max
    BY ObservedCount
  <1>2. Len(V) = count /\ \A i \in filled : \E k \in 1 .. Len(V) : V[k] = i /\ RankIn(filled, i) = k
    BY FilledCount
  <1>3. PICK cut : IsCut(cut, B, kind, version, n)
    BY BatchesCut
  <1> HIDE DEF V, n, B
  <1>4. BatchRows(B) = R
    BY <1>1, <1>3, BatchesHoldRows DEF V
  <1>5. Len(R) = n /\ \A k \in 1 .. n : R[k] = version.rows[V[k]]
    BY <1>1, VisibleRows DEF V, RowsRead
  <1>6. Cardinality(References(B)) = n /\ Cardinality(Ordinals(B)) = n
    BY <1>1, <1>3, ReferencesCount DEF V
  <1>7. ASSUME NEW b \in Range(B) PROVE BatchValid(b)
    <2>1. DOMAIN B = 1 .. Len(B)
      BY <1>3 DEF IsCut
    <2>2. PICK i \in 1 .. Len(B) : b = B[i]
      BY <2>1, <1>7 DEF Range
    <2>3. BatchValid(B[i])
      BY <1>1, <1>3, BatchesValid DEF V
    <2>4. QED
      BY <2>2, <2>3
  <1> HIDE DEF R, filled, count
  <1>8. ASSUME NEW i \in filled, RankIn(filled, i) <= n
        PROVE  R[RankIn(filled, i)] = version.rows[i]
    <2>1. PICK k \in 1 .. Len(V) : V[k] = i /\ RankIn(filled, i) = k
      BY <1>2
    <2>2. k \in 1 .. n
      BY <1>1, <1>8, <2>1
    <2>3. QED
      BY <1>5, <2>1, <2>2
  <1>9. n = IF policy.max = 0 \/ count <= policy.max THEN count ELSE policy.max
    BY <1>1, <1>2
  <1>10. HoldsFilled(R, kind, version, policy)
    BY <1>5, <1>8, <1>9 DEF HoldsFilled, filled, count
  <1>11. TableStatus(kind, version, policy) = "FULLY_OBSERVED" <=> count = n
    <2>1. TableStatus(kind, version, policy) =
             IF n = Len(V) THEN "FULLY_OBSERVED"
             ELSE IF n > 0 THEN "PARTIALLY_OBSERVED" ELSE "NOT_OBSERVED"
      BY DEF TableStatus, n, V
    <2>2. QED
      BY <1>2, <2>1
  <1>12. QED
    BY <1>4, <1>5, <1>6, <1>7, <1>10, <1>11 DEF PassFaithful, Ordinals, n, B, count, filled

-----------------------------------------------------------------------------
(* The state.                                                              *)

Files == {u.version : u \in Uploads}

SourceTypes ==
    /\ extraction \in ExtractionPolicies /\ writes \in Nat
    /\ managed \in Files \cup {NoFile}

\* As long as nothing was written since discovery read the header, the file
\* has that header; a fingerprint taken with no write in between is that of a
\* file with that header.
CatalogInv ==
    catalog # NoFile =>
        /\ registered # NoFile
        /\ catalog \in [columns : {v.header : v \in Files}, version : Files \cup {NoFile}, at : Nat]
        /\ catalog.version = NoFile =>
              /\ catalog.at <= writes
              /\ managed # NoFile /\ writes = catalog.at => managed.header = catalog.columns
        /\ catalog.version # NoFile /\ catalog.at = 0 => catalog.version.header = catalog.columns

\* The batches of an attempt are the first ones of what it will stage.
IsStart(s, t) == s \in Seq(Range(t)) /\ Len(s) <= Len(t) /\ \A i \in 1 .. Len(s) : s[i] = t[i]

\* A file that is not the fingerprinted one takes a write to appear, and the
\* fingerprinted one takes another to come back.
OpenInv ==
    /\ reading.version \in Files
    /\ Range(catalog.columns) \subseteq Range(reading.version.header)
    /\ reading.version # catalog.version =>
          writes > reading.from /\ (managed = catalog.version => writes > reading.from + 1)
    /\ IsStart(reading.batches, Batches(fileKind, reading.version, extraction))
    /\ BatchFiles(reading.batches) \subseteq staged

ReadingInv ==
    /\ reading = [phase |-> reading.phase, version |-> reading.version,
                  batches |-> reading.batches, from |-> reading.from]
    /\ reading.from \in Nat
    /\ reading.phase \in {"idle", "verified", "open"}
    /\ reading.phase # "idle" =>
          /\ catalog # NoFile /\ catalog.version # NoFile /\ snapshotResult = NoFile
          /\ reading.from <= writes
    /\ reading.phase = "verified" =>
          /\ reading.batches = <<>>
          /\ managed # NoFile /\ managed # catalog.version => writes > reading.from
    /\ reading.phase = "open" => OpenInv

\* What SnapshotIsFaithful says of a result, given the catalog and the disk.
ResultFaithful(result, kind, policy, found, disk) ==
    /\ PassFaithful(kind, result.version, policy, result.batches)
    /\ result.observed = Observed(kind, result.version, policy)
    /\ result.references = References(result.batches)
    /\ result.table = TableStatus(kind, result.version, policy)
    /\ result.rewrites < 2 => result.version = found.version
    /\ found.at = 0 /\ result.rewrites < 2 => found.columns = result.version.header
    /\ Range(found.columns) \subseteq Range(result.version.header)
    /\ BatchFiles(result.batches) \subseteq disk

ResultInv ==
    snapshotResult # NoFile =>
        /\ catalog # NoFile /\ catalog.version # NoFile
        /\ ResultFaithful(snapshotResult, fileKind, extraction, catalog, staged)

SnapshotInv == SourceTypes /\ CatalogInv /\ ReadingInv /\ ResultInv

LEMMA FilesAre ==
    ASSUME NEW f \in Files
    PROVE  f # NoFile /\ IsVersion(f)
  BY SourceAssumption DEF Files, IsVersion

\* The batches are a sequence, whatever the file.
LEMMA ObservedNat ==
    ASSUME NEW kind, NEW version, IsVersion(version), NEW policy, policy.max \in Nat
    PROVE  Observed(kind, version, policy) \in Nat
  <1> DEFINE fails == FailsAt(kind, version, policy)
  <1>0. Len(Visible(kind, version)) \in Nat
    BY VisibleLists DEF Lists
  <1>1. CASE fails = {}
    BY <1>0, <1>1, ObservedCount
  <1>2. CASE fails # {}
    <2>1. fails \subseteq Nat \ {0}
      <3>1. ReadRows(policy, Visible(kind, version)) \in Nat
        <4>1. Min({policy.max + 1, Len(Visible(kind, version))}) \in Nat
          BY <1>0, MinOfTwo
        <4>2. QED
          BY <1>0, <4>1 DEF ReadRows
      <3>2. QED
        BY <3>1 DEF FailsAt
    <2> HIDE DEF fails
    <2>2. \E m \in fails : \A x \in fails : m <= x
      <3>1. fails \in SUBSET Nat
        BY <2>1
      <3>2. QED
        BY <1>2, <3>1, LeastNatural
    <2>3. Min(fails) \in fails
      BY <2>2, Zenon DEF Min
    <2>4. Observed(kind, version, policy) = Min(fails) - 1
      BY <1>2 DEF Observed, fails
    <2>5. Min(fails) \in Nat \ {0}
      BY <2>1, <2>3
    <2>6. Min(fails) - 1 \in Nat
      BY <2>5
    <2>7. QED
      BY <2>4, <2>6
  <1>3. QED
    BY <1>1, <1>2

LEMMA BatchesSequence ==
    ASSUME NEW kind, NEW version, IsVersion(version),
           NEW policy, policy.chunk \in Nat \ {0}, policy.max \in Nat
    PROVE  Batches(kind, version, policy) \in Seq(Range(Batches(kind, version, policy)))
  <1> DEFINE n == Observed(kind, version, policy)
             c == policy.chunk
             whole == n \div c
             rest == n % c
             full == [b \in 1 .. whole |-> Batch(kind, version, (b - 1) * c + 1, c, b - 1)]
             last == Batch(kind, version, whole * c + 1, rest, whole)
             all == Batches(kind, version, policy)
  <1>1. n \in Nat /\ c \in Nat \ {0}
    BY ObservedNat
  <1>2. whole \in Nat
    <2> HIDE DEF n, c
    <2>1. QED
      BY <1>1, DivMod
  <1>3. all = full \/ all = Append(full, last)
    BY DEF Batches
  <1>4. full = [b \in 1 .. whole |-> full[b]]
    OBVIOUS
  <1> HIDE DEF n, c, whole, rest, full, last, all
  <1>5. PICK k \in Nat : all = [b \in 1 .. k |-> all[b]]
    <2>1. whole + 1 \in Nat
      BY <1>2
    <2>2. Append(full, last) = [b \in 1 .. whole + 1 |-> Append(full, last)[b]]
      BY <1>2, <1>4, AppendOne
    <2>3. QED
      BY <1>2, <1>3, <1>4, <2>1, <2>2
  <1>6. all \in [1 .. k -> Range(all)]
    BY <1>5 DEF Range
  <1>7. all \in Seq(Range(all))
    BY <1>6
  <1>8. QED
    BY <1>7 DEF all

\* An import or the owner replaces the file.
LEMMA WriteKeeps ==
    ASSUME SnapshotInv, NEW f \in Files, managed' = f, writes' = writes + 1,
           UNCHANGED <<fileKind, extraction, registered, catalog, reading, staged, snapshotResult>>
    PROVE  SnapshotInv'
  <1>1. SourceTypes'
    BY DEF SnapshotInv, SourceTypes
  <1>2. CatalogInv'
    BY DEF SnapshotInv, SourceTypes, CatalogInv
  <1>3. ReadingInv'
    <2>1. reading.from \in Nat /\ writes \in Nat /\ writes' = writes + 1
      BY DEF SnapshotInv, SourceTypes, ReadingInv
    <2>2. reading.phase = "open" => OpenInv'
      BY <2>1 DEF SnapshotInv, ReadingInv, OpenInv
    <2>3. QED
      BY <2>1, <2>2 DEF SnapshotInv, ReadingInv
  <1>4. ResultInv'
    BY DEF SnapshotInv, ResultInv
  <1>5. QED
    BY <1>1, <1>2, <1>3, <1>4 DEF SnapshotInv

\* An import registers, or is refused and removes the file.
LEMMA RegisterKeeps ==
    ASSUME SnapshotInv, managed' \in {managed, NoFile}, registered # NoFile => registered' # NoFile,
           UNCHANGED <<fileKind, extraction, catalog, reading, staged, snapshotResult, writes>>
    PROVE  SnapshotInv'
  <1>1. SourceTypes'
    BY DEF SnapshotInv, SourceTypes
  <1>2. CatalogInv'
    BY DEF SnapshotInv, SourceTypes, CatalogInv
  <1>3. ReadingInv'
    BY DEF SnapshotInv, ReadingInv, OpenInv
  <1>4. ResultInv'
    BY DEF SnapshotInv, ResultInv
  <1>5. QED
    BY <1>1, <1>2, <1>3, <1>4 DEF SnapshotInv

\* Before discovery nothing is being read and nothing was returned.
LEMMA UndiscoveredIdle ==
    ASSUME SnapshotInv, catalog = NoFile \/ catalog.version = NoFile
    PROVE  reading.phase = "idle" /\ snapshotResult = NoFile
  BY DEF SnapshotInv, ReadingInv, ResultInv

LEMMA IdleKeeps ==
    ASSUME SnapshotInv, reading.phase = "idle", snapshotResult = NoFile,
           UNCHANGED <<reading, snapshotResult>>
    PROVE  ReadingInv' /\ ResultInv'
  BY DEF SnapshotInv, ReadingInv, ResultInv

LEMMA DiscoverHeaderKeeps ==
    ASSUME SnapshotInv, DiscoverHeader
    PROVE  SnapshotInv'
  <1>1. SourceTypes'
    BY DEF SnapshotInv, SourceTypes, DiscoverHeader
  <1>2. CatalogInv'
    <2>1. managed \in Files /\ writes \in Nat /\ registered' # NoFile
      BY DEF SnapshotInv, SourceTypes, DiscoverHeader
    <2>2. catalog' = [columns |-> managed.header, version |-> NoFile, at |-> writes]
          /\ managed' = managed /\ writes' = writes
      BY DEF DiscoverHeader
    <2>3. /\ catalog' \in [columns : {v.header : v \in Files}, version : Files \cup {NoFile}, at : Nat]
          /\ catalog'.version = NoFile /\ catalog'.at = writes' /\ catalog'.columns = managed'.header
      BY <2>1, <2>2
    <2>4. QED
      BY <2>1, <2>2, <2>3 DEF CatalogInv
  <1>3. ReadingInv' /\ ResultInv'
    BY UndiscoveredIdle, IdleKeeps DEF DiscoverHeader
  <1>4. QED
    BY <1>1, <1>2, <1>3 DEF SnapshotInv

LEMMA DiscoverFingerprintKeeps ==
    ASSUME SnapshotInv, DiscoverFingerprint
    PROVE  SnapshotInv'
  <1>1. SourceTypes'
    BY DEF SnapshotInv, SourceTypes, DiscoverFingerprint
  <1>2. CatalogInv'
    <2>1. CASE managed = NoFile
      BY <2>1 DEF DiscoverFingerprint, CatalogInv
    <2>2. CASE managed # NoFile
      <3>1. /\ managed \in Files /\ managed # NoFile /\ writes \in Nat /\ registered # NoFile
            /\ catalog \in [columns : {v.header : v \in Files}, version : Files \cup {NoFile}, at : Nat]
            /\ catalog.at <= writes
            /\ writes = catalog.at => managed.header = catalog.columns
        BY <2>2 DEF SnapshotInv, SourceTypes, CatalogInv, DiscoverFingerprint
      <3>2. /\ catalog' = [catalog EXCEPT !.version = managed, !.at = writes - catalog.at]
            /\ registered' = registered
        BY <2>2 DEF DiscoverFingerprint
      <3>3. catalog'.columns = catalog.columns /\ catalog'.version = managed /\ catalog'.at = writes - catalog.at
        BY <3>1, <3>2
      <3>4. writes - catalog.at \in Nat
        BY <3>1
      <3>5. catalog' \in [columns : {v.header : v \in Files}, version : Files \cup {NoFile}, at : Nat]
        BY <3>1, <3>2, <3>4
      <3>6. catalog'.at = 0 => catalog'.version.header = catalog'.columns
        <4>1. catalog.at \in Nat
          BY <3>1
        <4>2. QED
          BY <3>1, <3>3, <4>1
      <3>7. QED
        BY <3>1, <3>2, <3>3, <3>5, <3>6 DEF CatalogInv
    <2>3. QED
      BY <2>1, <2>2
  <1>3. ReadingInv' /\ ResultInv'
    BY UndiscoveredIdle, IdleKeeps DEF DiscoverFingerprint
  <1>4. QED
    BY <1>1, <1>2, <1>3 DEF SnapshotInv

\* register_read_only_source runs before anything was discovered.
LEMMA RegisterReadOnlyKeeps ==
    ASSUME SnapshotInv, NEW u \in Uploads, RegisterReadOnly(u)
    PROVE  SnapshotInv'
  <1>1. catalog = NoFile
    BY DEF SnapshotInv, CatalogInv, RegisterReadOnly
  <1>2. SourceTypes'
    BY DEF SnapshotInv, SourceTypes, RegisterReadOnly, Files
  <1>3. CatalogInv'
    BY <1>1 DEF CatalogInv, RegisterReadOnly
  <1>4. ReadingInv' /\ ResultInv'
    BY <1>1, UndiscoveredIdle, IdleKeeps DEF RegisterReadOnly
  <1>5. QED
    BY <1>2, <1>3, <1>4 DEF SnapshotInv

\* What an extraction does leaves the file and the catalog alone.
LEMMA CatalogKept ==
    ASSUME SnapshotInv, UNCHANGED <<extraction, registered, managed, catalog, writes>>
    PROVE  SourceTypes' /\ CatalogInv'
  BY DEF SnapshotInv, SourceTypes, CatalogInv

\* An attempt ends with nothing returned.
LEMMA EndKeeps ==
    ASSUME SnapshotInv, reading' = NotReading, snapshotResult' = NoFile,
           UNCHANGED <<extraction, registered, managed, catalog, writes>>
    PROVE  SnapshotInv'
  <1>1. ReadingInv'
    BY DEF ReadingInv, NotReading
  <1>2. ResultInv'
    BY DEF ResultInv
  <1>3. QED
    BY <1>1, <1>2, CatalogKept DEF SnapshotInv

LEMMA BeginSnapshotKeeps ==
    ASSUME SnapshotInv, BeginSnapshot
    PROVE  SnapshotInv'
  <1>1. CASE managed # catalog.version
    BY <1>1, EndKeeps DEF BeginSnapshot
  <1>2. CASE managed = catalog.version
    <2>1. reading' = [phase |-> "verified", version |-> NoFile, batches |-> <<>>, from |-> writes]
      BY <1>2 DEF BeginSnapshot, NotReading
    <2>2. writes \in Nat
      BY DEF SnapshotInv, SourceTypes
    <2>3. ReadingInv'
      <3>1. /\ managed' = managed /\ catalog' = catalog /\ writes' = writes /\ snapshotResult' = NoFile
            /\ catalog # NoFile /\ catalog.version # NoFile
        BY DEF BeginSnapshot
      <3>2. /\ reading'.phase = "verified" /\ reading'.version = NoFile
            /\ reading'.batches = <<>> /\ reading'.from = writes
        BY <2>1
      <3>3. QED
        BY <1>2, <2>1, <2>2, <3>1, <3>2 DEF ReadingInv
    <2>4. ResultInv'
      BY DEF ResultInv, BeginSnapshot
    <2>5. QED
      BY <2>3, <2>4, CatalogKept DEF SnapshotInv, BeginSnapshot
  <1>3. QED
    BY <1>1, <1>2

LEMMA OpenFileKeeps ==
    ASSUME SnapshotInv, OpenFile
    PROVE  SnapshotInv'
  <1>1. CASE Ended
    BY <1>1, EndKeeps DEF OpenFile, Ended
  <1>2. CASE HeaderServes(managed) /\ reading' = [reading EXCEPT !.phase = "open", !.version = managed]
             /\ UNCHANGED snapshotResult
    <2>1. /\ reading = [phase |-> reading.phase, version |-> reading.version,
                        batches |-> reading.batches, from |-> reading.from]
          /\ reading.from \in Nat /\ reading.from <= writes /\ reading.batches = <<>>
          /\ catalog # NoFile /\ catalog.version # NoFile /\ snapshotResult = NoFile
          /\ managed # catalog.version => writes > reading.from
          /\ managed \in Files /\ managed # NoFile
          /\ Range(catalog.columns) \subseteq Range(managed.header)
          /\ extraction \in ExtractionPolicies
      BY <1>2 DEF SnapshotInv, SourceTypes, ReadingInv, OpenFile, HeaderServes
    <2>2. reading' = [phase |-> "open", version |-> managed, batches |-> <<>>, from |-> reading.from]
      BY <1>2, <2>1
    <2>3. UNCHANGED <<fileKind, extraction, registered, managed, catalog, staged, writes, snapshotResult>>
      BY <1>2 DEF OpenFile
    <2>4. BatchFiles(<<>>) = {}
      BY DEF BatchFiles, Range
    <2>5. IsStart(<<>>, Batches(fileKind, managed, extraction))
      <3> DEFINE t == Batches(fileKind, managed, extraction)
      <3>1. t \in Seq(Range(t))
        BY <2>1, FilesAre, BatchesSequence, SourceAssumption
      <3> HIDE DEF t
      <3>2. Len(t) \in Nat
        BY <3>1
      <3>3. QED
        BY <3>2 DEF IsStart, t
    <2>6. OpenInv'
      BY <2>1, <2>2, <2>3, <2>4, <2>5 DEF OpenInv
    <2>7. ReadingInv'
      BY <2>1, <2>2, <2>3, <2>6 DEF ReadingInv
    <2>8. ResultInv'
      BY <2>1, <2>3 DEF ResultInv
    <2>9. QED
      BY <2>3, <2>7, <2>8, CatalogKept DEF SnapshotInv
  <1>3. QED
    BY <1>1, <1>2 DEF OpenFile

LEMMA StageBatchKeeps ==
    ASSUME SnapshotInv, StageBatch
    PROVE  SnapshotInv'
  <1>0. UNCHANGED <<fileKind, extraction, registered, managed, catalog, writes>>
    BY DEF StageBatch
  <1>1. CASE Ended
    BY <1>0, <1>1, EndKeeps DEF Ended
  <1> DEFINE all == Batches(fileKind, reading.version, extraction)
             done == reading.batches
             batch == all[Len(done) + 1]
  <1>2. CASE /\ staged' = staged \cup {BatchFile(batch)}
             /\ reading' = [reading EXCEPT !.batches = Append(done, batch)]
             /\ UNCHANGED snapshotResult
    <2>1. /\ reading = [phase |-> reading.phase, version |-> reading.version,
                        batches |-> done, from |-> reading.from]
          /\ reading.from \in Nat /\ reading.from <= writes /\ reading.phase = "open"
          /\ catalog # NoFile /\ catalog.version # NoFile /\ snapshotResult = NoFile
          /\ extraction \in ExtractionPolicies
      BY DEF SnapshotInv, SourceTypes, ReadingInv, StageBatch
    <2>2. /\ reading.version \in Files
          /\ Range(catalog.columns) \subseteq Range(reading.version.header)
          /\ reading.version # catalog.version =>
                writes > reading.from /\ (managed = catalog.version => writes > reading.from + 1)
          /\ IsStart(done, all) /\ BatchFiles(done) \subseteq staged
      BY <2>1 DEF SnapshotInv, ReadingInv, OpenInv
    <2>3. Len(done) < Len(all)
      BY DEF StageBatch, Pending
    <2>4. all \in Seq(Range(all))
      BY <2>1, <2>2, FilesAre, BatchesSequence, SourceAssumption
    <2>5. reading' = [phase |-> "open", version |-> reading.version,
                      batches |-> Append(done, batch), from |-> reading.from]
      BY <1>2, <2>1
    <2>6. /\ reading'.phase = "open" /\ reading'.version = reading.version
          /\ reading'.batches = Append(done, batch) /\ reading'.from = reading.from
      BY <2>5
    <2> HIDE DEF all, done
    <2>7. done \in Seq(Range(all)) /\ Len(done) \in Nat /\ Len(all) \in Nat /\ batch \in Range(all)
      <3>1. done \in Seq(Range(all))
        BY <2>2 DEF IsStart
      <3>2. Len(done) \in Nat /\ Len(all) \in Nat
        BY <2>4, <3>1
      <3>3. Len(done) + 1 \in 1 .. Len(all)
        BY <2>3, <3>2
      <3>4. QED
        BY <2>4, <3>1, <3>2, <3>3
    <2>8. IsStart(Append(done, batch), all)
      <3>1. /\ Append(done, batch) \in Seq(Range(all)) /\ Len(Append(done, batch)) = Len(done) + 1
            /\ Append(done, batch)[Len(done) + 1] = batch
            /\ \A i \in 1 .. Len(done) : Append(done, batch)[i] = done[i]
        BY <2>7
      <3>2. \A i \in 1 .. Len(done) : done[i] = all[i]
        BY <2>2 DEF IsStart
      <3>3. \A i \in 1 .. Len(done) + 1 : i \in 1 .. Len(done) \/ i = Len(done) + 1
        BY <2>7
      <3>4. QED
        BY <2>3, <2>7, <3>1, <3>2, <3>3 DEF IsStart
    <2>9. BatchFiles(Append(done, batch)) \subseteq staged'
      <3>1. Range(Append(done, batch)) \subseteq Range(done) \cup {batch}
        <4>1. /\ DOMAIN Append(done, batch) = 1 .. Len(done) + 1
              /\ Append(done, batch)[Len(done) + 1] = batch
              /\ \A i \in 1 .. Len(done) : i \in DOMAIN done /\ Append(done, batch)[i] = done[i]
          BY <2>7
        <4>2. \A i \in 1 .. Len(done) + 1 : i \in 1 .. Len(done) \/ i = Len(done) + 1
          BY <2>7
        <4>3. QED
          BY <4>1, <4>2 DEF Range
      <3>2. BatchFiles(Append(done, batch)) \subseteq BatchFiles(done) \cup {BatchFile(batch)}
        BY <3>1 DEF BatchFiles
      <3>3. QED
        BY <1>2, <2>2, <3>2
    <2> HIDE DEF batch
    <2>10. OpenInv'
      <3>1. IsStart(Append(done, batch), Batches(fileKind, reading.version, extraction))
        BY <2>8 DEF all
      <3>2. QED
        BY <1>0, <2>2, <2>6, <2>9, <3>1 DEF OpenInv
    <2>11. ReadingInv'
      <3>1. snapshotResult' = NoFile
        BY <1>2, <2>1
      <3>2. QED
        BY <1>0, <2>1, <2>5, <2>6, <2>10, <3>1 DEF ReadingInv
    <2>12. ResultInv'
      BY <1>2, <2>1 DEF ResultInv
    <2>13. QED
      BY <1>0, <2>11, <2>12, CatalogKept DEF SnapshotInv
  <1>3. QED
    BY <1>1, <1>2 DEF StageBatch, Pending

\* The result is returned only if the file at the path is, again, the one that
\* was fingerprinted, and then the one that was read is it too, or the file
\* was replaced twice.
LEMMA ReturnedFaithful ==
    ASSUME SnapshotInv, reading.phase = "open", Len(reading.batches) = Len(Pending),
           FailsAt(fileKind, reading.version, extraction) = {}, FileUnchanged
    PROVE  ResultFaithful(Returned, fileKind, extraction, catalog, staged)
  <1> DEFINE v == reading.version
             all == Batches(fileKind, v, extraction)
  <1>1. /\ v \in Files /\ extraction \in ExtractionPolicies /\ writes \in Nat /\ reading.from \in Nat
        /\ Range(catalog.columns) \subseteq Range(v.header)
        /\ v # catalog.version => writes > reading.from + 1
        /\ IsStart(reading.batches, all) /\ BatchFiles(reading.batches) \subseteq staged
        /\ catalog # NoFile /\ catalog.version # NoFile
    BY DEF SnapshotInv, SourceTypes, ReadingInv, OpenInv, FileUnchanged
  <1>2. IsVersion(v) /\ extraction.chunk \in Nat \ {0} /\ extraction.max \in Nat
    BY <1>1, FilesAre, SourceAssumption
  <1>3. all \in Seq(Range(all))
    BY <1>2, BatchesSequence
  <1>4. reading.batches = all
    <2>1. Len(reading.batches) = Len(all)
      BY DEF Pending
    <2> HIDE DEF all
    <2>2. reading.batches \in Seq(Range(all)) /\ \A i \in 1 .. Len(reading.batches) : reading.batches[i] = all[i]
      BY <1>1 DEF IsStart
    <2>3. QED
      BY <1>3, <2>1, <2>2, SeqEqual
  <1>5. PassFaithful(fileKind, v, extraction, all)
    BY <1>2, PassHolds
  <1>6. writes - reading.from < 2 => v = catalog.version
    BY <1>1
  <1>7. catalog.at = 0 => catalog.columns = catalog.version.header
    BY <1>1 DEF SnapshotInv, CatalogInv
  <1> HIDE DEF all
  <1>8. /\ Returned.version = v /\ Returned.batches = all /\ Returned.rewrites = writes - reading.from
        /\ Returned.observed = Observed(fileKind, v, extraction)
        /\ Returned.references = References(all)
        /\ Returned.table = TableStatus(fileKind, v, extraction)
    BY <1>4 DEF Returned
  <1>9. QED
    BY <1>1, <1>4, <1>5, <1>6, <1>7, <1>8 DEF ResultFaithful

LEMMA FinishSnapshotKeeps ==
    ASSUME SnapshotInv, FinishSnapshot
    PROVE  SnapshotInv'
  <1>0. UNCHANGED <<fileKind, extraction, registered, managed, catalog, writes>>
    BY DEF FinishSnapshot
  <1>1. CASE Ended
    BY <1>0, <1>1, EndKeeps DEF Ended
  <1>2. CASE FileUnchanged /\ snapshotResult' = Returned /\ reading' = NotReading /\ UNCHANGED staged
    <2>1. ResultFaithful(Returned, fileKind, extraction, catalog, staged)
      BY <1>2, ReturnedFaithful DEF FinishSnapshot
    <2>2. catalog # NoFile /\ catalog.version # NoFile
      BY DEF SnapshotInv, ReadingInv, FinishSnapshot
    <2>3. PICK result : result = Returned
      OBVIOUS
    <2>4. snapshotResult' = result /\ ResultFaithful(result, fileKind, extraction, catalog, staged)
      BY <1>2, <2>1, <2>3
    <2>5. ResultInv'
      BY <1>0, <1>2, <2>2, <2>4 DEF ResultInv
    <2>6. ReadingInv'
      BY <1>2 DEF ReadingInv, NotReading
    <2>7. QED
      BY <1>0, <2>5, <2>6, CatalogKept DEF SnapshotInv
  <1>3. QED
    BY <1>1, <1>2 DEF FinishSnapshot

LEMMA SourceNextKeeps ==
    ASSUME SnapshotInv, [SourceNext]_sourceVars
    PROVE  SnapshotInv'
  <1>1. ASSUME NEW u \in Uploads, ImportWrite(u) \/ OwnerRewrites(u) PROVE SnapshotInv'
    <2>1. u.version \in Files
      BY DEF Files
    <2>2. QED
      BY <1>1, <2>1, WriteKeeps DEF ImportWrite, OwnerRewrites
  <1>2. ASSUME NEW u \in Uploads, ImportRegister(u) PROVE SnapshotInv'
    <2>1. u.record # NoFile
      BY SourceAssumption
    <2>2. QED
      BY <1>2, <2>1, RegisterKeeps DEF ImportRegister
  <1>3. ASSUME NEW u \in Uploads, RegisterReadOnly(u) PROVE SnapshotInv'
    BY <1>3, RegisterReadOnlyKeeps
  <1>4. ASSUME DiscoverHeader \/ DiscoverFingerprint PROVE SnapshotInv'
    BY <1>4, DiscoverHeaderKeeps, DiscoverFingerprintKeeps
  <1>5. ASSUME BeginSnapshot \/ OpenFile \/ StageBatch \/ FinishSnapshot PROVE SnapshotInv'
    BY <1>5, BeginSnapshotKeeps, OpenFileKeeps, StageBatchKeeps, FinishSnapshotKeeps
  <1>6. ASSUME ReadFails \/ SnapshotCrash PROVE SnapshotInv'
    BY <1>6, EndKeeps DEF ReadFails, SnapshotCrash, Ended
  <1>7. ASSUME UNCHANGED sourceVars PROVE SnapshotInv'
    BY <1>7
    DEF sourceVars, SnapshotInv, SourceTypes, CatalogInv, ReadingInv, OpenInv, ResultInv
  <1>8. QED
    BY <1>1, <1>2, <1>3, <1>4, <1>5, <1>6, <1>7 DEF SourceNext

-----------------------------------------------------------------------------
\* Whatever is imported, refused, removed, rewritten, discarded or left over
\* from a crash, a snapshot create_bounded_snapshot returned holds in order and
\* once each the rows of the file discovery fingerprinted, or of a single other
\* version if the file was replaced twice meanwhile; its batch files are on
\* disk, its references are distinct and its accounting adds up: for every
\* file, chunk size and bound, and any number of imports, attempts and faults.
THEOREM SnapshotFaithful == SourceSpec => []SnapshotIsFaithful
  <1>1. SourceInit => SnapshotInv
    BY DEF SourceInit, SnapshotInv, SourceTypes, CatalogInv, ReadingInv, ResultInv, NotReading
  <1>2. SnapshotInv /\ [SourceNext]_sourceVars => SnapshotInv'
    BY SourceNextKeeps
  <1>3. SnapshotInv => SnapshotIsFaithful
    BY DEF SnapshotInv, ResultInv, ResultFaithful, PassFaithful, SnapshotIsFaithful, AccountingValid
  <1>4. QED
    BY <1>1, <1>2, <1>3, PTL DEF SourceSpec

-----------------------------------------------------------------------------
(* Partitioned execution: sums over the rows.                              *)

\* One term that differs makes all the difference.
LEMMA SumBump ==
    ASSUME NEW w, NEW v, NEW S, IsFiniteSet(S), NEW x \in S, NEW d \in Int,
           \A y \in S : w[y] \in Int /\ v[y] \in Int,
           \A y \in S \ {x} : w[y] = v[y],
           w[x] = v[x] + d
    PROVE  SumFunctionOnSet(w, S) = SumFunctionOnSet(v, S) + d
  <1> DEFINE T == S \ {x}
  <1>1. IsFiniteSet(T)
    BY FS_Subset
  <1>2. SumFunctionOnSet(w, S) = w[x] + SumFunctionOnSet(w, T)
    BY SumFacts
  <1>3. SumFunctionOnSet(v, S) = v[x] + SumFunctionOnSet(v, T)
    BY SumFacts
  <1>4. SumFunctionOnSet(w, T) = SumFunctionOnSet(v, T)
    BY <1>1, SumSame
  <1>5. SumFunctionOnSet(v, T) \in Int
    BY <1>1, SumFacts
  <1>6. QED
    BY <1>2, <1>3, <1>4, <1>5

LEMMA SumZero ==
    ASSUME NEW w, NEW S, IsFiniteSet(S), \A x \in S : w[x] = 0
    PROVE  SumFunctionOnSet(w, S) = 0
  <1> DEFINE Bad == {t \in SUBSET S : SumFunctionOnSet(w, t) # 0}
  <1> SUFFICES ASSUME Bad # {} PROVE FALSE
    OBVIOUS
  <1>1. \A t \in Bad : IsFiniteSet(t)
    BY FS_Subset
  <1>2. PICK t \in Bad : \A y \in Bad : y \subseteq t => y = t
    <2> HIDE DEF Bad
    <2>1. QED
      BY <1>1, SmallestSet
  <1>3. IsFiniteSet(t) /\ \A x \in t : w[x] \in Int
    BY <1>1
  <1>4. t # {}
    BY <1>3, SumFacts
  <1>5. PICK x : x \in t
    BY <1>4
  <1>6. SumFunctionOnSet(w, t) = w[x] + SumFunctionOnSet(w, t \ {x})
    BY <1>3, <1>5, SumFacts
  <1>7. SumFunctionOnSet(w, t \ {x}) = 0
    BY <1>2, <1>5
  <1>8. w[x] = 0
    BY <1>5
  <1>9. QED
    BY <1>6, <1>7, <1>8

\* A set has as many elements as ones can be counted in it.
LEMMA SumOnes ==
    ASSUME NEW w, NEW S, IsFiniteSet(S), \A x \in S : w[x] = 1
    PROVE  SumFunctionOnSet(w, S) = Cardinality(S)
  <1> DEFINE Bad == {t \in SUBSET S : SumFunctionOnSet(w, t) # Cardinality(t)}
  <1> SUFFICES ASSUME Bad # {} PROVE FALSE
    OBVIOUS
  <1>1. \A t \in Bad : IsFiniteSet(t)
    BY FS_Subset
  <1>2. PICK t \in Bad : \A y \in Bad : y \subseteq t => y = t
    <2> HIDE DEF Bad
    <2>1. QED
      BY <1>1, SmallestSet
  <1>3. IsFiniteSet(t) /\ \A x \in t : w[x] \in Int
    BY <1>1
  <1>4. t # {}
    <2>1. Cardinality({}) = 0
      BY FS_EmptySet
    <2>2. t = {} => SumFunctionOnSet(w, t) = 0
      BY <1>3, SumFacts
    <2>3. QED
      BY <2>1, <2>2
  <1>5. PICK x : x \in t
    BY <1>4
  <1>6. SumFunctionOnSet(w, t) = w[x] + SumFunctionOnSet(w, t \ {x})
    BY <1>3, <1>5, SumFacts
  <1>7. SumFunctionOnSet(w, t \ {x}) = Cardinality(t \ {x})
    BY <1>2, <1>5
  <1>8. Cardinality(t \ {x}) = Cardinality(t) - 1
    BY <1>3, <1>5, FS_RemoveElement
  <1>9. Cardinality(t) \in Nat /\ w[x] = 1
    BY <1>3, <1>5, FS_CardinalityType
  <1>10. QED
    BY <1>6, <1>7, <1>8, <1>9

\* The members of R that b sends to i.
Fibre(R, b, i) == {r \in R : b[r] = i}

\* Summing by parts is summing.
LEMMA SumFibres ==
    ASSUME NEW w, NEW R, IsFiniteSet(R), \A r \in R : w[r] \in Int,
           NEW I, IsFiniteSet(I), NEW b, \A r \in R : b[r] \in I
    PROVE  SumFunctionOnSet([i \in I |-> SumFunctionOnSet(w, Fibre(R, b, i))], I)
             = SumFunctionOnSet(w, R)
  <1> DEFINE parts(t) == [i \in I |-> SumFunctionOnSet(w, Fibre(t, b, i))]
             Bad == {t \in SUBSET R : SumFunctionOnSet(parts(t), I) # SumFunctionOnSet(w, t)}
  <1> SUFFICES ASSUME Bad # {} PROVE FALSE
    OBVIOUS
  <1>1. \A t \in Bad : IsFiniteSet(t)
    BY FS_Subset
  <1>2. PICK t \in Bad : \A y \in Bad : y \subseteq t => y = t
    <2> HIDE DEF Bad
    <2>1. QED
      BY <1>1, SmallestSet
  <1>3. IsFiniteSet(t) /\ \A r \in t : w[r] \in Int /\ b[r] \in I
    BY <1>1
  <1>4. ASSUME NEW u \in SUBSET t, NEW i \in I
        PROVE  /\ IsFiniteSet(Fibre(u, b, i)) /\ \A r \in Fibre(u, b, i) : w[r] \in Int
               /\ parts(u)[i] \in Int
               /\ parts(u)[i] = SumFunctionOnSet(w, Fibre(u, b, i))
    <2>1. Fibre(u, b, i) \subseteq t
      BY DEF Fibre
    <2>2. IsFiniteSet(Fibre(u, b, i)) /\ \A r \in Fibre(u, b, i) : w[r] \in Int
      BY <1>3, <2>1, FS_Subset
    <2>3. SumFunctionOnSet(w, Fibre(u, b, i)) \in Int
      BY <2>2, SumFacts
    <2>4. QED
      BY <2>2, <2>3
  <1>5. t # {}
    <2> SUFFICES ASSUME t = {} PROVE FALSE
      OBVIOUS
    <2>1. SumFunctionOnSet(w, t) = 0
      BY <1>3, SumFacts
    <2>2. \A i \in I : Fibre(t, b, i) = {}
      BY DEF Fibre
    <2>3. \A i \in I : parts(t)[i] = 0
      BY <1>4, <2>2, SumFacts
    <2>4. SumFunctionOnSet(parts(t), I) = 0
      <3> HIDE DEF parts
      <3>1. QED
        BY <2>3, SumZero
    <2>5. QED
      BY <2>1, <2>4
  <1>6. PICK x : x \in t
    BY <1>5
  <1> DEFINE u == t \ {x}
  <1>7. u \in SUBSET t /\ t \in SUBSET t /\ u # t
    BY <1>6
  <1>8. SumFunctionOnSet(parts(u), I) = SumFunctionOnSet(w, u)
    BY <1>2, <1>7
  <1>9. SumFunctionOnSet(w, t) = w[x] + SumFunctionOnSet(w, u)
    BY <1>3, <1>6, SumFacts
  <1>10. \A i \in I \ {b[x]} : parts(t)[i] = parts(u)[i]
    <2>1. ASSUME NEW i \in I, i # b[x] PROVE Fibre(t, b, i) = Fibre(u, b, i)
      <3>1. \A r : r \in t /\ b[r] = i <=> r \in u /\ b[r] = i
        BY <2>1
      <3> HIDE DEF u
      <3>2. QED
        BY <3>1 DEF Fibre
    <2>2. QED
      BY <2>1
  <1>11. parts(t)[b[x]] = parts(u)[b[x]] + w[x]
    <2>1. b[x] \in I
      BY <1>3, <1>6
    <2>2. x \in Fibre(t, b, b[x]) /\ Fibre(t, b, b[x]) \ {x} = Fibre(u, b, b[x])
      BY <1>6 DEF Fibre
    <2>3. SumFunctionOnSet(w, Fibre(t, b, b[x])) = w[x] + SumFunctionOnSet(w, Fibre(u, b, b[x]))
      <3> DEFINE F == Fibre(t, b, b[x])
      <3>1. IsFiniteSet(F) /\ \A r \in F : w[r] \in Int
        BY <1>4, <1>7, <2>1
      <3> HIDE DEF F
      <3>2. \A y \in F : SumFunctionOnSet(w, F) = w[y] + SumFunctionOnSet(w, F \ {y})
        BY <3>1, SumFacts
      <3>3. QED
        BY <2>2, <3>2 DEF F
    <2>4. w[x] \in Int
      BY <1>3, <1>6
    <2>5. parts(t)[b[x]] = w[x] + parts(u)[b[x]] /\ parts(u)[b[x]] \in Int
      BY <1>4, <1>7, <2>1, <2>3
    <2> HIDE DEF parts
    <2>6. QED
      BY <2>4, <2>5
  <1>12. SumFunctionOnSet(parts(t), I) = SumFunctionOnSet(parts(u), I) + w[x]
    <2>1. b[x] \in I /\ w[x] \in Int
      BY <1>3, <1>6
    <2>2. \A i \in I : parts(t)[i] \in Int /\ parts(u)[i] \in Int
      BY <1>4, <1>7
    <2> DEFINE p == parts(t)
               q == parts(u)
               j == b[x]
               d == w[x]
    <2>3. /\ j \in I /\ d \in Int /\ p[j] = q[j] + d
          /\ \A i \in I : p[i] \in Int /\ q[i] \in Int
          /\ \A i \in I \ {j} : p[i] = q[i]
      BY <1>10, <1>11, <2>1, <2>2
    <2> HIDE DEF p, q, j, d, Bad
    <2>4. SumFunctionOnSet(p, I) = SumFunctionOnSet(q, I) + d
      BY <2>3, SumBump
    <2>5. QED
      BY <2>4 DEF p, q, d
  <1>13. SumFunctionOnSet(w, u) \in Int /\ w[x] \in Int
    <2>1. IsFiniteSet(u)
      BY <1>3, <1>7, FS_Subset
    <2>2. QED
      BY <1>3, <1>6, <1>7, <2>1, SumFacts
  <1>14. SumFunctionOnSet(parts(t), I) # SumFunctionOnSet(w, t)
    OBVIOUS
  <1> HIDE DEF parts, Bad, u
  <1>15. QED
    BY <1>8, <1>9, <1>12, <1>13, <1>14

\* Counting by parts is counting.
LEMMA CountFibres ==
    ASSUME NEW R, IsFiniteSet(R), NEW I, IsFiniteSet(I), NEW b, \A r \in R : b[r] \in I
    PROVE  SumFunctionOnSet([i \in I |-> Cardinality(Fibre(R, b, i))], I) = Cardinality(R)
  <1> DEFINE one == [r \in R |-> 1]
             sums == [i \in I |-> SumFunctionOnSet(one, Fibre(R, b, i))]
             sizes == [i \in I |-> Cardinality(Fibre(R, b, i))]
  <1>1. \A r \in R : one[r] = 1 /\ one[r] \in Int
    OBVIOUS
  <1> HIDE DEF one
  <1>2. SumFunctionOnSet(one, R) = Cardinality(R)
    BY <1>1, SumOnes
  <1>3. SumFunctionOnSet(sums, I) = SumFunctionOnSet(one, R)
    BY <1>1, SumFibres
  <1>4. ASSUME NEW i \in I PROVE sums[i] = sizes[i]
    <2>1. Fibre(R, b, i) \subseteq R
      BY DEF Fibre
    <2>2. IsFiniteSet(Fibre(R, b, i)) /\ \A r \in Fibre(R, b, i) : one[r] = 1
      BY <1>1, <2>1, FS_Subset
    <2>3. SumFunctionOnSet(one, Fibre(R, b, i)) = Cardinality(Fibre(R, b, i))
      BY <2>2, SumOnes
    <2>4. QED
      BY <2>3
  <1> HIDE DEF sums, sizes
  <1>5. SumFunctionOnSet(sums, I) = SumFunctionOnSet(sizes, I)
    BY <1>4, SumSame
  <1>6. QED
    BY <1>2, <1>3, <1>5 DEF sizes

\* Summing over things that are numbered is summing over their numbers.
LEMMA SumNumbered ==
    ASSUME NEW I, IsFiniteSet(I), NEW out, \A i \in I : out[i].part = i,
           NEW w, \A i \in I : w[out[i]] \in Int
    PROVE  SumFunctionOnSet(w, {out[i] : i \in I}) = SumFunctionOnSet([i \in I |-> w[out[i]]], I)
  <1> DEFINE R == {out[i] : i \in I}
             b == [o \in R |-> o.part]
             sums == [i \in I |-> SumFunctionOnSet(w, Fibre(R, b, i))]
             terms == [i \in I |-> w[out[i]]]
  <1>1. IsFiniteSet(R)
    <2> DEFINE f == [i \in I |-> out[i]]
    <2>1. f \in Surjection(I, R)
      BY DEF Surjection
    <2> HIDE DEF f, R
    <2>2. QED
      BY <2>1, FS_Surjection
  <1>2. \A r \in R : w[r] \in Int /\ b[r] \in I
    OBVIOUS
  <1>3. ASSUME NEW i \in I PROVE sums[i] = terms[i]
    <2>1. Fibre(R, b, i) = {out[i]}
      BY DEF Fibre
    <2> DEFINE s == {out[i]}
    <2>2. IsFiniteSet(s) /\ \A x \in s : w[x] \in Int
      BY FS_Singleton
    <2>3. out[i] \in s /\ s \ {out[i]} = {}
      OBVIOUS
    <2> HIDE DEF s
    <2>4. SumFunctionOnSet(w, s) = w[out[i]] + SumFunctionOnSet(w, {})
      BY <2>2, <2>3, SumFacts
    <2>5. SumFunctionOnSet(w, {}) = 0
      <3>1. IsFiniteSet({}) /\ \A x \in {} : w[x] \in Int
        BY FS_EmptySet
      <3>2. QED
        BY <3>1, SumFacts
    <2>6. SumFunctionOnSet(w, s) = w[out[i]]
      BY <2>4, <2>5
    <2>7. QED
      BY <2>1, <2>6 DEF s
  <1> HIDE DEF R, b, terms
  <1>4. SumFunctionOnSet(sums, I) = SumFunctionOnSet(w, R)
    BY <1>1, <1>2, SumFibres
  <1> HIDE DEF sums
  <1>5. SumFunctionOnSet(sums, I) = SumFunctionOnSet(terms, I)
    BY <1>3, SumSame
  <1>6. QED
    BY <1>4, <1>5 DEF R, terms

-----------------------------------------------------------------------------
(* Extremes.                                                               *)

LEMMA ExtremesExist ==
    ASSUME NEW S, S \subseteq Int, IsFiniteSet(S), S # {}
    PROVE  /\ \E x \in S : \A y \in S : x <= y
           /\ \E x \in S : \A y \in S : x >= y
  <1> DEFINE Bad == {t \in SUBSET S : t # {} /\ ~(/\ \E x \in t : \A y \in t : x <= y
                                                  /\ \E x \in t : \A y \in t : x >= y)}
  <1> SUFFICES ASSUME Bad # {} PROVE FALSE
    OBVIOUS
  <1>1. \A t \in Bad : IsFiniteSet(t)
    BY FS_Subset
  <1>2. PICK t \in Bad : \A y \in Bad : y \subseteq t => y = t
    <2> HIDE DEF Bad
    <2>1. QED
      BY <1>1, SmallestSet
  <1>3. PICK z : z \in t
    OBVIOUS
  <1>4. t # {z}
    <2> SUFFICES ASSUME t = {z} PROVE FALSE
      OBVIOUS
    <2>1. z \in Int
      OBVIOUS
    <2>2. \A y \in t : z <= y /\ z >= y
      BY <2>1
    <2>3. QED
      BY <1>3, <2>2
  <1>5. t \ {z} \notin Bad
    BY <1>2, <1>3
  <1>6. PICK lo \in t \ {z} : \A y \in t \ {z} : lo <= y
    BY <1>4, <1>5
  <1>7. PICK hi \in t \ {z} : \A y \in t \ {z} : hi >= y
    BY <1>4, <1>5
  <1>8. \E x \in t : \A y \in t : x <= y
    BY <1>3, <1>6
  <1>9. \E x \in t : \A y \in t : x >= y
    BY <1>3, <1>7
  <1>10. QED
    BY <1>8, <1>9

\* None or the least, none or the greatest.
LEMMA ExtremeIs ==
    ASSUME NEW S, S \subseteq Int, IsFiniteSet(S)
    PROVE  /\ LeastOf(S) = {x \in S : \A y \in S : x <= y}
           /\ GreatestOf(S) = {x \in S : \A y \in S : x >= y}
  <1>1. CASE S = {}
    BY <1>1 DEF LeastOf, GreatestOf
  <1>2. CASE S # {}
    <2>0. /\ \E x \in S : \A y \in S : x <= y
          /\ \E x \in S : \A y \in S : x >= y
      BY <1>2, ExtremesExist
    <2>1. Min(S) \in S /\ \A y \in S : Min(S) <= y
      BY <2>0, Zenon DEF Min
    <2>2. Max(S) \in S /\ \A y \in S : Max(S) >= y
      BY <2>0, Zenon DEF Max
    <2>3. ASSUME NEW x \in S, \A y \in S : x <= y PROVE x = Min(S)
      <3>1. x <= Min(S) /\ Min(S) <= x
        BY <2>1, <2>3
      <3>2. x \in Int /\ Min(S) \in Int
        BY <2>1
      <3>3. QED
        BY <3>1, <3>2
    <2>4. ASSUME NEW x \in S, \A y \in S : x >= y PROVE x = Max(S)
      <3>1. x >= Max(S) /\ Max(S) >= x
        BY <2>2, <2>4
      <3>2. x \in Int /\ Max(S) \in Int
        BY <2>2
      <3>3. QED
        BY <3>1, <3>2
    <2>5. LeastOf(S) = {Min(S)} /\ GreatestOf(S) = {Max(S)}
      BY <1>2 DEF LeastOf, GreatestOf
    <2>6. {x \in S : \A y \in S : x <= y} = {Min(S)}
      BY <2>1, <2>3
    <2>7. {x \in S : \A y \in S : x >= y} = {Max(S)}
      BY <2>2, <2>4
    <2>8. QED
      BY <2>5, <2>6, <2>7
  <1>3. QED
    BY <1>1, <1>2

\* The extreme of the extremes of the parts is the extreme of the whole.
LEMMA ExtremeOfParts ==
    ASSUME NEW S, IsFiniteSet(S), S \subseteq Int,
           NEW lo \in SUBSET S, \A y \in S : \E z \in lo : z <= y,
           NEW hi \in SUBSET S, \A y \in S : \E z \in hi : z >= y
    PROVE  /\ \A x : x \in LeastOf(lo) <=> x \in S /\ \A y \in S : x <= y
           /\ \A x : x \in GreatestOf(hi) <=> x \in S /\ \A y \in S : x >= y
  <1>1. /\ lo \subseteq S /\ \A y \in S : \E z \in lo : z <= y
        /\ hi \subseteq S /\ \A y \in S : \E z \in hi : z >= y
    OBVIOUS
  <1>2. IsFiniteSet(lo) /\ IsFiniteSet(hi) /\ lo \subseteq Int /\ hi \subseteq Int
    BY <1>1, FS_Subset
  <1>3. /\ LeastOf(lo) = {x \in lo : \A y \in lo : x <= y}
        /\ GreatestOf(hi) = {x \in hi : \A y \in hi : x >= y}
    BY <1>2, ExtremeIs
  <1>4. {x \in lo : \A y \in lo : x <= y} = {x \in S : \A y \in S : x <= y}
    <2>1. ASSUME NEW x \in lo, \A y \in lo : x <= y PROVE \A y \in S : x <= y
      BY <1>1, <1>2, <2>1
    <2>2. ASSUME NEW x \in S, \A y \in S : x <= y PROVE x \in lo
      <3>1. PICK z \in lo : z <= x
        BY <1>1
      <3>2. z = x
        BY <1>1, <2>2, <3>1
      <3>3. QED
        BY <3>2
    <2>3. QED
      BY <1>1, <2>1, <2>2
  <1>5. {x \in hi : \A y \in hi : x >= y} = {x \in S : \A y \in S : x >= y}
    <2>1. ASSUME NEW x \in hi, \A y \in hi : x >= y PROVE \A y \in S : x >= y
      BY <1>1, <1>2, <2>1
    <2>2. ASSUME NEW x \in S, \A y \in S : x >= y PROVE x \in hi
      <3>1. PICK z \in hi : z >= x
        BY <1>1
      <3>2. z = x
        BY <1>1, <2>2, <3>1
      <3>3. QED
        BY <3>2
    <2>3. QED
      BY <1>1, <2>1, <2>2
  <1>6. QED
    BY <1>3, <1>4, <1>5

-----------------------------------------------------------------------------
(* Partitions.                                                             *)

\* A plan that cuts into at least one partition.
Cuts(p) == p.count \in Nat \ {0} /\ IsFiniteSet(p.boundaries)

LEMMA MinMaxOfTwo ==
    ASSUME NEW a \in Int, NEW b \in Int
    PROVE  /\ Min({a, b}) = IF a <= b THEN a ELSE b
           /\ Max({a, b}) = IF a >= b THEN a ELSE b
  <1>1. IsFiniteSet({a, b}) /\ {a, b} \subseteq Int /\ {a, b} # {}
    <2>1. IsFiniteSet({a})
      BY FS_Singleton
    <2>2. {a, b} = {a} \cup {b}
      OBVIOUS
    <2>3. IsFiniteSet({a} \cup {b})
      BY <2>1, FS_AddElement
    <2>4. QED
      BY <2>2, <2>3
  <1> DEFINE S == {a, b}
  <1>2. /\ \E x \in S : \A y \in S : x <= y
        /\ \E x \in S : \A y \in S : x >= y
    <2> HIDE DEF S
    <2>1. QED
      BY <1>1, ExtremesExist DEF S
  <1> HIDE DEF S
  <1>3. Min(S) \in S /\ \A y \in S : Min(S) <= y
    BY <1>2, Zenon DEF Min
  <1>4. Max(S) \in S /\ \A y \in S : Max(S) >= y
    BY <1>2, Zenon DEF Max
  <1>5. QED
    BY <1>3, <1>4 DEF S

\* Every row goes to a partition of the plan.
LEMMA BucketIn ==
    ASSUME NEW rows \in Datasets, NEW r \in rows, NEW p, Cuts(p)
    PROVE  Bucket(r, p.strategy, p.count, p.boundaries) \in Indices(p.count)
  <1>1. p.count \in Nat /\ p.count > 0
    BY DEF Cuts
  <1>2. CASE p.strategy = "SINGLE_NODE"
    BY <1>1, <1>2 DEF Bucket, Indices
  <1>3. CASE p.strategy = "RANGE"
    <2> DEFINE c == Cardinality({b \in p.boundaries : r.key >= b})
    <2>1. c \in Nat
      <3>1. IsFiniteSet({b \in p.boundaries : r.key >= b})
        BY FS_Subset DEF Cuts
      <3>2. QED
        BY <3>1, FS_CardinalityType
    <2>2. Bucket(r, p.strategy, p.count, p.boundaries) = Min({c, p.count - 1})
      BY <1>3 DEF Bucket
    <2> HIDE DEF c
    <2>3. Min({c, p.count - 1}) = IF c <= p.count - 1 THEN c ELSE p.count - 1
      BY <1>1, <2>1, MinMaxOfTwo
    <2>4. QED
      BY <1>1, <2>1, <2>2, <2>3 DEF Indices
  <1>4. CASE p.strategy \notin {"SINGLE_NODE", "RANGE"}
    <2>1. Bucket(r, p.strategy, p.count, p.boundaries) = Hash[RouteKey(r, p.strategy)] % p.count
      BY <1>4 DEF Bucket
    <2>2. Hash[RouteKey(r, p.strategy)] \in Nat
      <3>1. Hash[r.key] \in Nat /\ \A k \in r.block \cup r.group : Hash[k] \in Nat
        BY ScaleAssumption
      <3>2. /\ r.block # {} => (CHOOSE k \in r.block : TRUE) \in r.block
            /\ r.group # {} => (CHOOSE k \in r.group : TRUE) \in r.group
        OBVIOUS
      <3>3. QED
        BY <3>1, <3>2 DEF RouteKey
    <2>3. QED
      BY <1>1, <2>1, <2>2 DEF Indices
  <1>5. QED
    BY <1>2, <1>3, <1>4

\* The partition of each row.
Place(rows, p) == [r \in rows |-> Bucket(r, p.strategy, p.count, p.boundaries)]

LEMMA Partition ==
    ASSUME NEW rows \in Datasets, NEW p, Cuts(p)
    PROVE  /\ IsFiniteSet(rows) /\ IsFiniteSet(Indices(p.count))
           /\ \A r \in rows : Place(rows, p)[r] \in Indices(p.count)
           /\ \A i \in Indices(p.count) : \A T \in SUBSET rows :
                RowsOf(rows, p, i) \cap T = Fibre(T, Place(rows, p), i)
           /\ \A r \in rows : \E i \in Indices(p.count) : r \in RowsOf(rows, p, i)
           /\ \A i \in Indices(p.count) : RowsOf(rows, p, i) \subseteq rows /\ IsFiniteSet(RowsOf(rows, p, i))
  <1>1. IsFiniteSet(rows)
    BY ScaleAssumption
  <1>2. IsFiniteSet(Indices(p.count))
    BY FS_Interval DEF Indices, Cuts
  <1>3. \A r \in rows : Bucket(r, p.strategy, p.count, p.boundaries) \in Indices(p.count)
    BY BucketIn
  <1>4. \A r \in rows : Place(rows, p)[r] \in Indices(p.count)
    BY <1>3 DEF Place
  <1>5. \A i \in Indices(p.count) : \A T \in SUBSET rows :
                RowsOf(rows, p, i) \cap T = Fibre(T, Place(rows, p), i)
    BY DEF RowsOf, Fibre, Place
  <1>6. \A r \in rows : \E i \in Indices(p.count) : r \in RowsOf(rows, p, i)
    BY <1>3 DEF RowsOf
  <1>7. \A i \in Indices(p.count) : RowsOf(rows, p, i) \subseteq rows
    BY DEF RowsOf
  <1>8. \A i \in Indices(p.count) : IsFiniteSet(RowsOf(rows, p, i))
    BY <1>1, <1>7, FS_Subset
  <1>9. QED
    BY <1>1, <1>2, <1>4, <1>5, <1>6, <1>7, <1>8

\* What the partitions of rows put out, by index and as a set.
OutputAt(pol, rows, p) ==
    [i \in Indices(p.count) |-> Output(pol, RowsOf(rows, p, i), p.strategy, i)]
OutputsOf(pol, rows, p) == {OutputAt(pol, rows, p)[i] : i \in Indices(p.count)}

\* A number that each partition has is added up over the partitions.
LEMMA SumOfOutputs ==
    ASSUME NEW pol, NEW rows \in Datasets, NEW p, Cuts(p), NEW w,
           \A i \in Indices(p.count) : w[OutputAt(pol, rows, p)[i]] \in Int
    PROVE  SumFunctionOnSet(w, OutputsOf(pol, rows, p))
             = SumFunctionOnSet([i \in Indices(p.count) |-> w[OutputAt(pol, rows, p)[i]]], Indices(p.count))
  <1> DEFINE I == Indices(p.count)
             out == OutputAt(pol, rows, p)
  <1>1. IsFiniteSet(I)
    BY Partition
  <1>2. \A i \in I : out[i].part = i
    BY DEF OutputAt, Output
  <1> HIDE DEF I, out
  <1>3. SumFunctionOnSet(w, {out[i] : i \in I}) = SumFunctionOnSet([i \in I |-> w[out[i]]], I)
    BY <1>1, <1>2, SumNumbered DEF I, out
  <1>4. QED
    BY <1>3 DEF OutputsOf, I, out

\* What the partitions count of some rows adds up to all of them.
LEMMA CountOfOutputs ==
    ASSUME NEW pol, NEW rows \in Datasets, NEW p, Cuts(p), NEW T \in SUBSET rows, NEW w,
           \A i \in Indices(p.count) :
              w[OutputAt(pol, rows, p)[i]] = Cardinality(RowsOf(rows, p, i) \cap T)
    PROVE  SumFunctionOnSet(w, OutputsOf(pol, rows, p)) = Cardinality(T)
  <1> DEFINE I == Indices(p.count)
             out == OutputAt(pol, rows, p)
             b == Place(rows, p)
             terms == [i \in I |-> w[out[i]]]
             sizes == [i \in I |-> Cardinality(Fibre(T, b, i))]
  <1>1. IsFiniteSet(I) /\ IsFiniteSet(T) /\ \A r \in T : b[r] \in I
    BY Partition, FS_Subset
  <1>2. ASSUME NEW i \in I
        PROVE  /\ w[out[i]] \in Int
               /\ terms[i] = sizes[i]
    <2>1. RowsOf(rows, p, i) \cap T = Fibre(T, b, i)
      BY Partition
    <2>2. IsFiniteSet(Fibre(T, b, i))
      BY <1>1, FS_Subset DEF Fibre
    <2>3. Cardinality(Fibre(T, b, i)) \in Nat
      BY <2>2, FS_CardinalityType
    <2>4. w[out[i]] = Cardinality(Fibre(T, b, i))
      BY <2>1
    <2>5. QED
      BY <2>3, <2>4
  <1>3. SumFunctionOnSet(w, OutputsOf(pol, rows, p)) = SumFunctionOnSet(terms, I)
    BY <1>2, SumOfOutputs
  <1> HIDE DEF b, I
  <1>4. SumFunctionOnSet(sizes, I) = Cardinality(T)
    BY <1>1, CountFibres
  <1> HIDE DEF terms, sizes
  <1>5. SumFunctionOnSet(terms, I) = SumFunctionOnSet(sizes, I)
    BY <1>1, <1>2, SumSame
  <1>6. QED
    BY <1>3, <1>4, <1>5

CountSum(outputs) == SumFunction([o \in outputs |-> o.count])
NullSum(outputs) == SumFunction([o \in outputs |-> o.nulls])
GrainSum(outputs) == SumFunction([o \in outputs |-> o.grainRows])
WarehouseSum(outputs) == SumFunction([o \in outputs |-> o.warehouseRows])
AmountSum(outputs) == SumFunction([o \in outputs |-> o.sum])
Unmeasured(rows) == {r \in rows : r.measure = {}}
Grained(rows) == {r \in rows : r.grain # {}}
Warehoused(rows) == {r \in rows : r.warehouse # {}}

\* The numbers of the merge are those of the undivided rows.
LEMMA MergedNumbers ==
    ASSUME NEW pol, NEW rows \in Datasets, NEW p, Cuts(p)
    PROVE  /\ CountSum(OutputsOf(pol, rows, p)) = Cardinality(rows)
           /\ NullSum(OutputsOf(pol, rows, p)) = Cardinality(Unmeasured(rows))
           /\ GrainSum(OutputsOf(pol, rows, p)) = Cardinality(Grained(rows))
           /\ WarehouseSum(OutputsOf(pol, rows, p)) = Cardinality(Warehoused(rows))
           /\ AmountSum(OutputsOf(pol, rows, p)) = MeasureSum(rows)
  <1> DEFINE I == Indices(p.count)
             out == OutputAt(pol, rows, p)
             outputs == OutputsOf(pol, rows, p)
             mine(i) == RowsOf(rows, p, i)
  <1>0. \A i \in I : out[i] \in outputs
    BY DEF OutputsOf
  <1>1. SumFunction([o \in outputs |-> o.count]) = Cardinality(rows)
    <2> DEFINE w == [o \in outputs |-> o.count]
    <2>1. ASSUME NEW i \in I PROVE w[out[i]] = Cardinality(mine(i) \cap rows)
      <3>1. mine(i) \cap rows = mine(i)
        BY DEF RowsOf
      <3>2. QED
        BY <1>0, <3>1 DEF OutputAt, Output
    <2> HIDE DEF w
    <2>2. SumFunctionOnSet(w, outputs) = Cardinality(rows)
      BY <2>1, CountOfOutputs
    <2>3. QED
      BY <2>2 DEF SumFunction, w
  <1>2. SumFunction([o \in outputs |-> o.nulls]) = Cardinality({r \in rows : r.measure = {}})
    <2> DEFINE w == [o \in outputs |-> o.nulls]
               T == {r \in rows : r.measure = {}}
    <2>1. ASSUME NEW i \in I PROVE w[out[i]] = Cardinality(mine(i) \cap T)
      <3>1. IsFiniteSet(mine(i))
        BY Partition
      <3>2. mine(i) \cap T = mine(i) \ Measures(mine(i)) /\ mine(i) \cap Measures(mine(i)) = Measures(mine(i))
        BY DEF RowsOf, Measures
      <3> HIDE DEF mine, T
      <3>3. Cardinality(mine(i) \ Measures(mine(i))) = Cardinality(mine(i)) - Cardinality(mine(i) \cap Measures(mine(i)))
        BY <3>1, FS_Difference
      <3>4. w[out[i]] = Cardinality(mine(i)) - Cardinality(Measures(mine(i)))
        BY <1>0 DEF OutputAt, Output, mine
      <3>5. QED
        BY <3>2, <3>3, <3>4
    <2>2. T \in SUBSET rows
      OBVIOUS
    <2> HIDE DEF w, T
    <2>3. SumFunctionOnSet(w, outputs) = Cardinality(T)
      BY <2>1, <2>2, CountOfOutputs
    <2>4. QED
      BY <2>3 DEF SumFunction, w, T
  <1>3. SumFunction([o \in outputs |-> o.grainRows]) = Cardinality({r \in rows : r.grain # {}})
    <2> DEFINE w == [o \in outputs |-> o.grainRows]
               T == {r \in rows : r.grain # {}}
    <2>1. ASSUME NEW i \in I PROVE w[out[i]] = Cardinality(mine(i) \cap T)
      <3>1. mine(i) \cap T = {r \in mine(i) : r.grain # {}}
        BY DEF RowsOf
      <3>2. w[out[i]] = Cardinality({r \in mine(i) : r.grain # {}})
        BY <1>0 DEF OutputAt, Output
      <3>3. QED
        BY <3>1, <3>2
    <2>2. T \in SUBSET rows
      OBVIOUS
    <2> HIDE DEF w, T
    <2>3. SumFunctionOnSet(w, outputs) = Cardinality(T)
      BY <2>1, <2>2, CountOfOutputs
    <2>4. QED
      BY <2>3 DEF SumFunction, w, T
  <1>3a. SumFunction([o \in outputs |-> o.warehouseRows]) = Cardinality({r \in rows : r.warehouse # {}})
    <2> DEFINE w == [o \in outputs |-> o.warehouseRows]
               T == {r \in rows : r.warehouse # {}}
    <2>1. ASSUME NEW i \in I PROVE w[out[i]] = Cardinality(mine(i) \cap T)
      <3>1. mine(i) \cap T = {r \in mine(i) : r.warehouse # {}}
        BY DEF RowsOf
      <3>2. w[out[i]] = Cardinality({r \in mine(i) : r.warehouse # {}})
        BY <1>0 DEF OutputAt, Output
      <3>3. QED
        BY <3>1, <3>2
    <2>2. T \in SUBSET rows
      OBVIOUS
    <2> HIDE DEF w, T
    <2>3. SumFunctionOnSet(w, outputs) = Cardinality(T)
      BY <2>1, <2>2, CountOfOutputs
    <2>4. QED
      BY <2>3 DEF SumFunction, w, T
  <1>4. SumFunction([o \in outputs |-> o.sum]) = MeasureSum(rows)
    <2> DEFINE M == Measures(rows)
               amount == [r \in M |-> Amount(r)]
               b == Place(rows, p)
               w == [o \in outputs |-> o.sum]
               terms == [i \in I |-> w[out[i]]]
               sums == [i \in I |-> SumFunctionOnSet(amount, Fibre(M, b, i))]
    <2>1. M \in SUBSET rows
      BY DEF Measures
    <2>2. IsFiniteSet(I) /\ IsFiniteSet(M) /\ \A r \in M : b[r] \in I
      BY <2>1, Partition, FS_Subset
    <2>3. \A r \in M : amount[r] \in Int
      <3>1. \A r \in M : r.measure # {} /\ r.measure \subseteq Int
        BY ScaleAssumption DEF Measures
      <3>2. \A r \in M : Amount(r) \in r.measure
        BY <3>1 DEF Amount
      <3>3. QED
        BY <3>1, <3>2
    <2>4. ASSUME NEW i \in I PROVE terms[i] = sums[i] /\ w[out[i]] \in Int
      <3> DEFINE F == Fibre(M, b, i)
                 mini == [r \in Measures(mine(i)) |-> Amount(r)]
      <3>1. Measures(mine(i)) = F
        <4>1. Measures(mine(i)) = mine(i) \cap M
          BY DEF Measures, RowsOf
        <4>2. mine(i) \cap M = F
          BY <2>1, Partition
        <4>3. QED
          BY <4>1, <4>2
      <3>2. F \subseteq M
        BY DEF Fibre
      <3>3. IsFiniteSet(F) /\ \A r \in F : amount[r] \in Int
        BY <2>2, <2>3, <3>2, FS_Subset
      <3>4. \A r \in F : mini[r] = amount[r]
        BY <3>1, <3>2
      <3>5. MeasureSum(mine(i)) = SumFunctionOnSet(mini, F)
        BY <3>1 DEF MeasureSum, SumFunction
      <3>6. w[out[i]] = MeasureSum(mine(i))
        BY <1>0 DEF OutputAt, Output
      <3> HIDE DEF F, mini, amount, mine, M, w
      <3>7. SumFunctionOnSet(mini, F) = SumFunctionOnSet(amount, F)
        BY <3>3, <3>4, SumSame
      <3>8. SumFunctionOnSet(amount, F) \in Int
        BY <3>3, SumFacts
      <3>9. QED
        BY <3>5, <3>6, <3>7, <3>8 DEF F
    <2>5. SumFunctionOnSet(w, outputs) = SumFunctionOnSet(terms, I)
      <3> HIDE DEF w
      <3>1. QED
        BY <2>4, SumOfOutputs
    <2>6. SumFunctionOnSet(sums, I) = SumFunctionOnSet(amount, M)
      <3> HIDE DEF amount, M, b, I
      <3>1. QED
        BY <2>2, <2>3, SumFibres
    <2>7. SumFunctionOnSet(terms, I) = SumFunctionOnSet(sums, I)
      <3> HIDE DEF terms, sums, I
      <3>1. QED
        BY <2>2, <2>4, SumSame
    <2>8. SumFunction(w) = SumFunctionOnSet(w, outputs) /\ MeasureSum(rows) = SumFunctionOnSet(amount, M)
      BY DEF SumFunction, MeasureSum
    <2> HIDE DEF terms, sums, amount, M, w
    <2>9. SumFunction(w) = MeasureSum(rows)
      BY <2>5, <2>6, <2>7, <2>8
    <2>10. QED
      BY <2>9 DEF w
  <1>5. QED
    BY <1>1, <1>2, <1>3, <1>3a, <1>4
    DEF CountSum, NullSum, GrainSum, WarehouseSum, AmountSum, Unmeasured, Grained, Warehoused

\* The references, keys and dependency pairs of outputs are those of the rows.
Gathered(outputs, rows) ==
    /\ UNION {o.refs : o \in outputs} = {r.ref : r \in rows}
    /\ UNION {o.grains : o \in outputs} = UNION {r.grain : r \in rows}
    /\ UNION {o.warehouse : o \in outputs} = UNION {r.warehouse : r \in rows}
    /\ UNION {o.deps : o \in outputs} = UNION {r.dep : r \in rows}

\* What the merge collects is what the undivided rows hold.
LEMMA MergedSets ==
    ASSUME NEW pol, NEW rows \in Datasets, NEW p, Cuts(p)
    PROVE  LET outputs == OutputsOf(pol, rows, p)
           IN /\ Gathered(outputs, rows)
              /\ UNION {o.deps : o \in outputs} = UNION {r.dep : r \in rows}
              /\ UNION {o.sampled : o \in outputs} = Sampled(pol, rows)
              /\ p.strategy # "BLOCK_KEY" => UNION {o.pairs : o \in outputs} = {}
  <1> DEFINE I == Indices(p.count)
             out == OutputAt(pol, rows, p)
             outputs == OutputsOf(pol, rows, p)
             mine(i) == RowsOf(rows, p, i)
  <1>1. \A i \in I : mine(i) \subseteq rows
    BY Partition
  <1>2. \A r \in rows : \E i \in I : r \in mine(i)
    BY Partition
  <1>3. \A i \in I : /\ out[i].refs = {r.ref : r \in mine(i)}
                     /\ out[i].grains = UNION {r.grain : r \in mine(i)}
                     /\ out[i].warehouse = UNION {r.warehouse : r \in mine(i)}
                     /\ out[i].deps = UNION {r.dep : r \in mine(i)}
                     /\ out[i].sampled = Sampled(pol, mine(i))
                     /\ p.strategy # "BLOCK_KEY" => out[i].pairs = {}
    BY DEF OutputAt, Output
  <1>4. outputs = {out[i] : i \in I}
    BY DEF OutputsOf
  <1> HIDE DEF I, out, outputs, mine
  <1>5. UNION {o.refs : o \in outputs} = {r.ref : r \in rows}
    <2>1. ASSUME NEW x, NEW o \in outputs, x \in o.refs PROVE \E r \in rows : x = r.ref
      BY <1>1, <1>3, <1>4, <2>1
    <2>2. ASSUME NEW r \in rows PROVE \E o \in outputs : r.ref \in o.refs
      BY <1>2, <1>3, <1>4
    <2>3. QED
      BY <2>1, <2>2
  <1>6. UNION {o.grains : o \in outputs} = UNION {r.grain : r \in rows}
    <2>1. ASSUME NEW x, NEW o \in outputs, x \in o.grains PROVE \E r \in rows : x \in r.grain
      BY <1>1, <1>3, <1>4, <2>1
    <2>2. ASSUME NEW x, NEW r \in rows, x \in r.grain PROVE \E o \in outputs : x \in o.grains
      BY <1>2, <1>3, <1>4, <2>2
    <2>3. QED
      BY <2>1, <2>2
  <1>6a. UNION {o.warehouse : o \in outputs} = UNION {r.warehouse : r \in rows}
    <2>1. ASSUME NEW x, NEW o \in outputs, x \in o.warehouse PROVE \E r \in rows : x \in r.warehouse
      BY <1>1, <1>3, <1>4, <2>1
    <2>2. ASSUME NEW x, NEW r \in rows, x \in r.warehouse PROVE \E o \in outputs : x \in o.warehouse
      BY <1>2, <1>3, <1>4, <2>2
    <2>3. QED
      BY <2>1, <2>2
  <1>7. UNION {o.deps : o \in outputs} = UNION {r.dep : r \in rows}
    <2>1. ASSUME NEW x, NEW o \in outputs, x \in o.deps PROVE \E r \in rows : x \in r.dep
      BY <1>1, <1>3, <1>4, <2>1
    <2>2. ASSUME NEW x, NEW r \in rows, x \in r.dep PROVE \E o \in outputs : x \in o.deps
      BY <1>2, <1>3, <1>4, <2>2
    <2>3. QED
      BY <2>1, <2>2
  <1>8. UNION {o.sampled : o \in outputs} = Sampled(pol, rows)
    <2>1. ASSUME NEW x, NEW o \in outputs, x \in o.sampled PROVE x \in Sampled(pol, rows)
      <3>1. PICK i \in I : o = out[i]
        BY <1>4
      <3>2. PICK r \in mine(i) : x = r.ref /\ SampleRank[r.ref] < pol.sample
        BY <1>3, <2>1, <3>1 DEF Sampled
      <3>3. QED
        BY <1>1, <3>2 DEF Sampled
    <2>2. ASSUME NEW x \in Sampled(pol, rows) PROVE \E o \in outputs : x \in o.sampled
      <3>1. PICK r \in rows : x = r.ref /\ SampleRank[r.ref] < pol.sample
        BY DEF Sampled
      <3>2. PICK i \in I : r \in mine(i)
        BY <1>2
      <3>3. x \in Sampled(pol, mine(i))
        BY <3>1, <3>2 DEF Sampled
      <3>4. QED
        BY <1>3, <1>4, <3>3
    <2>3. QED
      BY <2>1, <2>2
  <1>9. p.strategy # "BLOCK_KEY" => UNION {o.pairs : o \in outputs} = {}
    BY <1>3, <1>4
  <1>10. QED
    BY <1>5, <1>6, <1>6a, <1>7, <1>8, <1>9 DEF outputs, Gathered

\* The extremes of the merge are those of the undivided rows.
LEMMA MergedExtremes ==
    ASSUME NEW pol, NEW rows \in Datasets, NEW p, Cuts(p)
    PROVE  LET outputs == OutputsOf(pol, rows, p)
               M == Measures(rows)
           IN /\ LeastOf(UNION {o.min : o \in outputs})
                   = {Amount(r) : r \in {x \in M : \A y \in M : Amount(x) <= Amount(y)}}
              /\ GreatestOf(UNION {o.max : o \in outputs})
                   = {Amount(r) : r \in {x \in M : \A y \in M : Amount(x) >= Amount(y)}}
  <1> DEFINE I == Indices(p.count)
             out == OutputAt(pol, rows, p)
             outputs == OutputsOf(pol, rows, p)
             mine(i) == RowsOf(rows, p, i)
             part == [i \in I |-> UNION {r.measure : r \in mine(i)}]
             M == Measures(rows)
             S == {Amount(r) : r \in M}
  <1>1. \A r \in M : r.measure = {Amount(r)} /\ Amount(r) \in Int /\ r \in rows
    <2> SUFFICES ASSUME NEW r \in M PROVE r.measure = {Amount(r)} /\ Amount(r) \in Int /\ r \in rows
      OBVIOUS
    <2>1. r \in rows /\ r.measure # {}
      BY DEF Measures
    <2>2. r.measure \subseteq Int /\ \A m1, m2 \in r.measure : m1 = m2
      BY <2>1, ScaleAssumption
    <2>3. Amount(r) \in r.measure
      BY <2>1 DEF Amount
    <2>4. QED
      BY <2>1, <2>2, <2>3
  <1>2. \A r \in rows \ M : r.measure = {}
    BY DEF Measures
  <1>3. IsFiniteSet(S) /\ S \subseteq Int
    <2> DEFINE f == [r \in M |-> Amount(r)]
    <2>1. IsFiniteSet(M)
      BY Partition, FS_Subset DEF Measures
    <2>2. f \in Surjection(M, S)
      BY DEF Surjection
    <2>3. S \subseteq Int
      BY <1>1
    <2> HIDE DEF f, M, S
    <2>4. QED
      BY <2>1, <2>2, <2>3, FS_Surjection
  <1>4. S = UNION {part[i] : i \in I}
    <2>1. \A i \in I : mine(i) \subseteq rows
      BY Partition
    <2>2. \A r \in rows : \E i \in I : r \in mine(i)
      BY Partition
    <2>3. \A i \in I : part[i] = UNION {r.measure : r \in mine(i)}
      OBVIOUS
    <2> HIDE DEF mine, part, I, M
    <2>4. ASSUME NEW m \in S PROVE \E i \in I : m \in part[i]
      <3>1. PICK r \in M : m = Amount(r)
        OBVIOUS
      <3>2. m \in r.measure /\ r \in rows
        BY <1>1, <3>1
      <3>3. PICK i \in I : r \in mine(i)
        BY <2>2, <3>2
      <3>4. QED
        BY <2>3, <3>2, <3>3
    <2>5. ASSUME NEW i \in I, NEW m \in part[i] PROVE m \in S
      <3>1. PICK r \in mine(i) : m \in r.measure
        BY <2>3
      <3>2. r \in M
        BY <1>2, <2>1, <3>1
      <3>3. QED
        BY <1>1, <3>1, <3>2
    <2>6. QED
      BY <2>4, <2>5
  <1>5. \A i \in I : out[i].min = LeastOf(part[i]) /\ out[i].max = GreatestOf(part[i])
    BY DEF OutputAt, Output
  <1>6. outputs = {out[i] : i \in I}
    BY DEF OutputsOf
  <1> HIDE DEF I, out, outputs, mine, part, M, S
  <1> DEFINE lo == UNION {o.min : o \in outputs}
             hi == UNION {o.max : o \in outputs}
  <1>7. /\ lo \in SUBSET S /\ \A y \in S : \E z \in lo : z <= y
        /\ hi \in SUBSET S /\ \A y \in S : \E z \in hi : z >= y
    <2>1. \A i \in I : part[i] \subseteq S /\ part[i] \subseteq Int /\ IsFiniteSet(part[i])
      BY <1>3, <1>4, FS_Subset
    <2>2. \A i \in I : /\ LeastOf(part[i]) = {x \in part[i] : \A y \in part[i] : x <= y}
                       /\ GreatestOf(part[i]) = {x \in part[i] : \A y \in part[i] : x >= y}
      BY <2>1, ExtremeIs
    <2>3. /\ \A x : x \in lo <=> \E i \in I : x \in LeastOf(part[i])
          /\ \A x : x \in hi <=> \E i \in I : x \in GreatestOf(part[i])
      BY <1>5, <1>6
    <2>4. ASSUME NEW y \in S
          PROVE  (\E z \in lo : z <= y) /\ (\E z \in hi : z >= y)
      <3>1. PICK i \in I : y \in part[i]
        BY <1>4
      <3>2. PICK z \in part[i] : \A v \in part[i] : z <= v
        BY <2>1, <3>1, ExtremesExist
      <3>3. PICK x \in part[i] : \A v \in part[i] : x >= v
        BY <2>1, <3>1, ExtremesExist
      <3>4. z \in lo /\ x \in hi
        BY <2>2, <2>3, <3>2, <3>3
      <3>5. QED
        BY <3>1, <3>2, <3>3, <3>4
    <2>5. lo \subseteq S /\ hi \subseteq S
      BY <2>1, <2>2, <2>3
    <2>6. QED
      BY <2>4, <2>5
  <1> HIDE DEF lo, hi
  <1>8. /\ \A x : x \in LeastOf(lo) <=> x \in S /\ \A y \in S : x <= y
        /\ \A x : x \in GreatestOf(hi) <=> x \in S /\ \A y \in S : x >= y
    BY <1>3, <1>7, ExtremeOfParts
  <1>9. /\ LeastOf(lo) = {Amount(r) : r \in {x \in M : \A y \in M : Amount(x) <= Amount(y)}}
        /\ GreatestOf(hi) = {Amount(r) : r \in {x \in M : \A y \in M : Amount(x) >= Amount(y)}}
    BY <1>8 DEF S
  <1>10. QED
    BY <1>9 DEF outputs, M, lo, hi

\* The sample's limit may be applied at the end: who ranks before a sampled
\* row is sampled too.
LEMMA MergedSample ==
    ASSUME NEW pol, NEW rows \in Datasets, pol.sample \in Int
    PROVE  Limited(pol, Sampled(pol, rows))
             = {x \in {r.ref : r \in rows} : SampleRank[x] < pol.sample /\
                  Cardinality({y \in {r.ref : r \in rows} : SampleRank[y] < SampleRank[x]}) < pol.sampleLimit}
  <1> DEFINE refs == {r.ref : r \in rows}
  <1>1. \A x \in refs : SampleRank[x] \in Nat
    BY ScaleAssumption
  <1>2. \A x : x \in Sampled(pol, rows) <=> x \in refs /\ SampleRank[x] < pol.sample
    BY DEF Sampled
  <1> HIDE DEF refs
  <1>3. ASSUME NEW x \in refs, SampleRank[x] < pol.sample
        PROVE  {y \in Sampled(pol, rows) : SampleRank[y] < SampleRank[x]} = {y \in refs : SampleRank[y] < SampleRank[x]}
    <2>1. ASSUME NEW y \in refs, SampleRank[y] < SampleRank[x] PROVE SampleRank[y] < pol.sample
      BY <1>1, <1>3, <2>1
    <2>2. QED
      BY <1>2, <2>1
  <1>4. QED
    BY <1>2, <1>3 DEF Limited, refs

LEMMA PairSize ==
    ASSUME NEW a, NEW b
    PROVE  Cardinality({a, b}) = 2 <=> a # b
  <1>1. IsFiniteSet({a}) /\ Cardinality({a}) = 1
    BY FS_Singleton
  <1>2. CASE a = b
    BY <1>1, <1>2
  <1>3. CASE a # b
    <2>1. {a} \cup {b} = {a, b} /\ b \notin {a}
      BY <1>3
    <2>2. Cardinality({a} \cup {b}) = Cardinality({a}) + 1
      BY <1>1, <2>1, FS_AddElement
    <2>3. QED
      BY <1>1, <1>3, <2>1, <2>2
  <1>4. QED
    BY <1>2, <1>3

\* Candidates are the pairs of rows with a key in common.
LEMMA CandidatesAre ==
    ASSUME NEW rows \in Datasets
    PROVE  CandidatePairs(rows) = {{q[1].ref, q[2].ref} :
              q \in {t \in rows \X rows : t[1] # t[2] /\ t[1].keys \cap t[2].keys # {}}}
  <1> DEFINE meet == {t \in rows \X rows : t[1] # t[2] /\ t[1].keys \cap t[2].keys # {}}
             all == UNION {PairsUnder(rows, k) : k \in KeysOf(rows)}
  <1>0. \A r1, r2 \in rows : r1.ref = r2.ref => r1 = r2
    BY ScaleAssumption
  <1>1. ASSUME NEW pair \in all, Cardinality(pair) = 2
        PROVE  \E q \in meet : pair = {q[1].ref, q[2].ref}
    <2>1. PICK k \in KeysOf(rows) : pair \in PairsUnder(rows, k)
      OBVIOUS
    <2>2. PICK a \in rows, b \in rows : k \in a.keys /\ k \in b.keys /\ pair = {a.ref, b.ref}
      BY <2>1 DEF PairsUnder
    <2>3. a # b
      BY <1>1, <2>2, PairSize
    <2>4. <<a, b>> \in meet
      BY <2>2, <2>3
    <2>5. QED
      BY <2>2, <2>4
  <1>2. ASSUME NEW q \in meet
        PROVE  {q[1].ref, q[2].ref} \in all /\ Cardinality({q[1].ref, q[2].ref}) = 2
    <2>1. q[1] \in rows /\ q[2] \in rows /\ q[1] # q[2]
      OBVIOUS
    <2>2. PICK k : k \in q[1].keys /\ k \in q[2].keys
      OBVIOUS
    <2>3. k \in KeysOf(rows)
      BY <2>1, <2>2 DEF KeysOf
    <2>4. {q[1].ref, q[2].ref} \in PairsUnder(rows, k)
      BY <2>1, <2>2 DEF PairsUnder
    <2>5. q[1].ref # q[2].ref
      BY <1>0, <2>1
    <2>6. QED
      BY <2>3, <2>4, <2>5, PairSize
  <1>3. CandidatePairs(rows) = {pair \in all : Cardinality(pair) = 2}
    BY DEF CandidatePairs
  <1> HIDE DEF meet, all
  <1>4. CandidatePairs(rows) = {{q[1].ref, q[2].ref} : q \in meet}
    BY <1>1, <1>2, <1>3
  <1>5. QED
    BY <1>4 DEF meet

\* The outputs of all partitions merge to what one pass computes.
LEMMA MergeIsReference ==
    ASSUME NEW pol \in Policies, NEW rows \in Datasets, NEW p, Cuts(p),
           p.strategy = "BLOCK_KEY" =>
              MergeOutputs(pol, OutputsOf(pol, rows, p)).pairs = CandidatePairs(rows)
    PROVE  /\ MergeOutputs(pol, OutputsOf(pol, rows, p)) = Reference(rows, pol, p.strategy)
           /\ DependencyValid(MergeOutputs(pol, OutputsOf(pol, rows, p)))
                <=> \A r1, r2 \in rows : \A d1 \in r1.dep, d2 \in r2.dep : d1[1] = d2[1] => d1[2] = d2[2]
  <1> DEFINE outputs == OutputsOf(pol, rows, p)
             m == MergeOutputs(pol, outputs)
             whole == Reference(rows, pol, p.strategy)
  <1>1. /\ m.refs = whole.refs /\ m.grains = whole.grains /\ m.warehouse = whole.warehouse /\ m.deps = whole.deps
    <2>1. /\ m.refs = UNION {o.refs : o \in outputs} /\ m.grains = UNION {o.grains : o \in outputs}
          /\ m.warehouse = UNION {o.warehouse : o \in outputs} /\ m.deps = UNION {o.deps : o \in outputs}
      BY DEF MergeOutputs
    <2>2. /\ whole.refs = {r.ref : r \in rows} /\ whole.grains = UNION {r.grain : r \in rows}
          /\ whole.warehouse = UNION {r.warehouse : r \in rows} /\ whole.deps = UNION {r.dep : r \in rows}
      BY DEF Reference
    <2>3. Gathered(outputs, rows)
      BY MergedSets
    <2> HIDE DEF m, whole, outputs
    <2>4. QED
      BY <2>1, <2>2, <2>3 DEF Gathered
  <1>2. m.count = whole.count /\ m.nulls = whole.nulls /\ m.sum = whole.sum
    <2>1. m.count = CountSum(outputs) /\ m.nulls = NullSum(outputs) /\ m.sum = AmountSum(outputs)
      BY DEF MergeOutputs, CountSum, NullSum, AmountSum
    <2>2. /\ whole.count = Cardinality(rows) /\ whole.nulls = Cardinality(Unmeasured(rows))
          /\ whole.sum = MeasureSum(rows)
      BY DEF Reference, Unmeasured
    <2>3. /\ CountSum(outputs) = Cardinality(rows) /\ NullSum(outputs) = Cardinality(Unmeasured(rows))
          /\ AmountSum(outputs) = MeasureSum(rows)
      BY MergedNumbers
    <2> HIDE DEF m, whole, outputs
    <2>4. QED
      BY <2>1, <2>2, <2>3
  <1>3. m.min = whole.min /\ m.max = whole.max
    BY MergedExtremes DEF MergeOutputs, Reference
  <1>4. m.sampled = whole.sampled
    <2>1. pol.sample \in Int
      BY ScaleAssumption
    <2>2. m.sampled = Limited(pol, Sampled(pol, rows))
      BY MergedSets DEF MergeOutputs
    <2>3. QED
      BY <2>1, <2>2, MergedSample DEF Reference
  <1>5. m.pairs = whole.pairs
    <2>1. CASE p.strategy = "BLOCK_KEY"
      BY <2>1, CandidatesAre DEF Reference
    <2>2. CASE p.strategy # "BLOCK_KEY"
      BY <2>2, MergedSets DEF MergeOutputs, Reference
    <2>3. QED
      BY <2>1, <2>2
  <1>6. m = whole
    <2>1. m = [refs |-> m.refs, count |-> m.count, nulls |-> m.nulls, sum |-> m.sum, min |-> m.min,
               max |-> m.max, grains |-> m.grains, warehouse |-> m.warehouse, pairs |-> m.pairs, deps |-> m.deps, sampled |-> m.sampled]
      BY DEF MergeOutputs
    <2>2. whole = [refs |-> whole.refs, count |-> whole.count, nulls |-> whole.nulls, sum |-> whole.sum,
                   min |-> whole.min, max |-> whole.max, grains |-> whole.grains,
                   warehouse |-> whole.warehouse, pairs |-> whole.pairs,
                   deps |-> whole.deps, sampled |-> whole.sampled]
      BY DEF Reference
    <2> HIDE DEF m, whole
    <2>3. QED
      BY <1>1, <1>2, <1>3, <1>4, <1>5, <2>1, <2>2
  <1>7. m.deps = UNION {r.dep : r \in rows}
    BY MergedSets DEF MergeOutputs
  <1> HIDE DEF m
  <1>8. DependencyValid(m)
          <=> \A r1, r2 \in rows : \A d1 \in r1.dep, d2 \in r2.dep : d1[1] = d2[1] => d1[2] = d2[2]
    BY <1>7 DEF DependencyValid
  <1>9. QED
    BY <1>6, <1>8 DEF m

-----------------------------------------------------------------------------
(* The invariant.                                                          *)

\* The plans the policy at hand leads to, and what their partitions may give.
PlanSet == UNION {MakePlan(scalePolicy, rows, count) : rows \in Datasets, count \in Counts}
ResultsOf(p) == {Result(p, i, published) : i \in Indices(p.count), published \in BOOLEAN}
GivenResults == UNION {ResultsOf(p) : p \in PlanSet}

\* As long as nothing failed, a result is what its partition had to give.
Genuine(g) ==
    \E p \in PlanSet : \E i \in Indices(p.count) : \E published \in BOOLEAN :
        g = Result(p, i, published) /\ (partitionFaults = 0 => published)

\* An execution under way: what is waited for, runs or is collected is all.
UnderWay(p) ==
    /\ p.input = input /\ outcome = {}
    /\ Indices(p.count) = waiting \cup running \cup {g.part : g \in ToSet(results)}
    /\ \A g \in ToSet(results) : g.input = p.input /\ g.count = p.count

\* The caller holds results of whole executions.
HeldWhole ==
    \A g \in ToSet(held) : \A j \in Indices(g.count) :
        \E h \in ToSet(held) : h.part = j /\ h.count = g.count /\ h.input = g.input

ScaleInv ==
    /\ input \in Datasets /\ scalePolicy \in Policies /\ partitionFaults \in Nat
    /\ plan \subseteq PlanSet /\ \A p, q \in plan : p = q
    /\ results \in Seq(GivenResults) /\ held \in Seq(GivenResults)
    /\ \A g \in ToSet(results) \cup ToSet(held) : Genuine(g)
    /\ AtRest \/ \E p \in plan : UnderWay(p)
    /\ HeldWhole
    /\ MergedEqualsReference

-----------------------------------------------------------------------------
(* Plans and results.                                                      *)

LEMMA PlanMade ==
    ASSUME NEW pol \in Policies, NEW rows \in Datasets, NEW asked \in Counts,
           NEW p \in MakePlan(pol, rows, asked)
    PROVE  /\ Cuts(p) /\ p.input = rows /\ p.strategy = Strategy(pol, rows)
           /\ p.boundaries = pol.boundaries
           /\ \A q \in MakePlan(pol, rows, asked) : q = p
  <1> DEFINE strategy == Strategy(pol, rows)
             count == IF strategy = "SINGLE_NODE" THEN 1 ELSE Max({1, Min({asked, pol.maxPartitions})})
  <1>1. /\ p.input = rows /\ p.strategy = strategy /\ p.boundaries = pol.boundaries /\ p.count = count
        /\ \A q \in MakePlan(pol, rows, asked) : q = p
    <2> DEFINE made == [strategy |-> strategy, count |-> count, boundaries |-> pol.boundaries, input |-> rows]
               sizes == [i \in Indices(count) |-> Cardinality(RowsOf(rows, made, i))]
               one == [strategy |-> strategy, count |-> count, boundaries |-> pol.boundaries, input |-> rows,
                       rejects |-> Skewed(pol, sizes, count) /\ pol.rejectSkew]
    <2>1. MakePlan(pol, rows, asked) \subseteq {one}
      BY DEF MakePlan
    <2>2. one.input = rows /\ one.strategy = strategy /\ one.boundaries = pol.boundaries /\ one.count = count
      OBVIOUS
    <2> HIDE DEF one, count
    <2>3. QED
      BY <2>1, <2>2
  <1>2. count \in Nat \ {0}
    <2>1. asked \in Int /\ pol.maxPartitions \in Int
      BY ScaleAssumption
    <2>2. Min({asked, pol.maxPartitions}) \in Int
      BY <2>1, MinMaxOfTwo
    <2>3. Max({1, Min({asked, pol.maxPartitions})}) \in Nat \ {0}
      <3> DEFINE least == Min({asked, pol.maxPartitions})
      <3>1. least \in Int
        BY <2>2
      <3> HIDE DEF least
      <3>2. Max({1, least}) = IF 1 >= least THEN 1 ELSE least
        BY <3>1, MinMaxOfTwo
      <3>3. Max({1, least}) \in Nat \ {0}
        BY <3>1, <3>2
      <3>4. QED
        BY <3>3 DEF least
    <2>4. QED
      BY <2>3
  <1>3. IsFiniteSet(pol.boundaries)
    BY ScaleAssumption
  <1> HIDE DEF count
  <1>4. QED
    BY <1>1, <1>2, <1>3 DEF Cuts

LEMMA PlanFacts ==
    ASSUME scalePolicy \in Policies, NEW p \in PlanSet
    PROVE  /\ Cuts(p) /\ p.input \in Datasets /\ p.strategy = Strategy(scalePolicy, p.input)
           /\ p.boundaries = scalePolicy.boundaries
  <1>1. PICK rows \in Datasets, asked \in Counts : p \in MakePlan(scalePolicy, rows, asked)
    BY DEF PlanSet
  <1>2. QED
    BY <1>1, PlanMade

\* Without failures the results of equal plans are equal.
LEMMA GenuineResult ==
    ASSUME scalePolicy \in Policies, NEW p \in PlanSet, NEW g, Genuine(g), partitionFaults = 0,
           g.input = p.input, g.count = p.count
    PROVE  g = Result(p, g.part, TRUE) /\ g.part \in Indices(p.count)
  <1>1. PICK q \in PlanSet : \E i \in Indices(q.count) : g = Result(q, i, TRUE)
    BY DEF Genuine
  <1>2. PICK i \in Indices(q.count) : g = Result(q, i, TRUE)
    BY <1>1
  <1>3. g.part = i /\ g.count = q.count /\ g.input = q.input
    BY <1>2 DEF Result
  <1>4. q.strategy = p.strategy /\ q.boundaries = p.boundaries /\ q.count = p.count /\ q.input = p.input
    BY <1>3, PlanFacts
  <1>5. RowsOf(q.input, q, i) = RowsOf(p.input, p, i)
    BY <1>4 DEF RowsOf
  <1>6. Result(q, i, TRUE) = Result(p, i, TRUE)
    BY <1>4, <1>5 DEF Result
  <1>7. QED
    BY <1>2, <1>3, <1>4, <1>6

-----------------------------------------------------------------------------
(* The merge.                                                              *)

\* Rows with grains of their own are as many as the grains.
LEMMA GrainsCounted ==
    ASSUME NEW rows \in Datasets,
           ~\E r1, r2 \in rows : r1 # r2 /\ r1.grain # {} /\ r1.grain = r2.grain
    PROVE  Cardinality(UNION {r.grain : r \in rows}) = Cardinality(Grained(rows))
  <1> DEFINE R == Grained(rows)
             U == UNION {r.grain : r \in rows}
             f == [r \in R |-> CHOOSE g \in r.grain : TRUE]
  <1>1. \A r \in R : r \in rows /\ f[r] \in r.grain /\ r.grain = {f[r]}
    <2> SUFFICES ASSUME NEW r \in R PROVE r \in rows /\ f[r] \in r.grain /\ r.grain = {f[r]}
      OBVIOUS
    <2>1. r \in rows /\ r.grain # {}
      BY DEF Grained
    <2>2. \A g1, g2 \in r.grain : g1 = g2
      BY <2>1, ScaleAssumption
    <2>3. f[r] \in r.grain
      BY <2>1
    <2>4. QED
      BY <2>1, <2>2, <2>3
  <1>2. \A r \in rows : r.grain # {} => r \in R
    BY DEF Grained
  <1>3. IsFiniteSet(R)
    <2>1. IsFiniteSet(rows)
      BY ScaleAssumption
    <2>2. QED
      BY <2>1, FS_Subset DEF Grained
  <1>4. f = [r \in R |-> f[r]]
    OBVIOUS
  <1> HIDE DEF R, f
  <1>5. f \in [R -> U]
    BY <1>1, <1>4
  <1>6. \A r1, r2 \in R : f[r1] = f[r2] => r1 = r2
    BY <1>1
  <1>7. \A g \in U : \E r \in R : f[r] = g
    BY <1>1, <1>2
  <1> HIDE DEF U
  <1>8. f \in Bijection(R, U)
    BY <1>5, <1>6, <1>7 DEF Bijection, Injection, Surjection, IsInjective
  <1>9. Cardinality(U) = Cardinality(R)
    BY <1>3, <1>8, FS_Bijection DEF ExistsBijection
  <1>10. QED
    BY <1>9 DEF R, U

\* The same of warehouse keys.
LEMMA WarehouseCounted ==
    ASSUME NEW rows \in Datasets,
           ~\E r1, r2 \in rows : r1 # r2 /\ r1.warehouse # {} /\ r1.warehouse = r2.warehouse
    PROVE  Cardinality(UNION {r.warehouse : r \in rows}) = Cardinality(Warehoused(rows))
  <1> DEFINE R == Warehoused(rows)
             U == UNION {r.warehouse : r \in rows}
             f == [r \in R |-> CHOOSE g \in r.warehouse : TRUE]
  <1>1. \A r \in R : r \in rows /\ f[r] \in r.warehouse /\ r.warehouse = {f[r]}
    <2> SUFFICES ASSUME NEW r \in R PROVE r \in rows /\ f[r] \in r.warehouse /\ r.warehouse = {f[r]}
      OBVIOUS
    <2>1. r \in rows /\ r.warehouse # {}
      BY DEF Warehoused
    <2>2. \A g1, g2 \in r.warehouse : g1 = g2
      BY <2>1, ScaleAssumption
    <2>3. f[r] \in r.warehouse
      BY <2>1
    <2>4. QED
      BY <2>1, <2>2, <2>3
  <1>2. \A r \in rows : r.warehouse # {} => r \in R
    BY DEF Warehoused
  <1>3. IsFiniteSet(R)
    <2>1. IsFiniteSet(rows)
      BY ScaleAssumption
    <2>2. QED
      BY <2>1, FS_Subset DEF Warehoused
  <1>4. f = [r \in R |-> f[r]]
    OBVIOUS
  <1> HIDE DEF R, f
  <1>5. f \in [R -> U]
    BY <1>1, <1>4
  <1>6. \A r1, r2 \in R : f[r1] = f[r2] => r1 = r2
    BY <1>1
  <1>7. \A g \in U : \E r \in R : f[r] = g
    BY <1>1, <1>2
  <1> HIDE DEF U
  <1>8. f \in Bijection(R, U)
    BY <1>5, <1>6, <1>7 DEF Bijection, Injection, Surjection, IsInjective
  <1>9. Cardinality(U) = Cardinality(R)
    BY <1>3, <1>8, FS_Bijection DEF ExistsBijection
  <1>10. QED
    BY <1>9 DEF R, U

\* The first of the results a caller gives for a partition.
FirstOf(given, i) == given[Min({j \in DOMAIN given : given[j].part = i})]

LEMMA FirstGiven ==
    ASSUME NEW A, NEW given \in Seq(A), NEW g \in ToSet(given)
    PROVE  /\ FirstOf(given, g.part) \in ToSet(given)
           /\ FirstOf(given, g.part).part = g.part
  <1> DEFINE S == {j \in DOMAIN given : given[j].part = g.part}
  <1>1. S # {}
    BY DEF ToSet
  <1>2. S \subseteq 1 .. Len(given)
    OBVIOUS
  <1>3. IsFiniteSet(S) /\ S \subseteq Int
    BY <1>2, FS_Interval, FS_Subset
  <1> HIDE DEF S
  <1>4. \E x \in S : \A y \in S : x <= y
    BY <1>1, <1>3, ExtremesExist
  <1>5. Min(S) \in S
    BY <1>4, Zenon DEF Min
  <1>6. Min(S) \in DOMAIN given /\ given[Min(S)].part = g.part
    BY <1>5 DEF S
  <1>7. FirstOf(given, g.part) = given[Min(S)]
    BY DEF FirstOf, S
  <1>8. QED
    BY <1>6, <1>7 DEF ToSet

\* What is accepted for each partition are the outputs of this plan.
LEMMA AcceptedOutputs ==
    ASSUME NEW p, NEW A, NEW given \in Seq(A), NEW damaged,
           {g.part : g \in ToSet(given)} = Indices(p.count),
           \A g1, g2 \in ToSet(given) : g1.part = g2.part => g1 = g2,
           \A i \in Indices(p.count) : ResultValid(p, FirstOf(given, i), damaged)
    PROVE  /\ UNION {FirstOf(given, i).output : i \in Indices(p.count)} = OutputsOf(scalePolicy, input, p)
           /\ UNION {g.output : g \in ToSet(given)} = OutputsOf(scalePolicy, input, p)
  <1> DEFINE I == Indices(p.count)
             out == OutputAt(scalePolicy, input, p)
  <1>1. ASSUME NEW i \in I
        PROVE  FirstOf(given, i) \in ToSet(given) /\ FirstOf(given, i).part = i
    <2>1. PICK g \in ToSet(given) : g.part = i
      OBVIOUS
    <2>2. QED
      BY <2>1, FirstGiven
  <1>2. \A i \in I : FirstOf(given, i).output = {out[i]}
    BY <1>1 DEF ResultValid, OutputAt
  <1>3. \A g \in ToSet(given) : g.part \in I /\ g = FirstOf(given, g.part)
    BY <1>1
  <1>4. OutputsOf(scalePolicy, input, p) = {out[i] : i \in I}
    BY DEF OutputsOf
  <1> HIDE DEF I, out
  <1>5. UNION {FirstOf(given, i).output : i \in I} = {out[i] : i \in I}
    BY <1>2
  <1>6. UNION {g.output : g \in ToSet(given)} = {out[i] : i \in I}
    BY <1>1, <1>2, <1>3
  <1>7. QED
    BY <1>4, <1>5, <1>6 DEF I

\* A merge that is not refused passed every check.
LEMMA NotRefused ==
    ASSUME NEW p, NEW given, NEW damaged
    PROVE  LET outputs == UNION {FirstOf(given, i).output : i \in Indices(p.count)}
               merged == MergeOutputs(scalePolicy, outputs)
           IN ~MergeRefuses(p, given, damaged) <=>
                /\ {g.part : g \in ToSet(given)} = Indices(p.count)
                /\ \A g1, g2 \in ToSet(given) : g1.part = g2.part => g1 = g2
                /\ \A i \in Indices(p.count) : ResultValid(p, FirstOf(given, i), damaged)
                /\ ~GrainRepeated(outputs) /\ ~WarehouseRepeated(outputs)
                /\ merged.count = Cardinality(input)
                /\ merged.refs = {r.ref : r \in input}
                /\ p.strategy = "BLOCK_KEY" => merged.pairs = CandidatePairs(input)
  BY DEF MergeRefuses, FirstOf

\* What the dependency pairs of the rows say together.
DependenciesAgree(rows) ==
    \A r1, r2 \in rows : \A d1 \in r1.dep, d2 \in r2.dep : d1[1] = d2[1] => d1[2] = d2[2]

\* A merge that succeeds gives what one pass gives.
LEMMA MergeTrue ==
    ASSUME scalePolicy \in Policies, input \in Datasets, NEW p \in PlanSet,
           NEW A, NEW given \in Seq(A), NEW damaged, MergeOutcome(p, given, damaged).status = "SUCCEEDED"
    PROVE  LET o == MergeOutcome(p, given, damaged)
           IN /\ o.merged = Reference(o.rows, scalePolicy, o.strategy)
              /\ o.valid = DependenciesAgree(o.rows)
  <1> DEFINE o == MergeOutcome(p, given, damaged)
             outputs == OutputsOf(scalePolicy, input, p)
             merged == MergeOutputs(scalePolicy, UNION {g.output : g \in ToSet(given)})
  <1>1. ~MergeRefuses(p, given, damaged)
    BY DEF MergeOutcome
  <1>2. o = [status |-> "SUCCEEDED", strategy |-> p.strategy, rows |-> input, merged |-> merged,
             valid |-> DependencyValid(merged)]
    BY <1>1 DEF MergeOutcome
  <1>3. /\ {g.part : g \in ToSet(given)} = Indices(p.count)
        /\ \A g1, g2 \in ToSet(given) : g1.part = g2.part => g1 = g2
        /\ \A i \in Indices(p.count) : ResultValid(p, FirstOf(given, i), damaged)
        /\ p.strategy = "BLOCK_KEY" =>
             MergeOutputs(scalePolicy, UNION {FirstOf(given, i).output : i \in Indices(p.count)}).pairs
               = CandidatePairs(input)
    BY <1>1, NotRefused
  <1>4. /\ UNION {FirstOf(given, i).output : i \in Indices(p.count)} = outputs
        /\ UNION {g.output : g \in ToSet(given)} = outputs
    BY <1>3, AcceptedOutputs
  <1>5. p.strategy = "BLOCK_KEY" => MergeOutputs(scalePolicy, outputs).pairs = CandidatePairs(input)
    BY <1>3, <1>4
  <1>6. Cuts(p)
    BY PlanFacts
  <1>7. /\ MergeOutputs(scalePolicy, outputs) = Reference(input, scalePolicy, p.strategy)
        /\ DependencyValid(MergeOutputs(scalePolicy, outputs)) <=> DependenciesAgree(input)
    BY <1>5, <1>6, MergeIsReference DEF DependenciesAgree
  <1>8. merged = MergeOutputs(scalePolicy, outputs)
    BY <1>4
  <1> HIDE DEF outputs, merged, o
  <1>9. o.merged = merged /\ o.rows = input /\ o.strategy = p.strategy /\ o.valid = DependencyValid(merged)
    BY <1>2
  <1>10. o.valid = DependenciesAgree(o.rows)
    <2>1. DependencyValid(merged) \in BOOLEAN /\ DependenciesAgree(input) \in BOOLEAN
      BY DEF DependencyValid, DependenciesAgree
    <2>2. DependencyValid(merged) <=> DependenciesAgree(input)
      BY <1>7, <1>8
    <2>3. DependencyValid(merged) = DependenciesAgree(input)
      BY <2>1, <2>2
    <2>4. QED
      BY <1>9, <2>3
  <1>11. o.merged = Reference(o.rows, scalePolicy, o.strategy)
    BY <1>7, <1>8, <1>9
  <1>12. QED
    BY <1>10, <1>11 DEF o

\* A merge of everything a plan has given succeeds, but for repeated keys
\* and stored results that do not verify.
LEMMA MergeReasoned ==
    ASSUME scalePolicy \in Policies, input \in Datasets, NEW p \in PlanSet,
           p.strategy # "BLOCK_KEY", p.input = input, partitionFaults = 0,
           NEW A, NEW given \in Seq(A),
           \A g \in ToSet(given) : Genuine(g) /\ g.input = p.input /\ g.count = p.count,
           \A i \in Indices(p.count) : \E g \in ToSet(given) : g.part = i,
           NEW damaged, damaged = {},
           ~\E r1, r2 \in input : r1 # r2 /\ SharesKey(r1, r2)
    PROVE  /\ MergeOutcome(p, given, damaged).status = "SUCCEEDED"
           /\ \A g \in ToSet(given) : g.status = "SUCCEEDED"
  <1> DEFINE I == Indices(p.count)
             outputs == OutputsOf(scalePolicy, input, p)
             firsts == UNION {FirstOf(given, i).output : i \in I}
  <1>1. \A g \in ToSet(given) : g = Result(p, g.part, TRUE) /\ g.part \in I
    BY GenuineResult
  <1>2. \A g \in ToSet(given) :
          /\ g.strategy = p.strategy /\ g.status = "SUCCEEDED"
          /\ g.output = {Output(scalePolicy, RowsOf(input, p, g.part), p.strategy, g.part)}
    <2> SUFFICES ASSUME NEW g \in ToSet(given)
                 PROVE  /\ g.strategy = p.strategy /\ g.status = "SUCCEEDED"
                        /\ g.output = {Output(scalePolicy, RowsOf(input, p, g.part), p.strategy, g.part)}
      OBVIOUS
    <2>1. PICK i \in I : g.part = i /\ g = Result(p, i, TRUE)
      BY <1>1
    <2>2. QED
      BY <2>1 DEF Result
  <1>3. {g.part : g \in ToSet(given)} = I
    <2>1. \A i \in I : i \in {g.part : g \in ToSet(given)}
      OBVIOUS
    <2>2. \A i \in {g.part : g \in ToSet(given)} : i \in I
      BY <1>1
    <2> HIDE DEF I
    <2>3. QED
      BY <2>1, <2>2
  <1>4. ASSUME NEW g1 \in ToSet(given), NEW g2 \in ToSet(given), g1.part = g2.part
        PROVE  g1 = g2
    <2>1. g1 = Result(p, g1.part, TRUE) /\ g2 = Result(p, g2.part, TRUE)
      BY <1>1
    <2>2. Result(p, g1.part, TRUE) = Result(p, g2.part, TRUE)
      BY <1>4
    <2>3. QED
      BY <2>1, <2>2
  <1>5. \A i \in I : ResultValid(p, FirstOf(given, i), damaged)
    <2> SUFFICES ASSUME NEW i \in I PROVE ResultValid(p, FirstOf(given, i), damaged)
      OBVIOUS
    <2>1. PICK g \in ToSet(given) : g.part = i
      OBVIOUS
    <2>2. FirstOf(given, i) \in ToSet(given)
      BY <2>1, FirstGiven
    <2>3. QED
      BY <1>2, <2>2 DEF ResultValid
  <1>6. firsts = outputs
    BY <1>3, <1>4, <1>5, AcceptedOutputs
  <1>7. Cuts(p)
    BY PlanFacts
  <1>a. MergeOutputs(scalePolicy, outputs) = Reference(input, scalePolicy, p.strategy)
    BY <1>7, MergeIsReference
  <1>8. ~GrainRepeated(outputs)
    <2>1. GrainSum(outputs) = Cardinality(Grained(input))
      BY <1>7, MergedNumbers
    <2>a. MergeOutputs(scalePolicy, outputs).grains = UNION {r.grain : r \in input}
      BY <1>a DEF Reference
    <2>2. UNION {o.grains : o \in outputs} = UNION {r.grain : r \in input}
      BY <2>a DEF MergeOutputs
    <2>3. Cardinality(UNION {r.grain : r \in input}) = Cardinality(Grained(input))
      BY GrainsCounted DEF SharesKey
    <2> HIDE DEF outputs
    <2>4. QED
      BY <2>1, <2>2, <2>3 DEF GrainRepeated, GrainSum
  <1>8a. ~WarehouseRepeated(outputs)
    <2>1. WarehouseSum(outputs) = Cardinality(Warehoused(input))
      BY <1>7, MergedNumbers
    <2>a. MergeOutputs(scalePolicy, outputs).warehouse = UNION {r.warehouse : r \in input}
      BY <1>a DEF Reference
    <2>2. UNION {o.warehouse : o \in outputs} = UNION {r.warehouse : r \in input}
      BY <2>a DEF MergeOutputs
    <2>3. Cardinality(UNION {r.warehouse : r \in input}) = Cardinality(Warehoused(input))
      BY WarehouseCounted DEF SharesKey
    <2> HIDE DEF outputs
    <2>4. QED
      BY <2>1, <2>2, <2>3 DEF WarehouseRepeated, WarehouseSum
  <1>9. MergeOutputs(scalePolicy, outputs).count = Cardinality(input)
    <2>1. CountSum(outputs) = Cardinality(input)
      BY <1>7, MergedNumbers
    <2>2. QED
      BY <2>1 DEF MergeOutputs, CountSum
  <1>10. MergeOutputs(scalePolicy, outputs).refs = {r.ref : r \in input}
    BY <1>a DEF Reference
  <1> HIDE DEF outputs
  <1>11. ~MergeRefuses(p, given, damaged)
    <2>1. MergeOutputs(scalePolicy, firsts) = MergeOutputs(scalePolicy, outputs)
      BY <1>6
    <2>2. GrainRepeated(firsts) = GrainRepeated(outputs) /\ WarehouseRepeated(firsts) = WarehouseRepeated(outputs)
      BY <1>6
    <2>3. QED
      BY <1>3, <1>4, <1>5, <1>6, <1>8, <1>8a, <1>9, <1>10, NotRefused
  <1>12. MergeOutcome(p, given, damaged).status = "SUCCEEDED"
    BY <1>11 DEF MergeOutcome
  <1>13. QED
    BY <1>2, <1>12

-----------------------------------------------------------------------------
(* Every step keeps the invariant.                                         *)

\* An outcome is right, said of a state that is named outright.
Judged(o, pol, rows, plans, faults, keeps) ==
    IF o.status = "SUCCEEDED"
    THEN o.merged = Reference(o.rows, pol, o.strategy) /\ o.valid = DependenciesAgree(o.rows)
    ELSE \/ faults > 0 \/ o.status = "NEEDS_REVIEW"
         \/ \E g \in keeps, p \in plans : g.input # rows \/ g.count # p.count
         \/ \E p \in plans : p.strategy = "BLOCK_KEY" \/ p.input # rows
         \/ \E r1, r2 \in rows : r1 # r2 /\ SharesKey(r1, r2)

LEMMA ToSetAppend ==
    ASSUME NEW A, NEW s \in Seq(A), NEW x \in A
    PROVE  Append(s, x) \in Seq(A) /\ ToSet(Append(s, x)) = ToSet(s) \cup {x}
  <1> DEFINE t == Append(s, x)
  <1>1. /\ t \in Seq(A) /\ Len(t) = Len(s) + 1 /\ t[Len(s) + 1] = x
        /\ \A i \in 1 .. Len(s) : t[i] = s[i]
    OBVIOUS
  <1>2. DOMAIN s = 1 .. Len(s) /\ DOMAIN t = 1 .. Len(t) /\ Len(s) \in Nat
    BY <1>1
  <1> HIDE DEF t
  <1>3. \A i \in DOMAIN t : t[i] \in ToSet(s) \cup {x}
    BY <1>1, <1>2 DEF ToSet
  <1>4. \A i \in DOMAIN s : \E j \in DOMAIN t : t[j] = s[i]
    BY <1>1, <1>2
  <1>5. \E j \in DOMAIN t : t[j] = x
    BY <1>1, <1>2
  <1>6. ToSet(t) = ToSet(s) \cup {x}
    BY <1>3, <1>4, <1>5 DEF ToSet
  <1>7. QED
    BY <1>1, <1>6 DEF t

LEMMA ToSetConcat ==
    ASSUME NEW A, NEW s \in Seq(A), NEW r \in Seq(A)
    PROVE  s \o r \in Seq(A) /\ ToSet(s \o r) = ToSet(s) \cup ToSet(r)
  <1> DEFINE t == s \o r
  <1>1. /\ t \in Seq(A) /\ Len(t) = Len(s) + Len(r)
        /\ \A i \in 1 .. Len(s) + Len(r) : t[i] = IF i <= Len(s) THEN s[i] ELSE r[i - Len(s)]
    OBVIOUS
  <1>2. /\ DOMAIN s = 1 .. Len(s) /\ DOMAIN t = 1 .. Len(t) /\ DOMAIN r = 1 .. Len(r)
        /\ Len(s) \in Nat /\ Len(r) \in Nat
    BY <1>1
  <1> HIDE DEF t
  <1>3. ASSUME NEW i \in DOMAIN t
        PROVE  t[i] \in ToSet(s) \cup ToSet(r)
    <2>1. CASE i <= Len(s)
      BY <1>1, <1>2, <2>1 DEF ToSet
    <2>2. CASE i > Len(s)
      <3>1. i - Len(s) \in DOMAIN r /\ t[i] = r[i - Len(s)]
        BY <1>1, <1>2, <2>2
      <3>2. QED
        BY <3>1 DEF ToSet
    <2>3. QED
      BY <1>2, <2>1, <2>2
  <1>4. \A i \in DOMAIN s : \E j \in DOMAIN t : t[j] = s[i]
    BY <1>1, <1>2
  <1>5. ASSUME NEW i \in DOMAIN r
        PROVE  \E j \in DOMAIN t : t[j] = r[i]
    <2>1. Len(s) + i \in DOMAIN t /\ t[Len(s) + i] = r[i]
      BY <1>1, <1>2
    <2>2. QED
      BY <2>1
  <1>6. ToSet(t) = ToSet(s) \cup ToSet(r)
    BY <1>3, <1>4, <1>5 DEF ToSet
  <1>7. QED
    BY <1>1, <1>6 DEF t

\* Whatever is merged, the outcome is judged right.
LEMMA MergeJudged ==
    ASSUME scalePolicy \in Policies, input \in Datasets, partitionFaults \in Nat,
           plan \subseteq PlanSet, NEW p \in plan, NEW A, NEW given \in Seq(A), NEW keeps,
           ToSet(given) \subseteq keeps, \A g \in ToSet(given) : Genuine(g),
           NEW damaged, NEW met, met = IF damaged = {} THEN partitionFaults ELSE partitionFaults + 1,
           (\A g \in ToSet(given) : g.input = p.input /\ g.count = p.count)
             => \A i \in Indices(p.count) : \E g \in ToSet(given) : g.part = i
    PROVE  /\ Judged(MergeOutcome(p, given, damaged), scalePolicy, input, plan, met, keeps)
           /\ (\E g \in ToSet(given) : g.status # "SUCCEEDED")
                => Judged([status |-> "INCOMPLETE"], scalePolicy, input, plan, met, keeps)
  <1> DEFINE o == MergeOutcome(p, given, damaged)
             excused == \/ met > 0
                        \/ \E g \in keeps, q \in plan : g.input # input \/ g.count # q.count
                        \/ \E q \in plan : q.strategy = "BLOCK_KEY" \/ q.input # input
                        \/ \E r1, r2 \in input : r1 # r2 /\ SharesKey(r1, r2)
  <1>1. p \in PlanSet
    OBVIOUS
  <1>2. ASSUME ~excused
        PROVE  o.status = "SUCCEEDED" /\ \A g \in ToSet(given) : g.status = "SUCCEEDED"
    <2>1. partitionFaults = 0 /\ damaged = {} /\ p.strategy # "BLOCK_KEY" /\ p.input = input
      BY <1>2
    <2>2. \A g \in ToSet(given) : g.input = p.input /\ g.count = p.count
      BY <1>2, <2>1
    <2>3. \A i \in Indices(p.count) : \E g \in ToSet(given) : g.part = i
      BY <2>2
    <2>4. ~\E r1, r2 \in input : r1 # r2 /\ SharesKey(r1, r2)
      BY <1>2
    <2>a. \A g \in ToSet(given) : Genuine(g) /\ g.input = p.input /\ g.count = p.count
      BY <2>2
    <2> HIDE DEF excused
    <2>5. MergeOutcome(p, given, damaged).status = "SUCCEEDED" /\ \A g \in ToSet(given) : g.status = "SUCCEEDED"
      BY <1>1, <2>1, <2>3, <2>4, <2>a, MergeReasoned
    <2>6. QED
      BY <2>5
  <1>3. o.status = "SUCCEEDED" =>
          o.merged = Reference(o.rows, scalePolicy, o.strategy) /\ o.valid = DependenciesAgree(o.rows)
    BY <1>1, MergeTrue
  <1> HIDE DEF o
  <1>4. Judged(o, scalePolicy, input, plan, met, keeps)
    BY <1>2, <1>3 DEF Judged
  <1>5. (\E g \in ToSet(given) : g.status # "SUCCEEDED")
          => Judged([status |-> "INCOMPLETE"], scalePolicy, input, plan, met, keeps)
    BY <1>2 DEF Judged
  <1>6. QED
    BY <1>4, <1>5 DEF o

\* The policy stays, and with it what plans and partitions can give.
LEMMA PolicyStays ==
    ASSUME scalePolicy' = scalePolicy, partitionFaults \in Nat,
           partitionFaults' \in {partitionFaults, partitionFaults + 1}
    PROVE  /\ PlanSet' = PlanSet /\ GivenResults' = GivenResults
           /\ \A g : Genuine(g) => Genuine(g)'
  <1>1. PlanSet' = PlanSet
    BY DEF PlanSet
  <1>2. \A q, i, published : Result(q, i, published)' = Result(q, i, published)
    BY DEF Result
  <1>3. \A q : ResultsOf(q)' = ResultsOf(q)
    BY <1>2 DEF ResultsOf
  <1>4. GivenResults' = GivenResults
    BY <1>1, <1>3 DEF GivenResults
  <1>5. partitionFaults' = 0 => partitionFaults = 0
    OBVIOUS
  <1>6. ASSUME NEW g, Genuine(g)
        PROVE  Genuine(g)'
    <2>0. PICK q \in PlanSet : \E i \in Indices(q.count) : \E published \in BOOLEAN :
            g = Result(q, i, published) /\ (partitionFaults = 0 => published)
      BY <1>6 DEF Genuine
    <2>1. PICK i \in Indices(q.count), published \in BOOLEAN :
            g = Result(q, i, published) /\ (partitionFaults = 0 => published)
      BY <2>0
    <2>2. q \in PlanSet'
      BY <1>1
    <2>3. g = Result(q, i, published)' /\ (partitionFaults' = 0 => published)
      BY <1>2, <1>5, <2>1
    <2>4. QED
      BY <2>2, <2>3 DEF Genuine
  <1>7. QED
    BY <1>1, <1>4, <1>6

LEMMA PlanScaleStep ==
    ASSUME ScaleInv, NEW count \in Counts, PlanScale(count)
    PROVE  ScaleInv'
  <1>1. /\ input \in Datasets /\ scalePolicy \in Policies /\ partitionFaults \in Nat
        /\ results \in Seq(GivenResults) /\ held \in Seq(GivenResults) /\ HeldWhole
        /\ \A g \in ToSet(results) \cup ToSet(held) : Genuine(g)
    BY DEF ScaleInv
  <1>2. /\ input' = input /\ scalePolicy' = scalePolicy /\ partitionFaults' = partitionFaults
        /\ results' = results /\ held' = held /\ outcome' = {} /\ waiting' = waiting /\ running' = running
        /\ plan' = MakePlan(scalePolicy, input, count) /\ AtRest
    BY DEF PlanScale
  <1>3. PlanSet' = PlanSet /\ GivenResults' = GivenResults /\ \A g : Genuine(g) => Genuine(g)'
    BY <1>1, <1>2, PolicyStays
  <1>4. plan' \subseteq PlanSet
    BY <1>1, <1>2 DEF PlanSet
  <1>5. \A p, q \in plan' : p = q
    BY <1>1, <1>2, PlanMade
  <1>6. AtRest'
    BY <1>2 DEF AtRest
  <1>7. HeldWhole'
    BY <1>1, <1>2 DEF HeldWhole
  <1>8. MergedEqualsReference'
    BY <1>2 DEF MergedEqualsReference
  <1>9. \A g \in ToSet(results') \cup ToSet(held') : Genuine(g)'
    BY <1>1, <1>2, <1>3
  <1>10. QED
    BY <1>1, <1>2, <1>3, <1>4, <1>5, <1>6, <1>7, <1>8, <1>9 DEF ScaleInv

LEMMA StartStep ==
    ASSUME ScaleInv, Start
    PROVE  ScaleInv'
  <1>1. /\ input \in Datasets /\ scalePolicy \in Policies /\ partitionFaults \in Nat
        /\ plan \subseteq PlanSet /\ \A p, q \in plan : p = q
        /\ results \in Seq(GivenResults) /\ held \in Seq(GivenResults) /\ HeldWhole
        /\ \A g \in ToSet(results) \cup ToSet(held) : Genuine(g)
    BY DEF ScaleInv
  <1>2. /\ input' = input /\ scalePolicy' = scalePolicy /\ partitionFaults' = partitionFaults
        /\ results' = <<>> /\ results = <<>> /\ held' = held /\ outcome = {} /\ running' = {} /\ plan' = plan
    BY DEF Start, AtRest
  <1>3. PICK p \in plan : /\ p.input = input
                          /\ IF p.rejects THEN waiting' = {} /\ outcome' = {[status |-> "NEEDS_REVIEW"]}
                             ELSE waiting' = Indices(p.count) /\ outcome' = outcome
    BY DEF Start
  <1>4. PlanSet' = PlanSet /\ GivenResults' = GivenResults /\ \A g : Genuine(g) => Genuine(g)'
    BY <1>1, <1>2, PolicyStays
  <1>5. HeldWhole'
    BY <1>1, <1>2 DEF HeldWhole
  <1>6. \A g \in ToSet(results') \cup ToSet(held') : Genuine(g)'
    BY <1>1, <1>2, <1>4
  <1>7. CASE p.rejects
    <2>1. AtRest'
      BY <1>2, <1>3, <1>7 DEF AtRest
    <2>0. \A o \in outcome' : o.status = "NEEDS_REVIEW"
      BY <1>3, <1>7
    <2>2. MergedEqualsReference'
      <3>1. \A o \in outcome' : o.status = "NEEDS_REVIEW" /\ o.status # "SUCCEEDED"
        BY <2>0
      <3>2. QED
        BY <3>1, Zenon DEF MergedEqualsReference
    <2>3. QED
      BY <1>1, <1>2, <1>4, <1>5, <1>6, <2>1, <2>2 DEF ScaleInv
  <1>8. CASE ~p.rejects
    <2>1. waiting' = Indices(p.count) /\ outcome' = {}
      BY <1>2, <1>3, <1>8
    <2>2. ToSet(results') = {}
      <3>1. DOMAIN <<>> = {}
        OBVIOUS
      <3>2. ToSet(<<>>) = {}
        BY <3>1 DEF ToSet
      <3>3. QED
        BY <1>2, <3>2
    <2>3. UnderWay(p)'
      BY <1>2, <1>3, <2>1, <2>2 DEF UnderWay
    <2>4. MergedEqualsReference'
      BY <2>1 DEF MergedEqualsReference
    <2>5. QED
      BY <1>1, <1>2, <1>4, <1>5, <1>6, <2>3, <2>4 DEF ScaleInv
  <1>9. QED
    BY <1>7, <1>8

\* The plan of an execution under way.
LEMMA WayOf ==
    ASSUME ScaleInv, ~AtRest
    PROVE  \E p \in plan : UnderWay(p) /\ \A q \in plan : q = p
  BY DEF ScaleInv

LEMMA SubmitStep ==
    ASSUME ScaleInv, NEW i \in waiting, Submit(i)
    PROVE  ScaleInv'
  <1>1. /\ input \in Datasets /\ scalePolicy \in Policies /\ partitionFaults \in Nat
        /\ plan \subseteq PlanSet /\ \A p, q \in plan : p = q
        /\ results \in Seq(GivenResults) /\ held \in Seq(GivenResults) /\ HeldWhole
        /\ \A g \in ToSet(results) \cup ToSet(held) : Genuine(g)
    BY DEF ScaleInv
  <1>2. /\ input' = input /\ scalePolicy' = scalePolicy /\ partitionFaults' = partitionFaults
        /\ results' = results /\ held' = held /\ outcome' = outcome /\ plan' = plan
        /\ waiting' = waiting \ {i} /\ running' = running \cup {i}
    BY DEF Submit
  <1>3. PlanSet' = PlanSet /\ GivenResults' = GivenResults /\ \A g : Genuine(g) => Genuine(g)'
    BY <1>1, <1>2, PolicyStays
  <1>4. PICK p \in plan : UnderWay(p)
    BY WayOf DEF AtRest
  <1>5. UnderWay(p)'
    BY <1>2, <1>4 DEF UnderWay
  <1>6. HeldWhole'
    BY <1>1, <1>2 DEF HeldWhole
  <1>7. MergedEqualsReference'
    BY <1>2, <1>4 DEF MergedEqualsReference, UnderWay
  <1>8. \A g \in ToSet(results') \cup ToSet(held') : Genuine(g)'
    BY <1>1, <1>2, <1>3
  <1>9. QED
    BY <1>1, <1>2, <1>3, <1>4, <1>5, <1>6, <1>7, <1>8 DEF ScaleInv

LEMMA CollectStep ==
    ASSUME ScaleInv, NEW i \in running, NEW published \in BOOLEAN, Collect(i, published)
    PROVE  ScaleInv'
  <1>1. /\ input \in Datasets /\ scalePolicy \in Policies /\ partitionFaults \in Nat
        /\ plan \subseteq PlanSet /\ \A p, q \in plan : p = q
        /\ results \in Seq(GivenResults) /\ held \in Seq(GivenResults) /\ HeldWhole
        /\ \A g \in ToSet(results) \cup ToSet(held) : Genuine(g)
    BY DEF ScaleInv
  <1>2. PICK p \in plan : UnderWay(p) /\ \A q \in plan : q = p
    BY WayOf DEF AtRest
  <1>a. PICK new : new = Result(p, i, published)
    OBVIOUS
  <1>3. /\ input' = input /\ scalePolicy' = scalePolicy /\ held' = held /\ outcome' = outcome /\ plan' = plan
        /\ waiting' = waiting /\ running' = running \ {i} /\ results' = Append(results, new)
        /\ partitionFaults' = IF published THEN partitionFaults ELSE partitionFaults + 1
    BY <1>2, <1>a DEF Collect
  <1>4. PlanSet' = PlanSet /\ GivenResults' = GivenResults /\ \A g : Genuine(g) => Genuine(g)'
    BY <1>1, <1>3, PolicyStays
  <1>5. i \in Indices(p.count)
    BY <1>2 DEF UnderWay
  <1>6. new \in GivenResults
    BY <1>1, <1>5, <1>a DEF GivenResults, ResultsOf
  <1>7. new.part = i /\ new.input = p.input /\ new.count = p.count
    BY <1>a DEF Result
  <1>8. Genuine(new)'
    <2>1. new = Result(p, i, published)'
      BY <1>3, <1>a DEF Result
    <2>2. partitionFaults' = 0 => published
      BY <1>1, <1>3
    <2>3. p \in PlanSet'
      BY <1>1, <1>4
    <2>4. QED
      BY <1>5, <2>1, <2>2, <2>3 DEF Genuine
  <1>9. results' \in Seq(GivenResults) /\ ToSet(results') = ToSet(results) \cup {new}
    BY <1>1, <1>3, <1>6, ToSetAppend
  <1>10. \A g \in ToSet(results') \cup ToSet(held') : Genuine(g)'
    <2>1. \A g \in ToSet(results) \cup ToSet(held) : Genuine(g)'
      BY <1>1, <1>4
    <2>2. ToSet(held') = ToSet(held)
      BY <1>3
    <2>3. QED
      BY <1>8, <1>9, <2>1, <2>2
  <1>11. UnderWay(p)'
    <2>1. p.input = input' /\ outcome' = {}
      BY <1>2, <1>3 DEF UnderWay
    <2>2. \A g \in ToSet(results') : g.input = p.input /\ g.count = p.count
      BY <1>2, <1>7, <1>9 DEF UnderWay
    <2>3. {g.part : g \in ToSet(results')} = {g.part : g \in ToSet(results)} \cup {i}
      BY <1>7, <1>9
    <2>4. Indices(p.count) = waiting \cup running \cup {g.part : g \in ToSet(results)}
      BY <1>2 DEF UnderWay
    <2>5. Indices(p.count) = waiting' \cup running' \cup {g.part : g \in ToSet(results')}
      BY <1>3, <2>3, <2>4
    <2>6. QED
      BY <2>1, <2>2, <2>5 DEF UnderWay
  <1>12. HeldWhole'
    BY <1>1, <1>3 DEF HeldWhole
  <1>13. MergedEqualsReference'
    BY <1>11 DEF MergedEqualsReference, UnderWay
  <1>14. partitionFaults' \in Nat
    BY <1>1, <1>3
  <1>15. QED
    BY <1>1, <1>3, <1>4, <1>9, <1>10, <1>11, <1>12, <1>13, <1>14 DEF ScaleInv

LEMMA ConcludeStep ==
    ASSUME ScaleInv, Conclude
    PROVE  ScaleInv'
  <1>1. /\ input \in Datasets /\ scalePolicy \in Policies /\ partitionFaults \in Nat
        /\ plan \subseteq PlanSet /\ \A p, q \in plan : p = q
        /\ results \in Seq(GivenResults) /\ held \in Seq(GivenResults) /\ HeldWhole
        /\ \A g \in ToSet(results) \cup ToSet(held) : Genuine(g)
    BY DEF ScaleInv
  <1>2. PICK p \in plan : UnderWay(p) /\ \A q \in plan : q = p
    BY WayOf DEF AtRest, Conclude
  <1>a. PICK damaged : /\ partitionFaults' = IF damaged = {} THEN partitionFaults ELSE partitionFaults + 1
                       /\ outcome' = {IF \E r \in ToSet(results) : r.status # "SUCCEEDED"
                                      THEN [status |-> "INCOMPLETE"] ELSE MergeOutcome(p, results, damaged)}
    BY <1>2 DEF Conclude, Meets
  <1>3. PICK o : o = IF \E r \in ToSet(results) : r.status # "SUCCEEDED" THEN [status |-> "INCOMPLETE"]
                     ELSE MergeOutcome(p, results, damaged)
    OBVIOUS
  <1>4. /\ input' = input /\ scalePolicy' = scalePolicy /\ plan' = plan
        /\ partitionFaults' \in {partitionFaults, partitionFaults + 1}
        /\ waiting' = {} /\ running' = {} /\ waiting = {} /\ running = {}
        /\ held' = held \o results /\ results' = <<>> /\ outcome' = {o}
    BY <1>3, <1>a DEF Conclude
  <1>5. PlanSet' = PlanSet /\ GivenResults' = GivenResults /\ \A g : Genuine(g) => Genuine(g)'
    BY <1>1, <1>4, PolicyStays
  <1>6. held' \in Seq(GivenResults) /\ ToSet(held') = ToSet(held) \cup ToSet(results)
    BY <1>1, <1>4, ToSetConcat
  <1>7. ToSet(results') = {} /\ results' \in Seq(GivenResults)
    <2>1. DOMAIN <<>> = {}
      OBVIOUS
    <2>2. ToSet(<<>>) = {}
      BY <2>1 DEF ToSet
    <2>3. QED
      BY <1>4, <2>2
  <1>8. \A g \in ToSet(results') \cup ToSet(held') : Genuine(g)'
    <2>1. \A g \in ToSet(held) \cup ToSet(results) : Genuine(g)'
      BY <1>1, <1>5
    <2>2. QED
      BY <1>6, <1>7, <2>1
  <1>9. \A i \in Indices(p.count) : \E g \in ToSet(results) : g.part = i
    <2>1. Indices(p.count) = {g.part : g \in ToSet(results)}
      BY <1>2, <1>4 DEF UnderWay
    <2>2. \A i \in {g.part : g \in ToSet(results)} : \E g \in ToSet(results) : g.part = i
      OBVIOUS
    <2>3. QED
      BY <2>1, <2>2
  <1>10. \A g \in ToSet(results) : g.input = p.input /\ g.count = p.count
    BY <1>2 DEF UnderWay
  <1>11. HeldWhole'
    <2>1. ASSUME NEW g \in ToSet(held'), NEW j \in Indices(g.count)
          PROVE  \E h \in ToSet(held') : h.part = j /\ h.count = g.count /\ h.input = g.input
      <3>1. CASE g \in ToSet(held)
        <4>1. \E h \in ToSet(held) : h.part = j /\ h.count = g.count /\ h.input = g.input
          BY <1>1, <2>1, <3>1 DEF HeldWhole
        <4>2. QED
          BY <1>6, <4>1
      <3>2. CASE g \in ToSet(results)
        <4>1. j \in Indices(p.count)
          BY <1>10, <2>1, <3>2
        <4>2. PICK h \in ToSet(results) : h.part = j
          BY <1>9, <4>1
        <4>3. h.count = g.count /\ h.input = g.input
          BY <1>10, <3>2, <4>2
        <4>4. QED
          BY <1>6, <4>2, <4>3
      <3>3. QED
        BY <1>6, <2>1, <3>1, <3>2
    <2>2. QED
      BY <2>1 DEF HeldWhole
  <1>12. Judged(o, scalePolicy, input, plan, partitionFaults', ToSet(held'))
    <2>1. ToSet(results) \subseteq ToSet(held')
      BY <1>6
    <2>2. PICK keeps : keeps = ToSet(held')
      OBVIOUS
    <2>3. /\ Judged(MergeOutcome(p, results, damaged), scalePolicy, input, plan, partitionFaults', keeps)
          /\ (\E g \in ToSet(results) : g.status # "SUCCEEDED")
                => Judged([status |-> "INCOMPLETE"], scalePolicy, input, plan, partitionFaults', keeps)
      BY <1>1, <1>9, <1>a, <2>1, <2>2, MergeJudged
    <2>4. CASE \E g \in ToSet(results) : g.status # "SUCCEEDED"
      BY <1>3, <2>2, <2>3, <2>4
    <2>5. CASE ~\E g \in ToSet(results) : g.status # "SUCCEEDED"
      BY <1>3, <2>2, <2>3, <2>5
    <2>6. QED
      BY <2>4, <2>5
  <1>13. MergedEqualsReference'
    <2>1. \A x \in outcome' : Judged(x, scalePolicy', input', plan', partitionFaults', ToSet(held'))
      BY <1>4, <1>12
    <2>2. QED
      BY <2>1 DEF MergedEqualsReference, Judged, DependenciesAgree
  <1>14. AtRest'
    BY <1>4 DEF AtRest
  <1>15. QED
    BY <1>1, <1>4, <1>5, <1>6, <1>7, <1>8, <1>11, <1>13, <1>14 DEF ScaleInv

LEMMA MergeHeldStep ==
    ASSUME ScaleInv, MergeHeld
    PROVE  ScaleInv'
  <1>1. /\ input \in Datasets /\ scalePolicy \in Policies /\ partitionFaults \in Nat
        /\ plan \subseteq PlanSet /\ \A p, q \in plan : p = q
        /\ results \in Seq(GivenResults) /\ held \in Seq(GivenResults) /\ HeldWhole
        /\ \A g \in ToSet(results) \cup ToSet(held) : Genuine(g)
    BY DEF ScaleInv
  <1>2. PICK p \in plan : \E damaged :
          /\ partitionFaults' = IF damaged = {} THEN partitionFaults ELSE partitionFaults + 1
          /\ outcome' = {MergeOutcome(p, held, damaged)}
    BY DEF MergeHeld, Meets
  <1>a. PICK damaged : /\ partitionFaults' = IF damaged = {} THEN partitionFaults ELSE partitionFaults + 1
                       /\ outcome' = {MergeOutcome(p, held, damaged)}
    BY <1>2
  <1>3. /\ input' = input /\ scalePolicy' = scalePolicy /\ plan' = plan
        /\ partitionFaults' \in {partitionFaults, partitionFaults + 1}
        /\ waiting' = waiting /\ running' = running /\ results' = results /\ held' = held /\ AtRest
        /\ held # <<>>
    BY <1>a DEF MergeHeld
  <1>4. PlanSet' = PlanSet /\ GivenResults' = GivenResults /\ \A g : Genuine(g) => Genuine(g)'
    BY <1>1, <1>3, PolicyStays
  <1>5. \A g \in ToSet(results') \cup ToSet(held') : Genuine(g)'
    BY <1>1, <1>3, <1>4
  <1>6. HeldWhole'
    BY <1>1, <1>3 DEF HeldWhole
  <1>7. AtRest'
    BY <1>3 DEF AtRest
  <1>8. (\A g \in ToSet(held) : g.input = p.input /\ g.count = p.count)
          => \A i \in Indices(p.count) : \E g \in ToSet(held) : g.part = i
    <2> SUFFICES ASSUME \A g \in ToSet(held) : g.input = p.input /\ g.count = p.count,
                        NEW i \in Indices(p.count)
                 PROVE  \E g \in ToSet(held) : g.part = i
      OBVIOUS
    <2>1. 1 \in DOMAIN held
      BY <1>1, <1>3
    <2>2. PICK g : g \in ToSet(held)
      BY <2>1 DEF ToSet
    <2>3. g.count = p.count
      BY <2>2
    <2>4. QED
      BY <1>1, <2>2, <2>3 DEF HeldWhole
  <1>9. Judged(MergeOutcome(p, held, damaged), scalePolicy, input, plan, partitionFaults', ToSet(held))
    BY <1>1, <1>8, <1>a, MergeJudged
  <1>10. MergedEqualsReference'
    <2>1. \A x \in outcome' : Judged(x, scalePolicy', input', plan', partitionFaults', ToSet(held'))
      BY <1>3, <1>9, <1>a
    <2>2. QED
      BY <2>1 DEF MergedEqualsReference, Judged, DependenciesAgree
  <1>11. QED
    BY <1>1, <1>3, <1>4, <1>5, <1>6, <1>7, <1>10 DEF ScaleInv

\* A caller that tries again, and a dataset that is replaced, forget the outcome.
LEMMA ForgetStep ==
    ASSUME ScaleInv, Retry \/ \E rows \in Datasets : Replace(rows)
    PROVE  ScaleInv'
  <1>1. /\ input \in Datasets /\ scalePolicy \in Policies /\ partitionFaults \in Nat
        /\ plan \subseteq PlanSet /\ \A p, q \in plan : p = q
        /\ results \in Seq(GivenResults) /\ held \in Seq(GivenResults) /\ HeldWhole
        /\ \A g \in ToSet(results) \cup ToSet(held) : Genuine(g)
    BY DEF ScaleInv
  <1>2. /\ scalePolicy' = scalePolicy /\ partitionFaults' = partitionFaults /\ plan' \in {plan, {}}
        /\ waiting' = waiting /\ running' = running /\ results' = results /\ held' = held
        /\ AtRest /\ outcome' = {} /\ input' \in Datasets
    BY <1>1 DEF Retry, Replace
  <1>3. PlanSet' = PlanSet /\ GivenResults' = GivenResults /\ \A g : Genuine(g) => Genuine(g)'
    BY <1>1, <1>2, PolicyStays
  <1>4. \A g \in ToSet(results') \cup ToSet(held') : Genuine(g)'
    BY <1>1, <1>2, <1>3
  <1>5. HeldWhole'
    BY <1>1, <1>2 DEF HeldWhole
  <1>6. AtRest'
    BY <1>2 DEF AtRest
  <1>7. MergedEqualsReference'
    BY <1>2 DEF MergedEqualsReference
  <1>8. plan' \subseteq PlanSet /\ \A p, q \in plan' : p = q
    BY <1>1, <1>2
  <1>9. QED
    BY <1>1, <1>2, <1>3, <1>4, <1>5, <1>6, <1>7, <1>8 DEF ScaleInv

LEMMA StutterStep ==
    ASSUME ScaleInv, UNCHANGED scaleVars
    PROVE  ScaleInv'
  <1>1. /\ input' = input /\ scalePolicy' = scalePolicy /\ partitionFaults' = partitionFaults /\ plan' = plan
        /\ waiting' = waiting /\ running' = running /\ results' = results /\ held' = held /\ outcome' = outcome
    BY DEF scaleVars
  <1>2. partitionFaults \in Nat
    BY DEF ScaleInv
  <1>3. PlanSet' = PlanSet /\ GivenResults' = GivenResults /\ \A g : Genuine(g) => Genuine(g)'
    BY <1>1, <1>2, PolicyStays
  <1>4. AtRest' = AtRest /\ HeldWhole' = HeldWhole /\ \A p : UnderWay(p)' = UnderWay(p)
    BY <1>1 DEF AtRest, HeldWhole, UnderWay
  <1>5. MergedEqualsReference'
    BY <1>1 DEF ScaleInv, MergedEqualsReference
  <1>6. \A g \in ToSet(results') \cup ToSet(held') : Genuine(g)'
    BY <1>1, <1>3 DEF ScaleInv
  <1>7. QED
    BY <1>1, <1>3, <1>4, <1>5, <1>6 DEF ScaleInv

-----------------------------------------------------------------------------
\* Whatever the datasets, policies, partition counts, digests and bounds are:
\* a merge that succeeds gives what one pass over the rows gives, and one that
\* does not has a reason (ScaleService.execute and merge).
THEOREM MergeCorrect == ScaleSpec => []MergedEqualsReference
  <1>1. ScaleInit => ScaleInv
    <2> SUFFICES ASSUME ScaleInit PROVE ScaleInv
      OBVIOUS
    <2>1. /\ input \in Datasets /\ scalePolicy \in Policies /\ partitionFaults = 0 /\ plan = {} /\ outcome = {}
          /\ results = <<>> /\ held = <<>> /\ AtRest
      BY DEF ScaleInit, AtRest
    <2>2. DOMAIN <<>> = {}
      OBVIOUS
    <2>3. ToSet(results) = {} /\ ToSet(held) = {}
      BY <2>1, <2>2 DEF ToSet
    <2>4. HeldWhole /\ MergedEqualsReference
      BY <2>1, <2>3 DEF HeldWhole, MergedEqualsReference
    <2>5. QED
      BY <2>1, <2>3, <2>4 DEF ScaleInv
  <1>2. ScaleInv /\ [ScaleNext]_scaleVars => ScaleInv'
    BY PlanScaleStep, StartStep, SubmitStep, CollectStep, ConcludeStep, MergeHeldStep, ForgetStep,
       StutterStep DEF ScaleNext
  <1>3. ScaleInv => MergedEqualsReference
    BY DEF ScaleInv
  <1>4. QED
    BY <1>1, <1>2, <1>3, PTL DEF ScaleSpec
==============================================================================
