---------------------------- MODULE DataInduction ----------------------------
(***************************************************************************)
(* How the proofs reason about data of any size.  The library's induction  *)
(* rules take an operator as a parameter, which no installed prover can    *)
(* instantiate.  A statement about all numbers, or about all subsets of a  *)
(* finite set, is proved instead by the least number, or a smallest set,   *)
(* for which it would fail.  Sums over finite sets and functions built one  *)
(* step at a time, both defined by recursion, are shown to be defined.     *)
(***************************************************************************)
EXTENDS Integers, FiniteSets, Functions, FiniteSetsExt, FiniteSetTheorems, TLAPS

\* A set of naturals that is not empty has a least element.
LEMMA LeastNatural ==
    ASSUME NEW T \in SUBSET Nat, T # {}
    PROVE  \E m \in T : \A n \in T : m <= n
  <1>1. PICK m \in T : \A n \in T : ~(<<n, m>> \in OpToRel(<, Nat))
    BY NatLessThanWellFounded, WFMin, Zenon
  <1>2. \A n \in T : ~(n < m)
    BY <1>1 DEF OpToRel
  <1>3. QED
    BY <1>2

\* Finite sets are well-founded under inclusion.
LEMMA SmallestSet ==
    ASSUME NEW T, T # {}, \A s \in T : IsFiniteSet(s)
    PROVE  \E x \in T : \A y \in T : y \subseteq x => y = x
  <1> DEFINE S == UNION T
  <1>1. T \subseteq FiniteSubsetsOf(S)
    BY DEF FiniteSubsetsOf
  <1>2. IsWellFoundedOn(StrictSubsetOrdering(S), FiniteSubsetsOf(S))
    BY FS_StrictSubsetOrderingWellFounded
  <1>3. PICK x \in T : \A y \in T : ~(<<y, x>> \in StrictSubsetOrdering(S))
    BY <1>1, <1>2, WFMin
  <1>4. ASSUME NEW y \in T, y \subseteq x, y # x PROVE FALSE
    <2>1. <<y, x>> \in StrictSubsetOrdering(S)
      BY <1>4 DEF StrictSubsetOrdering
    <2>2. QED
      BY <1>3, <2>1
  <1>5. QED
    BY <1>4

-----------------------------------------------------------------------------
(* Sums.                                                                   *)

Some(s) == CHOOSE x \in s : TRUE

\* f gives the sum of w over each subset of S.
IsSum(f, w, S) ==
    f = [s \in SUBSET S |-> IF s = {} THEN 0 ELSE w[Some(s)] + f[s \ {Some(s)}]]

LEMMA SumUnfolds ==
    ASSUME NEW w, NEW S
    PROVE  SumFunctionOnSet(w, S) = (CHOOSE f : IsSum(f, w, S))[S]
  BY DEF SumFunctionOnSet, FoldFunctionOnSet, MapThenFoldSet, IsSum, Some

LEMMA SumAt ==
    ASSUME NEW f, NEW w, NEW S, IsSum(f, w, S), NEW s \in SUBSET S
    PROVE  /\ s = {} => f[s] = 0
           /\ s # {} => Some(s) \in s /\ f[s] = w[Some(s)] + f[s \ {Some(s)}]
  <1>1. f[s] = IF s = {} THEN 0 ELSE w[Some(s)] + f[s \ {Some(s)}]
    BY DEF IsSum
  <1>2. s # {} => Some(s) \in s
    BY DEF Some
  <1>3. QED
    BY <1>1, <1>2

\* A sum over a set depends only on what is summed there.
LEMMA SumAgrees ==
    ASSUME NEW f, NEW w, NEW S, IsSum(f, w, S),
           NEW g, NEW v, NEW T, IsSum(g, v, T),
           NEW s, s \subseteq S, s \subseteq T, IsFiniteSet(s),
           \A x \in s : w[x] = v[x]
    PROVE  f[s] = g[s]
  <1> DEFINE Bad == {t \in SUBSET s : f[t] # g[t]}
  <1> SUFFICES ASSUME Bad # {} PROVE FALSE
    OBVIOUS
  <1>1. \A t \in Bad : IsFiniteSet(t)
    BY FS_Subset
  <1>2. PICK t \in Bad : \A y \in Bad : y \subseteq t => y = t
    <2> HIDE DEF Bad
    <2>1. QED
      BY <1>1, SmallestSet
  <1>3. t \in SUBSET S /\ t \in SUBSET T
    OBVIOUS
  <1>4. t # {}
    BY <1>3, SumAt
  <1>5. /\ Some(t) \in t
        /\ f[t] = w[Some(t)] + f[t \ {Some(t)}]
        /\ g[t] = v[Some(t)] + g[t \ {Some(t)}]
    BY <1>3, <1>4, SumAt
  <1>6. f[t \ {Some(t)}] = g[t \ {Some(t)}]
    BY <1>2, <1>5
  <1>7. w[Some(t)] = v[Some(t)]
    BY <1>5
  <1>8. QED
    BY <1>5, <1>6, <1>7

LEMMA SumExists ==
    ASSUME NEW w, NEW S, IsFiniteSet(S)
    PROVE  \E f : IsSum(f, w, S)
  <1> DEFINE Bad == {t \in SUBSET S : ~\E f : IsSum(f, w, t)}
  <1> SUFFICES ASSUME Bad # {} PROVE FALSE
    OBVIOUS
  <1>1. \A t \in Bad : IsFiniteSet(t)
    BY FS_Subset
  <1>2. PICK t \in Bad : \A y \in Bad : y \subseteq t => y = t
    <2> HIDE DEF Bad
    <2>1. QED
      BY <1>1, SmallestSet
  <1> DEFINE sum(u) == CHOOSE f : IsSum(f, w, u)
             g == [s \in SUBSET t |-> IF s = {} THEN 0
                       ELSE w[Some(s)] + sum(s \ {Some(s)})[s \ {Some(s)}]]
  <1>3. ASSUME NEW u \in SUBSET t, u # t PROVE IsSum(sum(u), w, u)
    <2>1. \E f : IsSum(f, w, u)
      BY <1>2, <1>3
    <2>2. QED
      BY <2>1
  <1> HIDE DEF sum
  <1>4. ASSUME NEW u \in SUBSET t, u # t PROVE g[u] = sum(u)[u]
    <2>1. IsSum(sum(u), w, u)
      BY <1>3, <1>4
    <2>2. CASE u = {}
      <3>1. sum(u)[u] = 0
        BY <2>1, <2>2, SumAt
      <3>2. g[u] = 0
        BY <2>2
      <3>3. QED
        BY <3>1, <3>2
    <2>3. CASE u # {}
      <3> DEFINE z == u \ {Some(u)}
      <3>1. Some(u) \in u /\ sum(u)[u] = w[Some(u)] + sum(u)[z]
        <4>1. u \in SUBSET u
          OBVIOUS
        <4>2. QED
          BY <2>1, <2>3, <4>1, SumAt
      <3>2. IsSum(sum(z), w, z)
        BY <1>3, <3>1
      <3>3. IsFiniteSet(z)
        BY <1>1, FS_Subset
      <3>4. sum(u)[z] = sum(z)[z]
        BY <2>1, <3>2, <3>3, SumAgrees
      <3>5. g[u] = w[Some(u)] + sum(z)[z]
        BY <2>3
      <3>6. QED
        BY <3>1, <3>4, <3>5
    <2>4. QED
      BY <2>2, <2>3
  <1>5. \A s \in SUBSET t : g[s] = IF s = {} THEN 0 ELSE w[Some(s)] + g[s \ {Some(s)}]
    <2> SUFFICES ASSUME NEW s \in SUBSET t, s # {}
                 PROVE  g[s] = w[Some(s)] + g[s \ {Some(s)}]
      OBVIOUS
    <2>1. Some(s) \in s
      BY DEF Some
    <2>2. g[s \ {Some(s)}] = sum(s \ {Some(s)})[s \ {Some(s)}]
      BY <1>4, <2>1
    <2>3. QED
      BY <2>2
  <1>6. g = [s \in SUBSET t |-> g[s]]
    OBVIOUS
  <1> HIDE DEF g
  <1>7. IsSum(g, w, t)
    BY <1>5, <1>6 DEF IsSum
  <1>8. QED
    BY <1>2, <1>7

LEMMA SumInt ==
    ASSUME NEW f, NEW w, NEW S, IsSum(f, w, S), IsFiniteSet(S), \A x \in S : w[x] \in Int
    PROVE  \A s \in SUBSET S : f[s] \in Int
  <1> DEFINE Bad == {t \in SUBSET S : f[t] \notin Int}
  <1> SUFFICES ASSUME Bad # {} PROVE FALSE
    OBVIOUS
  <1>1. \A t \in Bad : IsFiniteSet(t)
    BY FS_Subset
  <1>2. PICK t \in Bad : \A y \in Bad : y \subseteq t => y = t
    <2> HIDE DEF Bad
    <2>1. QED
      BY <1>1, SmallestSet
  <1>3. t \in SUBSET S /\ f[t] \notin Int
    OBVIOUS
  <1>4. t # {}
    <2>1. t = {} => f[t] = 0
      BY <1>3, SumAt
    <2>2. QED
      BY <1>3, <2>1
  <1>5. Some(t) \in t /\ f[t] = w[Some(t)] + f[t \ {Some(t)}]
    BY <1>3, <1>4, SumAt
  <1>6. f[t \ {Some(t)}] \in Int
    BY <1>2, <1>5
  <1>7. QED
    BY <1>3, <1>5, <1>6

\* Any element may be taken out first.
LEMMA SumStep ==
    ASSUME NEW f, NEW w, NEW S, IsSum(f, w, S), IsFiniteSet(S), \A x \in S : w[x] \in Int
    PROVE  \A s \in SUBSET S : \A x \in s : f[s] = w[x] + f[s \ {x}]
  <1> DEFINE Bad == {t \in SUBSET S : \E x \in t : f[t] # w[x] + f[t \ {x}]}
  <1> SUFFICES ASSUME Bad # {} PROVE FALSE
    OBVIOUS
  <1>1. \A t \in Bad : IsFiniteSet(t)
    BY FS_Subset
  <1>2. PICK t \in Bad : \A y \in Bad : y \subseteq t => y = t
    <2> HIDE DEF Bad
    <2>1. QED
      BY <1>1, SmallestSet
  <1>3. PICK x \in t : f[t] # w[x] + f[t \ {x}]
    OBVIOUS
  <1> DEFINE c == Some(t)
  <1>4. c \in t /\ f[t] = w[c] + f[t \ {c}]
    BY <1>3, SumAt
  <1> HIDE DEF c
  <1>5. c # x
    BY <1>3, <1>4
  <1>6. f[t \ {c}] = w[x] + f[(t \ {c}) \ {x}]
    BY <1>2, <1>3, <1>4, <1>5
  <1>7. f[t \ {x}] = w[c] + f[(t \ {x}) \ {c}]
    BY <1>2, <1>3, <1>4, <1>5
  <1>8. (t \ {c}) \ {x} = (t \ {x}) \ {c}
    OBVIOUS
  <1>9. w[c] \in Int /\ w[x] \in Int /\ f[(t \ {x}) \ {c}] \in Int
    BY <1>3, <1>4, SumInt
  <1>10. f[t \ {c}] = w[x] + f[(t \ {x}) \ {c}]
    BY <1>6, <1>8
  <1>11. QED
    BY <1>3, <1>4, <1>7, <1>9, <1>10

\* The sum of the empty set, and an element taken out of a sum.
LEMMA SumFacts ==
    ASSUME NEW w, NEW S, IsFiniteSet(S), \A x \in S : w[x] \in Int
    PROVE  /\ SumFunctionOnSet(w, S) \in Int
           /\ S = {} => SumFunctionOnSet(w, S) = 0
           /\ \A x \in S : SumFunctionOnSet(w, S) = w[x] + SumFunctionOnSet(w, S \ {x})
  <1> DEFINE f == CHOOSE f : IsSum(f, w, S)
  <1>1. IsSum(f, w, S)
    BY SumExists
  <1>2. SumFunctionOnSet(w, S) = f[S]
    BY SumUnfolds
  <1> HIDE DEF f
  <1>3. f[S] \in Int
    BY <1>1, SumInt
  <1>4. S = {} => f[S] = 0
    BY <1>1, SumAt
  <1>5. ASSUME NEW x \in S PROVE f[S] = w[x] + SumFunctionOnSet(w, S \ {x})
    <2> DEFINE T == S \ {x}
               g == CHOOSE g : IsSum(g, w, T)
    <2>1. T \subseteq S /\ T \subseteq T
      OBVIOUS
    <2>2. IsFiniteSet(T)
      BY <2>1, FS_Subset
    <2>3. IsSum(g, w, T)
      BY <2>2, SumExists
    <2>4. SumFunctionOnSet(w, T) = g[T]
      BY SumUnfolds
    <2> HIDE DEF g
    <2>5. f[S] = w[x] + f[T]
      BY <1>1, SumStep
    <2> HIDE DEF T
    <2>6. f[T] = g[T]
      BY <1>1, <2>1, <2>2, <2>3, SumAgrees
    <2>7. QED
      BY <2>4, <2>5, <2>6 DEF T
  <1>6. QED
    BY <1>2, <1>3, <1>4, <1>5

LEMMA SumSame ==
    ASSUME NEW w, NEW v, NEW S, IsFiniteSet(S), \A x \in S : w[x] = v[x]
    PROVE  SumFunctionOnSet(w, S) = SumFunctionOnSet(v, S)
  <1> DEFINE f == CHOOSE f : IsSum(f, w, S)
             g == CHOOSE g : IsSum(g, v, S)
  <1>1. IsSum(f, w, S) /\ IsSum(g, v, S)
    BY SumExists
  <1>2. SumFunctionOnSet(w, S) = f[S] /\ SumFunctionOnSet(v, S) = g[S]
    BY SumUnfolds
  <1> HIDE DEF f, g
  <1>3. S \subseteq S
    OBVIOUS
  <1>4. f[S] = g[S]
    BY <1>1, <1>3, SumAgrees
  <1>5. QED
    BY <1>2, <1>4

-----------------------------------------------------------------------------
(* Recursive functions.                                                    *)

\* f starts from `base' and goes on with the steps next[1], next[2], ...
IsBuilt(f, V, base, next, N) ==
    /\ f \in [0 .. N -> V] /\ f[0] = base
    /\ \A n \in 1 .. N : f[n] = next[n][f[n - 1]]

LEMMA BuildExists ==
    ASSUME NEW N \in Nat, NEW V, NEW base \in V, NEW next \in [1 .. N -> [V -> V]]
    PROVE  \E f : IsBuilt(f, V, base, next, N)
  <1> DEFINE Bad == {k \in 0 .. N : ~\E f : IsBuilt(f, V, base, next, k)}
  <1>0. N \in 0 .. N
    OBVIOUS
  <1> SUFFICES ASSUME Bad # {} PROVE FALSE
    BY <1>0
  <1>1. PICK k \in Bad : \A n \in Bad : k <= n
    <2>1. Bad \in SUBSET Nat
      OBVIOUS
    <2>2. QED
      BY <2>1, LeastNatural
  <1>2. CASE k = 0
    <2> DEFINE f == [n \in 0 .. 0 |-> base]
    <2>1. IsBuilt(f, V, base, next, 0)
      BY DEF IsBuilt
    <2>2. QED
      BY <1>2, <2>1
  <1>3. CASE k # 0
    <2>1. k \in 1 .. N /\ k - 1 \in 0 .. N /\ k - 1 \notin Bad
      BY <1>1, <1>3
    <2>2. PICK g : IsBuilt(g, V, base, next, k - 1)
      BY <2>1
    <2>3. g \in [0 .. k - 1 -> V] /\ next[k] \in [V -> V] /\ next[k][g[k - 1]] \in V
      BY <2>1, <2>2 DEF IsBuilt
    <2> DEFINE f == [n \in 0 .. k |-> IF n = k THEN next[k][g[k - 1]] ELSE g[n]]
    <2>4. f \in [0 .. k -> V]
      BY <2>1, <2>3
    <2>5. (\A n \in 0 .. k - 1 : f[n] = g[n]) /\ f[k] = next[k][g[k - 1]]
      BY <2>1
    <2> HIDE DEF f
    <2>6. ASSUME NEW n \in 1 .. k PROVE f[n] = next[n][f[n - 1]]
      <3>1. CASE n = k
        BY <2>1, <2>5, <3>1
      <3>2. CASE n # k
        <4>1. n \in 1 .. k - 1 /\ n \in 0 .. k - 1 /\ n - 1 \in 0 .. k - 1
          BY <2>1, <3>2
        <4>2. g[n] = next[n][g[n - 1]]
          BY <2>2, <4>1 DEF IsBuilt
        <4>3. QED
          BY <2>5, <4>1, <4>2
      <3>3. QED
        BY <3>1, <3>2
    <2>7. f[0] = base
      BY <2>1, <2>2, <2>5 DEF IsBuilt
    <2>8. IsBuilt(f, V, base, next, k)
      BY <2>4, <2>6, <2>7 DEF IsBuilt
    <2>9. QED
      BY <2>8
  <1>4. QED
    BY <1>2, <1>3

\* A function that goes up at every step goes up by the distance at least.
LEMMA Climbs ==
    ASSUME NEW lo \in Int, NEW hi \in Int, NEW f,
           \A i \in lo .. hi : f[i] \in Int,
           \A i \in lo .. hi - 1 : f[i] < f[i + 1]
    PROVE  \A i, j \in lo .. hi : i <= j => f[i] + (j - i) <= f[j]
  <1> SUFFICES ASSUME NEW i \in lo .. hi
               PROVE  \A j \in lo .. hi : i <= j => f[i] + (j - i) <= f[j]
    OBVIOUS
  <1> DEFINE Bad == {d \in Nat : i + d <= hi /\ ~(f[i] + d <= f[i + d])}
  <1>1. Bad = {}
    <2> SUFFICES ASSUME Bad # {} PROVE FALSE
      OBVIOUS
    <2>1. PICK d \in Bad : \A e \in Bad : d <= e
      <3>1. Bad \in SUBSET Nat
        OBVIOUS
      <3>2. QED
        BY <3>1, LeastNatural
    <2>2. d # 0
      OBVIOUS
    <2>3. d - 1 \in Nat /\ d - 1 \notin Bad
      BY <2>1, <2>2
    <2>4. i + (d - 1) \in lo .. hi - 1 /\ i + (d - 1) + 1 = i + d
      BY <2>1, <2>3
    <2>5. f[i] + (d - 1) <= f[i + (d - 1)]
      BY <2>3, <2>4
    <2>6. f[i + (d - 1)] < f[i + d]
      BY <2>4
    <2>7. f[i] \in Int /\ f[i + (d - 1)] \in Int /\ f[i + d] \in Int
      BY <2>1, <2>4
    <2>8. f[i] + d <= f[i + d]
      BY <2>5, <2>6, <2>7
    <2>9. QED
      BY <2>1, <2>8
  <1>2. ASSUME NEW j \in lo .. hi, i <= j PROVE f[i] + (j - i) <= f[j]
    <2>1. j - i \in Nat /\ i + (j - i) = j /\ j - i \notin Bad
      BY <1>1, <1>2
    <2>2. QED
      BY <2>1
  <1>3. QED
    BY <1>2
==============================================================================
