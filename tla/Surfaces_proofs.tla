--------------------------- MODULE Surfaces_proofs ---------------------------
(***************************************************************************)
(* What people are asked and shown.                                         *)
(*                                                                          *)
(* Reviews: whatever happens to the artifacts between the question and the  *)
(* answer, a checkpoint asks about intact artifacts only (SubjectsSound),   *)
(* and while it can derive any question an acceptance counts only for        *)
(* artifacts that read as they did when it was given (ReviewsBind).         *)
(***************************************************************************)
EXTENDS ReviewSubjects, VisualViews, DataInduction

-----------------------------------------------------------------------------
(* Contexts.                                                               *)

IsContext(c) == c = [f \in Bound \cup {"skip"} |-> c[f]] /\ c.skip = NoContext

LEMMA ContextParts ==
    ASSUME NEW checkpoint, NEW stage, NEW artifact, NEW content, NEW version, NEW fingerprints, NEW policy, NEW domains,
           NEW semantic, NEW applicability, NEW c,
           c = Context(checkpoint, stage, artifact, content, version, fingerprints, policy, domains, semantic, applicability)
    PROVE  /\ IsContext(c)
           /\ c.checkpoint = checkpoint /\ c.artifact = artifact /\ c.content = content /\ c.domains = domains
           /\ c.applicability = applicability
           /\ SubjectKey(c) = <<checkpoint, artifact, content, semantic, applicability>>
  <1>1. /\ c.checkpoint = checkpoint /\ c.artifact = artifact /\ c.content = content /\ c.domains = domains
        /\ c.applicability = applicability /\ c.semantic = semantic /\ c.skip = NoContext
    BY DEF Context
  <1>2. c = [f \in Bound \cup {"skip"} |-> c[f]]
    BY DEF Context, Bound
  <1> QED
    BY <1>1, <1>2 DEF IsContext, SubjectKey

LEMMA SameContext ==
    ASSUME NEW c, NEW d, IsContext(c), IsContext(d), \A f \in Bound : c[f] = d[f]
    PROVE  c = d
  <1>1. c["skip"] = d["skip"]
    BY DEF IsContext
  <1>2. \A f \in Bound \cup {"skip"} : c[f] = d[f]
    BY <1>1
  <1> QED
    BY <1>2 DEF IsContext

\* Of the contexts with one key the last is kept, and only it.
LEMMA OnePerKey ==
    ASSUME NEW f, DOMAIN f \subseteq Nat
    PROVE  /\ \A c \in UniqueContexts(f) : \E i \in DOMAIN f : c = f[i]
           /\ \A c, d \in UniqueContexts(f) : SubjectKey(c) = SubjectKey(d) => c = d
  <1> DEFINE Newest(i) == \A j \in DOMAIN f : j > i => SubjectKey(f[j]) # SubjectKey(f[i])
  <1>1. \A c \in UniqueContexts(f) : \E i \in DOMAIN f : c = f[i] /\ Newest(i)
    BY DEF UniqueContexts
  <1>2. ASSUME NEW c \in UniqueContexts(f), NEW d \in UniqueContexts(f), SubjectKey(c) = SubjectKey(d)
        PROVE  c = d
    <2>1. PICK i \in DOMAIN f : c = f[i] /\ Newest(i)
      BY <1>1
    <2>2. PICK j \in DOMAIN f : d = f[j] /\ Newest(j)
      BY <1>1
    <2>3. ~(j > i) /\ ~(i > j)
      BY <1>2, <2>1, <2>2
    <2>4. i \in Nat /\ j \in Nat
      OBVIOUS
    <2>5. i = j
      BY <2>3, <2>4
    <2> QED
      BY <2>1, <2>2, <2>5
  <1> QED
    BY <1>1, <1>2

LEMMA LastIsKept ==
    ASSUME NEW f, NEW n \in Nat, DOMAIN f \subseteq 1 .. n, NEW i \in DOMAIN f
    PROVE  \E c \in UniqueContexts(f) : SubjectKey(c) = SubjectKey(f[i])
  <1> DEFINE T == {m \in Nat : m <= n /\ n - m \in DOMAIN f /\ SubjectKey(f[n - m]) = SubjectKey(f[i])}
  <1>1. n - i \in T
    <2>1. i \in 1 .. n
      OBVIOUS
    <2>2. n - i \in Nat /\ n - i <= n /\ n - (n - i) = i
      BY <2>1
    <2> QED
      BY <2>2
  <1>2. PICK m \in T : \A k \in T : m <= k
    <2>1. T \in SUBSET Nat /\ T # {}
      BY <1>1
    <2> HIDE DEF T
    <2> QED
      BY <2>1, LeastNatural
  <1>3. m \in Nat /\ n - m \in DOMAIN f /\ SubjectKey(f[n - m]) = SubjectKey(f[i])
    OBVIOUS
  <1>4. ASSUME NEW j \in DOMAIN f, j > n - m, SubjectKey(f[j]) = SubjectKey(f[n - m]) PROVE FALSE
    <2>1. j \in 1 .. n
      OBVIOUS
    <2>2. n - j \in Nat /\ n - j <= n /\ n - (n - j) = j /\ n - j < m
      BY <1>3, <1>4, <2>1
    <2>3. n - j \in T
      BY <1>3, <1>4, <2>2
    <2> QED
      BY <1>2, <1>3, <2>2, <2>3
  <1>5. f[n - m] \in UniqueContexts(f)
    BY <1>3, <1>4 DEF UniqueContexts
  <1> QED
    BY <1>3, <1>5

-----------------------------------------------------------------------------
(* What each checkpoint asks about.                                        *)

Decisions(world) == OfKind(world, "RelationshipDecision") \cup OfKind(world, "SemanticMappingDecision")
Results(world) == {world.upstream[i].id : i \in OfKind(world, "EntityResolutionResult")}

AsksEvidence(world, c, i) ==
    c = EvidenceContext(world.upstream[i].id, BodyAt(world, i), AssertionCounts(world))
AsksIdentity(world, c, i) ==
    /\ HypothesisOf(world, BodyAt(world, i)) # Unreadable
    /\ Range(BodyAt(world, i).erRefs) \subseteq Results(world)
    /\ IdentityBound(HypothesisOf(world, BodyAt(world, i)), BodyAt(world, i), ErHashes(world, BodyAt(world, i)))
    /\ c = IdentityContext(HypothesisOf(world, BodyAt(world, i)), BodyAt(world, i), ErHashes(world, BodyAt(world, i)))
AsksCompiled(world, c, i, k, t) ==
    /\ SqlMatches(world, world.upstream[i], world.upstream[k])
    /\ TargetMatches(world, world.upstream[i], world.upstream[t])
    /\ c = MaterializationContext(BodyAt(world, i), BodyAt(world, k), BodyAt(world, t))

LEMMA Positions ==
    ASSUME NEW world, WorldPosed(world), NEW kind
    PROVE  /\ OfKind(world, kind) \subseteq 1 .. Len(world.upstream) /\ Len(world.upstream) \in Nat
           /\ Named(world, kind) \subseteq OfKind(world, kind)
           /\ OfKind(world, kind) \subseteq Nat
  <1>1. Len(world.upstream) \in Nat /\ DOMAIN world.upstream = 1 .. Len(world.upstream)
    BY DEF WorldPosed, IsList
  <1>2. OfKind(world, kind) \subseteq DOMAIN world.upstream /\ Named(world, kind) \subseteq OfKind(world, kind)
    BY DEF OfKind, Named
  <1> QED
    BY <1>1, <1>2

LEMMA EvidenceAsked ==
    ASSUME NEW world, WorldPosed(world), NEW f,
           f = [i \in Decisions(world) |-> EvidenceContext(world.upstream[i].id, BodyAt(world, i), AssertionCounts(world))]
    PROVE  /\ Contexts(world, "REVIEW_EVIDENCE_DECISIONS") = UniqueContexts(f)
           /\ DOMAIN f = Decisions(world) /\ DOMAIN f \subseteq 1 .. Len(world.upstream) /\ DOMAIN f \subseteq Nat
           /\ \A i \in Decisions(world) : AsksEvidence(world, f[i], i)
  <1>1. DOMAIN f = Decisions(world) /\ \A i \in Decisions(world) : AsksEvidence(world, f[i], i)
    BY DEF AsksEvidence
  <1>2. Decisions(world) \subseteq 1 .. Len(world.upstream) /\ Decisions(world) \subseteq Nat
    BY Positions DEF Decisions
  <1>3. Contexts(world, "REVIEW_EVIDENCE_DECISIONS") = UniqueContexts(f)
    BY DEF Contexts, Derive, EvidenceContexts, EvidenceIn, Decisions
  <1> QED
    BY <1>1, <1>2, <1>3

LEMMA IdentityAsked ==
    ASSUME NEW world, WorldPosed(world)
    PROVE  \E f :
             /\ Contexts(world, "REVIEW_CANONICAL_IDENTITY") = UniqueContexts(f)
             /\ DOMAIN f \subseteq 1 .. Len(world.upstream) /\ DOMAIN f \subseteq Nat
             /\ DOMAIN f \subseteq Named(world, "CanonicalIdentityProposal")
             /\ \A i \in DOMAIN f : AsksIdentity(world, f[i], i)
             /\ Derive(world, "REVIEW_CANONICAL_IDENTITY").unresolved =
                  Unread(world) \cup {world.upstream[i].id : i \in Named(world, "CanonicalIdentityProposal") \ DOMAIN f}
  <1> DEFINE N == Named(world, "CanonicalIdentityProposal")
             all == [i \in N |-> IdentityOf(HypothesisOf(world, BodyAt(world, i)), BodyAt(world, i), Results(world), ErHashes(world, BodyAt(world, i)))]
             bound == {i \in DOMAIN all : all[i] # NoContext}
             f == [i \in bound |-> all[i]]
  <1>1. Derive(world, "REVIEW_CANONICAL_IDENTITY") = IdentityFound(world, all)
    BY DEF Derive, IdentityContexts, IdentityIn, Results
  <1>2. DOMAIN all = N /\ bound \subseteq N /\ DOMAIN f = bound
    OBVIOUS
  <1>3. /\ Contexts(world, "REVIEW_CANONICAL_IDENTITY") = UniqueContexts(f)
        /\ Derive(world, "REVIEW_CANONICAL_IDENTITY").unresolved = Unread(world) \cup {world.upstream[i].id : i \in N \ bound}
    BY <1>1, <1>2 DEF Contexts, IdentityFound
  <1>4. ASSUME NEW i \in bound PROVE AsksIdentity(world, f[i], i)
    <2>1. f[i] = all[i] /\ all[i] # NoContext /\ i \in N
      BY <1>4
    <2>2. all[i] = IdentityOf(HypothesisOf(world, BodyAt(world, i)), BodyAt(world, i), Results(world), ErHashes(world, BodyAt(world, i)))
      BY <2>1
    <2> QED
      BY <2>1, <2>2 DEF IdentityOf, AsksIdentity
  <1>5. N \subseteq 1 .. Len(world.upstream) /\ N \subseteq Nat
    BY Positions
  <1> HIDE DEF all, bound, f, N
  <1>6. /\ Contexts(world, "REVIEW_CANONICAL_IDENTITY") = UniqueContexts(f)
        /\ DOMAIN f \subseteq 1 .. Len(world.upstream) /\ DOMAIN f \subseteq Nat
        /\ DOMAIN f \subseteq N
        /\ \A i \in DOMAIN f : AsksIdentity(world, f[i], i)
        /\ Derive(world, "REVIEW_CANONICAL_IDENTITY").unresolved = Unread(world) \cup {world.upstream[i].id : i \in N \ DOMAIN f}
    BY <1>2, <1>3, <1>4, <1>5
  <1> QED
    BY <1>6 DEF N

LEMMA PlanAsked ==
    ASSUME NEW world
    PROVE  Contexts(world, "REVIEW_ANALYTICAL_PLAN") = {PlanContext(BodyAt(world, i)) : i \in Named(world, "AnalyticalPlan")}
  BY DEF Contexts, Derive

LEMMA CompiledAsked ==
    ASSUME NEW world
    PROVE  \A c : c \in Contexts(world, "REVIEW_MATERIALIZATION_PLAN") <=>
             \E i \in Named(world, "CompiledPlan"), k \in Named(world, "GeneratedSQL"), t \in OfKind(world, "TargetConfig") :
                AsksCompiled(world, c, i, k, t)
  <1> DEFINE N == Named(world, "CompiledPlan")
             found == [i \in N |-> CompiledContexts(world, i)]
  <1>1. Contexts(world, "REVIEW_MATERIALIZATION_PLAN") = (UNION {found[i] : i \in DOMAIN found})
    BY DEF Contexts, Derive, MaterializationContexts, CompiledFound
  <1>2. \A c : c \in Contexts(world, "REVIEW_MATERIALIZATION_PLAN") <=> \E i \in N : c \in CompiledContexts(world, i)
    BY <1>1
  <1>3. \A c : \A i \in N : c \in CompiledContexts(world, i) <=>
           \E k \in Named(world, "GeneratedSQL"), t \in OfKind(world, "TargetConfig") : AsksCompiled(world, c, i, k, t)
    BY DEF CompiledContexts, AsksCompiled
  <1> QED
    BY <1>2, <1>3

\* What the builders put into a context.
LEMMA EvidenceParts ==
    ASSUME NEW world, NEW c, NEW i, AsksEvidence(world, c, i)
    PROVE  /\ IsContext(c) /\ c.checkpoint = "REVIEW_EVIDENCE_DECISIONS" /\ c.artifact = world.upstream[i].id
           /\ c.content = BodyAt(world, i) /\ c.domains = AssertionCounts(world)
  BY ContextParts DEF AsksEvidence, EvidenceContext

LEMMA IdentityParts ==
    ASSUME NEW world, NEW c, NEW i, AsksIdentity(world, c, i)
    PROVE  /\ IsContext(c) /\ c.checkpoint = "REVIEW_CANONICAL_IDENTITY" /\ c.artifact = BodyAt(world, i).id
           /\ c.content = BodyAt(world, i)
           /\ c.applicability = <<HypothesisOf(world, BodyAt(world, i)), BodyAt(world, i), BodyAt(world, i).source, ErHashes(world, BodyAt(world, i))>>
  BY ContextParts DEF AsksIdentity, IdentityContext

LEMMA PlanParts ==
    ASSUME NEW p, NEW c, c = PlanContext(p)
    PROVE  /\ IsContext(c) /\ c.checkpoint = "REVIEW_ANALYTICAL_PLAN" /\ c.artifact = p.id /\ c.content = p
  BY ContextParts DEF PlanContext

LEMMA CompiledParts ==
    ASSUME NEW world, NEW c, NEW i, NEW k, NEW t, AsksCompiled(world, c, i, k, t)
    PROVE  /\ IsContext(c) /\ c.checkpoint = "REVIEW_MATERIALIZATION_PLAN" /\ c.artifact = BodyAt(world, i).id
           /\ c.content = <<BodyAt(world, i), BodyAt(world, k).statements, BodyAt(world, t)>>
  BY ContextParts DEF AsksCompiled, MaterializationContext, SqlHash

LEMMA AskedShape ==
    ASSUME NEW world, WorldPosed(world), NEW checkpoint \in Checkpoints, NEW c \in Contexts(world, checkpoint)
    PROVE  IsContext(c) /\ c.checkpoint = checkpoint
  <1>1. CASE checkpoint = "REVIEW_EVIDENCE_DECISIONS"
    <2> DEFINE f == [i \in Decisions(world) |-> EvidenceContext(world.upstream[i].id, BodyAt(world, i), AssertionCounts(world))]
    <2>1. /\ Contexts(world, checkpoint) = UniqueContexts(f) /\ DOMAIN f = Decisions(world) /\ DOMAIN f \subseteq Nat
          /\ \A i \in Decisions(world) : AsksEvidence(world, f[i], i)
      BY <1>1, EvidenceAsked
    <2> HIDE DEF f
    <2>2. PICK i \in DOMAIN f : c = f[i]
      BY <2>1, OnePerKey
    <2> QED
      BY <1>1, <2>1, <2>2, EvidenceParts
  <1>2. CASE checkpoint = "REVIEW_CANONICAL_IDENTITY"
    <2>1. PICK f : /\ Contexts(world, checkpoint) = UniqueContexts(f) /\ DOMAIN f \subseteq Nat
                   /\ \A i \in DOMAIN f : AsksIdentity(world, f[i], i)
      BY <1>2, IdentityAsked
    <2>2. PICK i \in DOMAIN f : c = f[i]
      BY <2>1, OnePerKey
    <2> QED
      BY <1>2, <2>1, <2>2, IdentityParts
  <1>3. CASE checkpoint = "REVIEW_ANALYTICAL_PLAN"
    BY <1>3, PlanAsked, PlanParts
  <1>4. CASE checkpoint = "REVIEW_MATERIALIZATION_PLAN"
    BY <1>4, CompiledAsked, CompiledParts
  <1> QED
    BY <1>1, <1>2, <1>3, <1>4 DEF Checkpoints

\* No two questions of a checkpoint have one key.
LEMMA KeysDiffer ==
    ASSUME NEW world, WorldPosed(world), NEW checkpoint \in Checkpoints,
           NEW c \in Contexts(world, checkpoint), NEW d \in Contexts(world, checkpoint), SubjectKey(c) = SubjectKey(d)
    PROVE  c = d
  <1>0. c.content = d.content
    BY DEF SubjectKey
  <1>1. CASE checkpoint = "REVIEW_EVIDENCE_DECISIONS"
    <2> DEFINE f == [i \in Decisions(world) |-> EvidenceContext(world.upstream[i].id, BodyAt(world, i), AssertionCounts(world))]
    <2>1. Contexts(world, checkpoint) = UniqueContexts(f) /\ DOMAIN f \subseteq Nat
      BY <1>1, EvidenceAsked
    <2> HIDE DEF f
    <2> QED
      BY <2>1, OnePerKey
  <1>2. CASE checkpoint = "REVIEW_CANONICAL_IDENTITY"
    <2>1. PICK f : Contexts(world, checkpoint) = UniqueContexts(f) /\ DOMAIN f \subseteq Nat
      BY <1>2, IdentityAsked
    <2> QED
      BY <2>1, OnePerKey
  <1>3. CASE checkpoint = "REVIEW_ANALYTICAL_PLAN"
    <2>1. PICK p, q : c = PlanContext(p) /\ d = PlanContext(q)
      BY <1>3, PlanAsked
    <2>2. c.content = p /\ d.content = q
      BY <2>1, PlanParts
    <2> QED
      BY <1>0, <2>1, <2>2
  <1>4. CASE checkpoint = "REVIEW_MATERIALIZATION_PLAN"
    <2>1. PICK i, k, t : AsksCompiled(world, c, i, k, t)
      BY <1>4, CompiledAsked
    <2>2. PICK j, l, u : AsksCompiled(world, d, j, l, u)
      BY <1>4, CompiledAsked
    <2>3. /\ BodyAt(world, i) = BodyAt(world, j) /\ BodyAt(world, k).statements = BodyAt(world, l).statements
          /\ BodyAt(world, t) = BodyAt(world, u)
      BY <1>0, <2>1, <2>2, CompiledParts
    <2>4. /\ c = MaterializationContext(BodyAt(world, i), BodyAt(world, k), BodyAt(world, t))
          /\ d = MaterializationContext(BodyAt(world, j), BodyAt(world, l), BodyAt(world, u))
      BY <2>1, <2>2 DEF AsksCompiled
    <2> QED
      BY <2>3, <2>4 DEF MaterializationContext, SqlHash
  <1> QED
    BY <1>1, <1>2, <1>3, <1>4 DEF Checkpoints

-----------------------------------------------------------------------------
(* What was judged.                                                        *)

LEMMA TypedAt ==
    ASSUME NEW world, WorldPosed(world), NEW kind \in DOMAIN ContractOf, NEW i \in OfKind(world, kind)
    PROVE  /\ BodyAt(world, i).type = ContractOf[kind] /\ BodyAt(world, i).id = world.upstream[i].id
           /\ BodyAt(world, i).type = "proposal" => IsList(BodyAt(world, i).erRefs)
  <1>1. i \in DOMAIN world.upstream /\ world.upstream[i].kind = kind /\ ReadsVerified(world, world.upstream[i])
    BY DEF OfKind, ReadsAs
  <1> QED
    BY <1>1 DEF WorldPosed

LEMMA Contracts ==
    /\ {"RelationshipDecision", "SemanticMappingDecision", "CanonicalIdentityProposal", "AnalyticalPlan", "CompiledPlan"} = DOMAIN ContractOf
    /\ ContractOf["RelationshipDecision"] = "decision" /\ ContractOf["SemanticMappingDecision"] = "decision"
    /\ ContractOf["CanonicalIdentityProposal"] = "proposal" /\ ContractOf["AnalyticalPlan"] = "plan"
    /\ ContractOf["CompiledPlan"] = "compiled"
  BY DEF ContractOf

\* The hypothesis of a question about a proposal is the one the proposal names.
LEMMA HypothesisNamed ==
    ASSUME NEW world, NEW p, NEW hashes, HypothesisOf(world, p) # Unreadable, IdentityBound(HypothesisOf(world, p), p, hashes)
    PROVE  HypothesisOf(world, p) = world.body[p.hypothesis] /\ Intact(world, p.hypothesis)
  <1>0. p.hypothesis = HypothesisOf(world, p).id
    BY DEF IdentityBound
  <1>1. CASE \E i \in Named(world, "CanonicalModelHypothesis") : world.upstream[i].id = p.hypothesis
    <2>1. PICK i \in Named(world, "CanonicalModelHypothesis") : world.upstream[i].id = p.hypothesis
      BY <1>1
    <2>2. ReadsVerified(world, world.upstream[i])
      BY DEF Named, OfKind, ReadsAs
    <2>3. HypothesisOf(world, p) = world.body[p.hypothesis]
      BY <1>1 DEF HypothesisOf
    <2> QED
      BY <2>1, <2>2, <2>3 DEF ReadsVerified, Intact
  <1>2. CASE ~\E i \in Named(world, "CanonicalModelHypothesis") : world.upstream[i].id = p.hypothesis
    <2> DEFINE ref == world.registered[p.hypothesis]
    <2>1. /\ ReadsVerified(world, ref) /\ world.body[ref.id].id = ref.id
          /\ HypothesisOf(world, p) = world.body[ref.id]
      BY <1>2 DEF HypothesisOf, ReadsAs
    <2>2. ref.id = p.hypothesis
      BY <1>0, <2>1
    <2> HIDE DEF ref
    <2> QED
      BY <2>1, <2>2 DEF ReadsVerified, Intact
  <1> QED
    BY <1>1, <1>2

\* A question asked in two worlds is about the same in both.
LEMMA SameJudged ==
    ASSUME NEW before, WorldPosed(before), NEW after, WorldPosed(after), NEW checkpoint \in Checkpoints,
           NEW c \in Contexts(before, checkpoint), c \in Contexts(after, checkpoint)
    PROVE  Judged(before, c.artifact) = Judged(after, c.artifact) /\ after.body[c.artifact] # Unreadable
  <1>1. CASE checkpoint = "REVIEW_EVIDENCE_DECISIONS"
    <2>1. ASSUME NEW world, WorldPosed(world), c \in Contexts(world, checkpoint)
          PROVE  c.content = world.body[c.artifact] /\ c.content.type = "decision" /\ c.domains = AssertionCounts(world)
      <3> DEFINE f == [i \in Decisions(world) |-> EvidenceContext(world.upstream[i].id, BodyAt(world, i), AssertionCounts(world))]
      <3>1. /\ Contexts(world, checkpoint) = UniqueContexts(f) /\ DOMAIN f = Decisions(world) /\ DOMAIN f \subseteq Nat
            /\ \A i \in Decisions(world) : AsksEvidence(world, f[i], i)
        BY <1>1, <2>1, EvidenceAsked
      <3> HIDE DEF f
      <3>2. PICK i \in Decisions(world) : AsksEvidence(world, c, i)
        BY <2>1, <3>1, OnePerKey
      <3>3. BodyAt(world, i).type = "decision"
        BY <2>1, TypedAt, Contracts DEF Decisions
      <3> QED
        BY <3>2, <3>3, EvidenceParts DEF BodyAt
    <2>2. ASSUME NEW world
          PROVE  world.body[c.artifact].type = "decision" =>
                   Judged(world, c.artifact) = <<world.body[c.artifact], {<<a, AssertionCounts(world)[a]>> : a \in DOMAIN AssertionCounts(world)}>>
      <3> DEFINE A == OfKind(world, "DomainAssertion")
                 n(a) == Cardinality({i \in A : BodyAt(world, i).id = a})
      <3>1. /\ DOMAIN AssertionCounts(world) = {BodyAt(world, i).id : i \in A}
            /\ \A a \in DOMAIN AssertionCounts(world) : AssertionCounts(world)[a] = n(a)
        BY DEF AssertionCounts
      <3>2. world.body[c.artifact].type = "decision" =>
              Judged(world, c.artifact) = <<world.body[c.artifact], {<<BodyAt(world, i).id, n(BodyAt(world, i).id)>> : i \in A}>>
        BY DEF Judged
      <3> DEFINE D == AssertionCounts(world)
                 seen == {<<BodyAt(world, i).id, n(BodyAt(world, i).id)>> : i \in A}
                 counted == {<<a, D[a]>> : a \in DOMAIN D}
      <3>3. ASSUME NEW x \in seen PROVE x \in counted
        <4>1. PICK i \in A : x = <<BodyAt(world, i).id, n(BodyAt(world, i).id)>>
          OBVIOUS
        <4>2. BodyAt(world, i).id \in DOMAIN D /\ D[BodyAt(world, i).id] = n(BodyAt(world, i).id)
          BY <3>1
        <4> HIDE DEF n, D, A
        <4> QED
          BY <4>1, <4>2
      <3>4. ASSUME NEW x \in counted PROVE x \in seen
        <4>1. PICK a \in DOMAIN D : x = <<a, D[a]>>
          OBVIOUS
        <4>2. PICK i \in A : a = BodyAt(world, i).id
          BY <3>1, <4>1
        <4>3. D[a] = n(a)
          BY <3>1
        <4> HIDE DEF n, D, A
        <4> QED
          BY <4>1, <4>2, <4>3
      <3>5. seen = counted
        BY <3>3, <3>4
      <3> QED
        BY <3>2, <3>5
    <2>3. /\ c.content = before.body[c.artifact] /\ c.domains = AssertionCounts(before) /\ c.content.type = "decision"
          /\ c.content = after.body[c.artifact] /\ c.domains = AssertionCounts(after)
      BY <2>1
    <2>4. after.body[c.artifact] # Unreadable
      BY <2>3 DEF Unreadable
    <2> QED
      BY <2>2, <2>3, <2>4
  <1>2. CASE checkpoint = "REVIEW_CANONICAL_IDENTITY"
    <2>1. ASSUME NEW world, WorldPosed(world), c \in Contexts(world, checkpoint)
          PROVE  /\ c.content = world.body[c.artifact] /\ c.content.type = "proposal"
                 /\ c.applicability[1] = world.body[c.content.hypothesis]
      <3>1. PICK f : /\ Contexts(world, checkpoint) = UniqueContexts(f) /\ DOMAIN f \subseteq Nat
                     /\ DOMAIN f \subseteq Named(world, "CanonicalIdentityProposal")
                     /\ \A i \in DOMAIN f : AsksIdentity(world, f[i], i)
        BY <1>2, <2>1, IdentityAsked
      <3>2. PICK i \in Named(world, "CanonicalIdentityProposal") : AsksIdentity(world, c, i)
        BY <2>1, <3>1, OnePerKey
      <3>3. i \in OfKind(world, "CanonicalIdentityProposal")
        BY DEF Named
      <3>4. BodyAt(world, i).type = "proposal" /\ BodyAt(world, i).id = world.upstream[i].id
        BY <2>1, <3>3, TypedAt, Contracts
      <3>5. HypothesisOf(world, BodyAt(world, i)) = world.body[BodyAt(world, i).hypothesis]
        BY <3>2, HypothesisNamed DEF AsksIdentity
      <3>6. /\ c.artifact = world.upstream[i].id /\ c.content = BodyAt(world, i)
            /\ c.applicability[1] = HypothesisOf(world, BodyAt(world, i))
        BY <3>2, <3>4, IdentityParts
      <3> QED
        BY <3>4, <3>5, <3>6 DEF BodyAt
    <2>2. /\ c.content = before.body[c.artifact] /\ c.content.type = "proposal"
          /\ c.applicability[1] = before.body[c.content.hypothesis]
          /\ c.content = after.body[c.artifact]
          /\ c.applicability[1] = after.body[c.content.hypothesis]
      BY <2>1
    <2> QED
      BY <2>2 DEF Judged, Unreadable
  <1>3. CASE checkpoint = "REVIEW_ANALYTICAL_PLAN"
    <2>1. ASSUME NEW world, WorldPosed(world), c \in Contexts(world, checkpoint)
          PROVE  c.content = world.body[c.artifact] /\ c.content.type = "plan"
      <3>1. PICK i \in Named(world, "AnalyticalPlan") : c = PlanContext(BodyAt(world, i))
        BY <1>3, <2>1, PlanAsked
      <3>2. i \in OfKind(world, "AnalyticalPlan")
        BY DEF Named
      <3>3. BodyAt(world, i).type = "plan" /\ BodyAt(world, i).id = world.upstream[i].id
        BY <2>1, <3>2, TypedAt, Contracts
      <3> QED
        BY <3>1, <3>3, PlanParts DEF BodyAt
    <2>2. c.content = before.body[c.artifact] /\ c.content.type = "plan" /\ c.content = after.body[c.artifact]
      BY <2>1
    <2> QED
      BY <2>2 DEF Judged, Unreadable
  <1>4. CASE checkpoint = "REVIEW_MATERIALIZATION_PLAN"
    <2>1. ASSUME NEW world, WorldPosed(world), c \in Contexts(world, checkpoint)
          PROVE  /\ c.content[1] = world.body[c.artifact] /\ c.content[1].type = "compiled"
                 /\ c.content[2] = world.body[c.content[1].sql].statements
      <3>1. PICK i \in Named(world, "CompiledPlan"), k \in Named(world, "GeneratedSQL"), t \in OfKind(world, "TargetConfig") :
              AsksCompiled(world, c, i, k, t)
        BY <1>4, <2>1, CompiledAsked
      <3>2. i \in OfKind(world, "CompiledPlan")
        BY DEF Named
      <3>3. BodyAt(world, i).type = "compiled" /\ BodyAt(world, i).id = world.upstream[i].id
        BY <2>1, <3>2, TypedAt, Contracts
      <3>4. world.upstream[k].id = BodyAt(world, i).sql
        BY <3>1 DEF AsksCompiled, SqlMatches, BodyAt
      <3>5. /\ c.artifact = world.upstream[i].id
            /\ c.content = <<BodyAt(world, i), BodyAt(world, k).statements, BodyAt(world, t)>>
        BY <3>1, <3>3, CompiledParts
      <3> QED
        BY <3>3, <3>4, <3>5 DEF BodyAt
    <2>2. /\ c.content[1] = before.body[c.artifact] /\ c.content[1].type = "compiled"
          /\ c.content[2] = before.body[c.content[1].sql].statements
          /\ c.content[1] = after.body[c.artifact]
          /\ c.content[2] = after.body[c.content[1].sql].statements
      BY <2>1
    <2> QED
      BY <2>2 DEF Judged, Unreadable
  <1> QED
    BY <1>1, <1>2, <1>3, <1>4 DEF Checkpoints

-----------------------------------------------------------------------------
(* What an answer counts for.                                              *)

ReviewAnswers == {"ACCEPTED", "REJECTED", "SKIPPED", "INVALIDATED"}
KeysApart(asked) == \A c, d \in asked : SubjectKey(c) = SubjectKey(d) => c = d

LEMMA SaidParts ==
    ASSUME NEW c, NEW d \in ReviewAnswers
    PROVE  /\ Said(c, d).decision = d /\ Said(c, d).about = [f \in Bound |-> c[f]]
           /\ DecisionValid(Said(c, d))
           /\ d # "INVALIDATED" => CanDecide(c, d, Said(c, d).skip)
           /\ d = "ACCEPTED" => ~Said(c, d).reason
  <1>1. SkipAuthorization(c) # NoContext
    <2>1. "applicability" \in DOMAIN SkipAuthorization(c) /\ "applicability" \notin DOMAIN NoContext
      BY DEF SkipAuthorization, NoContext
    <2> QED
      BY <2>1
  <1>2. CASE d = "INVALIDATED"
    BY <1>2 DEF Said, Invalidated, Decision, DecisionValid
  <1>3. CASE d = "SKIPPED"
    BY <1>1, <1>3 DEF Said, Decision, DecisionValid, CanDecide
  <1>4. CASE d \in {"ACCEPTED", "REJECTED"}
    BY <1>4 DEF Said, Decision, DecisionValid, CanDecide
  <1> QED
    BY <1>2, <1>3, <1>4 DEF ReviewAnswers

LEMMA RecordedFor ==
    ASSUME NEW asked, KeysApart(asked), NEW said, NEW c \in asked
    PROVE  SubjectKey(c) \in DOMAIN Recorded(asked, said) /\ Recorded(asked, said)[SubjectKey(c)] = said[c]
  <1> DEFINE d == CHOOSE x \in asked : SubjectKey(x) = SubjectKey(c)
  <1>1. d \in asked /\ SubjectKey(d) = SubjectKey(c)
    OBVIOUS
  <1>2. d = c
    BY <1>1 DEF KeysApart
  <1>3. SubjectKey(c) \in DOMAIN Recorded(asked, said) /\ Recorded(asked, said)[SubjectKey(c)] = said[d]
    BY DEF Recorded
  <1> QED
    BY <1>2, <1>3

\* Only an acceptance of this very context, not doubted, satisfies it.
LEMMA SatisfiedBy ==
    ASSUME NEW asked, KeysApart(asked), \A x \in asked : IsContext(x), NEW decision \in ReviewAnswers, NEW doubtful,
           NEW c, IsContext(c), Satisfied(c, Recorded(asked, Answered(asked, decision, doubtful)))
    PROVE  c \in asked /\ decision = "ACCEPTED" /\ c.artifact \notin doubtful
  <1> DEFINE said == Answered(asked, decision, doubtful)
  <1>1. PICK d \in asked : SubjectKey(d) = SubjectKey(c)
    BY DEF Satisfied, Recorded
  <1>2. Recorded(asked, said)[SubjectKey(c)] = said[d]
    BY <1>1, RecordedFor
  <1> DEFINE e == IF d.artifact \in doubtful THEN "REJECTED" ELSE decision
  <1>3. e \in ReviewAnswers /\ said[d] = Said(d, e)
    BY DEF Answered, ReviewAnswers
  <1> HIDE DEF said
  <1>4. /\ Said(d, e).decision \in {"ACCEPTED", "SKIPPED"}
        /\ DecisionCompatible(Said(d, e), c)
    BY <1>2, <1>3 DEF Satisfied, said
  <1> HIDE DEF e
  <1>5. Said(d, e).decision = e /\ Said(d, e).about = [f \in Bound |-> d[f]]
    BY <1>3, SaidParts
  <1>6. \A f \in Bound : d[f] = c[f]
    BY <1>4, <1>5 DEF DecisionCompatible
  <1>7. c = d
    BY <1>6, SameContext
  <1>8. e = "ACCEPTED"
    <2>1. e = "SKIPPED" => c.skip # NoContext
      BY <1>4, <1>5 DEF DecisionCompatible
    <2> QED
      BY <1>4, <1>5, <2>1 DEF IsContext
  <1> QED
    BY <1>7, <1>8 DEF e

LEMMA AcceptedSatisfies ==
    ASSUME NEW asked, KeysApart(asked), \A x \in asked : IsContext(x), NEW c \in asked
    PROVE  Satisfied(c, Recorded(asked, Answered(asked, "ACCEPTED", {})))
  <1> DEFINE said == Answered(asked, "ACCEPTED", {})
  <1>1. said[c] = Said(c, "ACCEPTED")
    BY DEF Answered
  <1> HIDE DEF said
  <1>2. SubjectKey(c) \in DOMAIN Recorded(asked, said) /\ Recorded(asked, said)[SubjectKey(c)] = Said(c, "ACCEPTED")
    BY <1>1, RecordedFor
  <1>3. /\ Said(c, "ACCEPTED").decision = "ACCEPTED" /\ Said(c, "ACCEPTED").about = [f \in Bound |-> c[f]]
        /\ ~Said(c, "ACCEPTED").reason
    BY SaidParts DEF ReviewAnswers
  <1>4. DecisionCompatible(Said(c, "ACCEPTED"), c)
    BY <1>3 DEF DecisionCompatible
  <1> QED
    BY <1>2, <1>3, <1>4 DEF Satisfied, said

-----------------------------------------------------------------------------
(* What is asked about.                                                    *)

LEMMA VerifiedIntact ==
    ASSUME NEW world, NEW ref, ReadsVerified(world, ref)
    PROVE  Intact(world, ref.id)
  BY DEF ReadsVerified, Intact

LEMMA ReadAt ==
    ASSUME NEW world, NEW kind, NEW i \in OfKind(world, kind)
    PROVE  /\ i \in DOMAIN world.upstream /\ world.upstream[i] \in Range(world.upstream)
           /\ world.upstream[i].kind = kind /\ ReadsVerified(world, world.upstream[i]) /\ Intact(world, world.upstream[i].id)
  BY VerifiedIntact DEF OfKind, ReadsAs, Range

\* The entity-resolution result kept for a family is one of those referred to.
LEMMA KeptResult ==
    ASSUME NEW world, NEW p, IsList(p.erRefs), NEW family \in DOMAIN ErHashes(world, p)
    PROVE  \E id \in Range(p.erRefs) : ErHashes(world, p)[family] = world.body[id]
  <1> DEFINE bodies == [i \in DOMAIN p.erRefs |-> world.body[p.erRefs[i]]]
             I == {i \in DOMAIN bodies : bodies[i].family = family}
  <1>1. family \in {bodies[i].family : i \in DOMAIN bodies} /\ ErHashes(world, p)[family] = bodies[Max(I)]
    BY DEF ErHashes
  <1>2. I # {} /\ I \subseteq 1 .. Len(p.erRefs) /\ Len(p.erRefs) \in Nat /\ I \subseteq DOMAIN p.erRefs
    BY <1>1 DEF IsList
  <1> HIDE DEF I
  <1>3. Max(I) \in I
    <2> DEFINE n == Len(p.erRefs)
               T == {m \in Nat : m <= n /\ n - m \in I}
    <2>1. PICK i \in I : TRUE
      BY <1>2
    <2>2. i \in Nat /\ i <= n /\ n \in Nat
      BY <1>2
    <2>3. n - i \in Nat /\ n - i <= n /\ n - (n - i) = i
      BY <2>2
    <2>4. T \in SUBSET Nat /\ n - i \in T
      BY <2>3
    <2> HIDE DEF n
    <2>5. PICK m \in T : \A k \in T : m <= k
      <3>1. T # {}
        BY <2>4
      <3> HIDE DEF T
      <3> QED
        BY <2>4, <3>1, LeastNatural
    <2>6. n - m \in I /\ m \in Nat
      OBVIOUS
    <2>7. ASSUME NEW j \in I PROVE n - m >= j
      <3>1. j \in Nat /\ j <= n
        BY <1>2 DEF n
      <3>2. n - j \in Nat /\ n - j <= n /\ n - (n - j) = j
        BY <2>2, <3>1
      <3>3. m <= n - j
        BY <2>5, <3>2
      <3> QED
        BY <2>2, <2>6, <3>1, <3>3
    <2>8. \E x \in I : \A y \in I : x >= y
      BY <2>6, <2>7
    <2> QED
      BY <2>8 DEF Max
  <1>4. Max(I) \in DOMAIN p.erRefs
    BY <1>2, <1>3
  <1>5. bodies[Max(I)] = world.body[p.erRefs[Max(I)]] /\ p.erRefs[Max(I)] \in Range(p.erRefs)
    BY <1>4 DEF Range
  <1> QED
    BY <1>1, <1>5

\* The artifacts behind one question are intact.
BehindIntact(world, c) ==
    LET body == world.body[c.artifact] IN
    /\ Intact(world, c.artifact)
    /\ body.type = "proposal" =>
        /\ Intact(world, body.hypothesis)
        /\ \A family \in DOMAIN body.erHashes : \E id \in Range(body.erRefs) : Intact(world, id) /\ world.body[id] = body.erHashes[family]
    /\ body.type = "compiled" =>
        /\ Intact(world, body.sql) /\ world.body[body.sql].statements = body.sqlHash
        /\ \E ref \in Range(world.upstream) : Intact(world, ref.id) /\ world.body[ref.id] = body.target
\* No artifact under review goes unmentioned.
Mentioned(world, checkpoint) ==
    \A ref \in {r \in Range(world.upstream) : r.kind \in SubjectKinds(checkpoint)} :
        ref.id \in Derive(world, checkpoint).unresolved \cup {c.artifact : c \in Contexts(world, checkpoint)}

LEMMA UnreadMentioned ==
    ASSUME NEW world, NEW checkpoint \in Checkpoints
    PROVE  Unread(world) \subseteq Derive(world, checkpoint).unresolved
  <1>1. CASE checkpoint = "REVIEW_EVIDENCE_DECISIONS"
    BY <1>1 DEF Derive, EvidenceContexts
  <1>2. CASE checkpoint = "REVIEW_CANONICAL_IDENTITY"
    BY <1>2 DEF Derive, IdentityContexts, IdentityIn, IdentityFound
  <1>3. CASE checkpoint = "REVIEW_ANALYTICAL_PLAN"
    BY <1>3 DEF Derive
  <1>4. CASE checkpoint = "REVIEW_MATERIALIZATION_PLAN"
    BY <1>4 DEF Derive, MaterializationContexts, CompiledFound
  <1> QED
    BY <1>1, <1>2, <1>3, <1>4 DEF Checkpoints

LEMMA EvidenceSound ==
    ASSUME NEW world, WorldPosed(world), NEW checkpoint, checkpoint = "REVIEW_EVIDENCE_DECISIONS"
    PROVE  /\ \A c \in Contexts(world, checkpoint) : BehindIntact(world, c)
           /\ \A i \in Decisions(world) : \E c \in Contexts(world, checkpoint) : c.artifact = world.upstream[i].id
  <1> DEFINE f == [i \in Decisions(world) |-> EvidenceContext(world.upstream[i].id, BodyAt(world, i), AssertionCounts(world))]
  <1>1. /\ Contexts(world, checkpoint) = UniqueContexts(f) /\ DOMAIN f = Decisions(world) /\ DOMAIN f \subseteq Nat
        /\ DOMAIN f \subseteq 1 .. Len(world.upstream)
        /\ \A i \in Decisions(world) : AsksEvidence(world, f[i], i)
    BY EvidenceAsked
  <1>2. Len(world.upstream) \in Nat
    BY DEF WorldPosed, IsList
  <1> HIDE DEF f
  <1>3. ASSUME NEW c \in Contexts(world, checkpoint) PROVE BehindIntact(world, c)
    <2>1. PICK i \in Decisions(world) : AsksEvidence(world, c, i)
      BY <1>1, OnePerKey
    <2>2. BodyAt(world, i).type = "decision"
      BY TypedAt, Contracts DEF Decisions
    <2>3. Intact(world, world.upstream[i].id)
      BY ReadAt DEF Decisions
    <2>4. c.artifact = world.upstream[i].id
      BY <2>1, EvidenceParts
    <2> QED
      BY <2>2, <2>3, <2>4 DEF BehindIntact, BodyAt
  <1>4. ASSUME NEW i \in Decisions(world) PROVE \E c \in Contexts(world, checkpoint) : c.artifact = world.upstream[i].id
    <2>1. PICK c \in Contexts(world, checkpoint) : SubjectKey(c) = SubjectKey(f[i])
      BY <1>1, <1>2, LastIsKept
    <2>2. c.artifact = f[i].artifact
      BY <2>1 DEF SubjectKey
    <2>3. f[i].artifact = world.upstream[i].id
      BY <1>1, EvidenceParts
    <2> QED
      BY <2>2, <2>3
  <1> QED
    BY <1>3, <1>4

LEMMA IdentitySound ==
    ASSUME NEW world, WorldPosed(world), NEW checkpoint, checkpoint = "REVIEW_CANONICAL_IDENTITY"
    PROVE  /\ \A c \in Contexts(world, checkpoint) : BehindIntact(world, c)
           /\ \A i \in OfKind(world, "CanonicalIdentityProposal") :
                 world.upstream[i].id \in Derive(world, checkpoint).unresolved \cup {c.artifact : c \in Contexts(world, checkpoint)}
  <1> DEFINE P == OfKind(world, "CanonicalIdentityProposal")
  <1>1. PICK f : /\ Contexts(world, checkpoint) = UniqueContexts(f) /\ DOMAIN f \subseteq Nat
                 /\ DOMAIN f \subseteq 1 .. Len(world.upstream)
                 /\ DOMAIN f \subseteq Named(world, "CanonicalIdentityProposal")
                 /\ \A i \in DOMAIN f : AsksIdentity(world, f[i], i)
                 /\ Derive(world, checkpoint).unresolved =
                      Unread(world) \cup {world.upstream[i].id : i \in Named(world, "CanonicalIdentityProposal") \ DOMAIN f}
    BY IdentityAsked
  <1>2. Len(world.upstream) \in Nat
    BY DEF WorldPosed, IsList
  <1>3. \A i \in P : /\ BodyAt(world, i).type = "proposal" /\ BodyAt(world, i).id = world.upstream[i].id
                     /\ IsList(BodyAt(world, i).erRefs) /\ Intact(world, world.upstream[i].id)
    BY TypedAt, Contracts, ReadAt
  <1>4. Named(world, "CanonicalIdentityProposal") = P
    BY <1>3 DEF Named
  <1> HIDE DEF P
  <1>5. ASSUME NEW c \in Contexts(world, checkpoint) PROVE BehindIntact(world, c)
    <2>1. PICK i \in P : AsksIdentity(world, c, i)
      BY <1>1, <1>4, OnePerKey
    <2> DEFINE p == BodyAt(world, i)
    <2>2. p.type = "proposal" /\ IsList(p.erRefs) /\ Intact(world, world.upstream[i].id)
      BY <1>3
    <2>3. c.artifact = world.upstream[i].id /\ world.body[c.artifact] = p
      BY <1>3, <2>1, IdentityParts DEF BodyAt
    <2>4. /\ HypothesisOf(world, p) # Unreadable /\ Range(p.erRefs) \subseteq Results(world)
          /\ IdentityBound(HypothesisOf(world, p), p, ErHashes(world, p))
      BY <2>1 DEF AsksIdentity
    <2> HIDE DEF p
    <2>5. Intact(world, p.hypothesis)
      BY <2>4, HypothesisNamed
    <2>6. \A id \in Range(p.erRefs) : Intact(world, id)
      BY <2>4, ReadAt DEF Results
    <2>7. ASSUME NEW family \in DOMAIN p.erHashes
          PROVE  \E id \in Range(p.erRefs) : Intact(world, id) /\ world.body[id] = p.erHashes[family]
      <3>1. family \in DOMAIN ErHashes(world, p) /\ ErHashes(world, p)[family] = p.erHashes[family]
        BY <2>4 DEF IdentityBound
      <3>2. PICK id \in Range(p.erRefs) : ErHashes(world, p)[family] = world.body[id]
        BY <2>2, <3>1, KeptResult
      <3> QED
        BY <2>6, <3>1, <3>2
    <2> QED
      BY <2>2, <2>3, <2>5, <2>7 DEF BehindIntact
  <1>6. ASSUME NEW i \in P, world.upstream[i].id \notin Derive(world, checkpoint).unresolved
        PROVE  \E c \in Contexts(world, checkpoint) : c.artifact = world.upstream[i].id
    <2>1. i \in DOMAIN f
      BY <1>1, <1>4, <1>6
    <2>2. PICK c \in Contexts(world, checkpoint) : SubjectKey(c) = SubjectKey(f[i])
      BY <1>1, <1>2, <2>1, LastIsKept
    <2>3. c.artifact = f[i].artifact
      BY <2>2 DEF SubjectKey
    <2>4. f[i].artifact = world.upstream[i].id
      BY <1>1, <1>3, <2>1, IdentityParts
    <2> QED
      BY <2>3, <2>4
  <1> QED
    BY <1>5, <1>6 DEF P

LEMMA PlanSound ==
    ASSUME NEW world, WorldPosed(world), NEW checkpoint, checkpoint = "REVIEW_ANALYTICAL_PLAN"
    PROVE  /\ \A c \in Contexts(world, checkpoint) : BehindIntact(world, c)
           /\ \A i \in OfKind(world, "AnalyticalPlan") : \E c \in Contexts(world, checkpoint) : c.artifact = world.upstream[i].id
  <1> DEFINE P == OfKind(world, "AnalyticalPlan")
  <1>1. \A i \in P : /\ BodyAt(world, i).type = "plan" /\ BodyAt(world, i).id = world.upstream[i].id
                     /\ Intact(world, world.upstream[i].id)
    BY TypedAt, Contracts, ReadAt
  <1>2. Named(world, "AnalyticalPlan") = P
    BY <1>1 DEF Named
  <1> HIDE DEF P
  <1>3. ASSUME NEW c \in Contexts(world, checkpoint) PROVE BehindIntact(world, c)
    <2>1. PICK i \in P : c = PlanContext(BodyAt(world, i))
      BY <1>2, PlanAsked
    <2>2. c.artifact = world.upstream[i].id
      BY <1>1, <2>1, PlanParts
    <2> QED
      BY <1>1, <2>2 DEF BehindIntact, BodyAt
  <1>4. ASSUME NEW i \in P PROVE \E c \in Contexts(world, checkpoint) : c.artifact = world.upstream[i].id
    <2>1. PlanContext(BodyAt(world, i)) \in Contexts(world, checkpoint)
      BY <1>2, PlanAsked
    <2>2. PlanContext(BodyAt(world, i)).artifact = world.upstream[i].id
      BY <1>1, PlanParts
    <2> QED
      BY <2>1, <2>2
  <1> QED
    BY <1>3, <1>4 DEF P

LEMMA CompiledSound ==
    ASSUME NEW world, WorldPosed(world), NEW checkpoint, checkpoint = "REVIEW_MATERIALIZATION_PLAN"
    PROVE  /\ \A c \in Contexts(world, checkpoint) : BehindIntact(world, c)
           /\ \A i \in OfKind(world, "CompiledPlan") :
                 world.upstream[i].id \in Derive(world, checkpoint).unresolved \cup {c.artifact : c \in Contexts(world, checkpoint)}
  <1> DEFINE P == OfKind(world, "CompiledPlan")
             found == [i \in Named(world, "CompiledPlan") |-> CompiledContexts(world, i)]
  <1>1. \A i \in P : /\ BodyAt(world, i).type = "compiled" /\ BodyAt(world, i).id = world.upstream[i].id
                     /\ Intact(world, world.upstream[i].id)
    BY TypedAt, Contracts, ReadAt
  <1>2. Named(world, "CompiledPlan") = P
    BY <1>1 DEF Named
  <1> HIDE DEF P
  <1>3. ASSUME NEW c \in Contexts(world, checkpoint) PROVE BehindIntact(world, c)
    <2>1. PICK i \in P, k \in Named(world, "GeneratedSQL"), t \in OfKind(world, "TargetConfig") : AsksCompiled(world, c, i, k, t)
      BY <1>2, CompiledAsked
    <2>2. /\ c.artifact = world.upstream[i].id /\ world.body[c.artifact] = BodyAt(world, i)
      BY <1>1, <2>1, CompiledParts DEF BodyAt
    <2>3. /\ world.upstream[k].id = BodyAt(world, i).sql
          /\ BodyAt(world, i).sqlHash = world.body[BodyAt(world, i).sql].statements
          /\ BodyAt(world, i).target = world.body[world.upstream[t].id]
      BY <2>1 DEF AsksCompiled, SqlMatches, TargetMatches, SqlHash, BodyAt
    <2>4. /\ Intact(world, world.upstream[k].id) /\ Intact(world, world.upstream[t].id)
          /\ world.upstream[t] \in Range(world.upstream)
      BY ReadAt DEF Named
    <2> QED
      BY <1>1, <2>2, <2>3, <2>4 DEF BehindIntact
  <1>4. Derive(world, checkpoint) = CompiledFound(world, found)
    BY DEF Derive, MaterializationContexts
  <1>5. ASSUME NEW i \in P, world.upstream[i].id \notin Derive(world, checkpoint).unresolved
        PROVE  \E c \in Contexts(world, checkpoint) : c.artifact = world.upstream[i].id
    <2>1. i \in DOMAIN found /\ found[i] = CompiledContexts(world, i)
      BY <1>2
    <2>2. found[i] # {}
      BY <1>4, <1>5, <2>1 DEF CompiledFound
    <2>3. PICK c : c \in CompiledContexts(world, i)
      BY <2>1, <2>2
    <2>4. PICK k \in Named(world, "GeneratedSQL"), t \in OfKind(world, "TargetConfig") : AsksCompiled(world, c, i, k, t)
      BY <2>3 DEF CompiledContexts, AsksCompiled
    <2>5. c \in Contexts(world, checkpoint)
      BY <1>2, <2>4, CompiledAsked
    <2> QED
      BY <1>1, <2>4, <2>5, CompiledParts
  <1> QED
    BY <1>3, <1>5 DEF P

\* Every question of a checkpoint is about an intact, published artifact of its
\* run, one question to a key; the hypothesis and the entity-resolution results
\* behind a proposal, and the statements and the target behind a compiled plan,
\* are intact and the ones it was made from; and no artifact under review goes
\* unmentioned (ReviewCheckpointSubjectResolver.derive).
THEOREM SubjectsSound ==
    ASSUME NEW world, WorldPosed(world), NEW checkpoint \in Checkpoints
    PROVE  SubjectsIntact(world, checkpoint)
  <1>1. \A c \in Contexts(world, checkpoint) : BehindIntact(world, c)
    BY EvidenceSound, IdentitySound, PlanSound, CompiledSound DEF Checkpoints
  <1>2. ASSUME NEW i \in DOMAIN world.upstream, world.upstream[i].kind \in SubjectKinds(checkpoint)
        PROVE  world.upstream[i].id \in Derive(world, checkpoint).unresolved \cup {c.artifact : c \in Contexts(world, checkpoint)}
    <2>1. CASE ~ReadsVerified(world, world.upstream[i])
      <3>1. world.upstream[i].id \in Unread(world)
        BY <2>1 DEF Unread, Range
      <3> QED
        BY <3>1, UnreadMentioned
    <2>2. CASE ReadsVerified(world, world.upstream[i])
      <3>1. i \in OfKind(world, world.upstream[i].kind)
        BY <2>2 DEF OfKind, ReadsAs
      <3>2. CASE checkpoint = "REVIEW_EVIDENCE_DECISIONS"
        <4>1. i \in Decisions(world)
          BY <1>2, <3>1, <3>2 DEF Decisions, SubjectKinds
        <4> QED
          BY <3>2, <4>1, EvidenceSound
      <3>3. CASE checkpoint = "REVIEW_CANONICAL_IDENTITY"
        BY <1>2, <3>1, <3>3, IdentitySound DEF SubjectKinds
      <3>4. CASE checkpoint = "REVIEW_ANALYTICAL_PLAN"
        <4>1. i \in OfKind(world, "AnalyticalPlan")
          BY <1>2, <3>1, <3>4 DEF SubjectKinds
        <4> QED
          BY <3>4, <4>1, PlanSound
      <3>5. CASE checkpoint = "REVIEW_MATERIALIZATION_PLAN"
        BY <1>2, <3>1, <3>5, CompiledSound DEF SubjectKinds
      <3> QED
        BY <3>2, <3>3, <3>4, <3>5 DEF Checkpoints
    <2> QED
      BY <2>1, <2>2
  <1>3. Mentioned(world, checkpoint)
    BY <1>2 DEF Mentioned, Range
  <1>4. \A c \in Contexts(world, checkpoint) :
           /\ c.checkpoint = checkpoint
           /\ \A other \in Contexts(world, checkpoint) : SubjectKey(other) = SubjectKey(c) => other = c
    BY AskedShape, KeysDiffer
  <1> QED
    BY <1>1, <1>3, <1>4 DEF SubjectsIntact, DerivedIntact, BehindIntact, Mentioned, Contexts

\* Whatever happened to the artifacts between the question and the answer, a
\* checkpoint passes only on contexts that were asked, accepted and neither
\* doubted, withdrawn nor skipped, and it does pass on an acceptance of
\* everything that was asked while nothing has changed; and while any subject
\* can still be derived, it passes only on artifacts that stand and read as the
\* reviewer judged them.  The last part needs its hypothesis: where nothing can
\* be derived any more the waiting job's own context is taken as it was
\* (ReviewCheckpointSubjectResolver.derive, JobWorker._review_stage_result).
THEOREM ReviewsBind ==
    ASSUME NEW before, WorldPosed(before), NEW after, WorldPosed(after), NEW checkpoint \in Checkpoints,
           NEW decision \in ReviewAnswers, NEW doubtful
    PROVE  /\ ReviewEarned(before, after, checkpoint, decision, doubtful)
           /\ Contexts(after, checkpoint) # {} => ReviewCurrent(before, after, checkpoint, decision, doubtful)
  <1> DEFINE A == Contexts(before, checkpoint)
             B == Contexts(after, checkpoint)
             said == Answered(A, decision, doubtful)
             carried == CarriedOf(A)
             reviews == Recorded(A, said)
             asked == CheckpointResult(before, checkpoint, NoContext, <<>>)
             answer == AnswerTo(before, after, checkpoint, decision, doubtful)
             X == OrCarried(B, checkpoint, carried)
  <1>1. NoContext.checkpoint # checkpoint
    BY DEF NoContext, Checkpoints
  <1>2. asked.status # "SUCCEEDED"
    <2>1. asked = CheckpointOf(A, <<>>)
      BY <1>1 DEF CheckpointResult, OrCarried, Contexts
    <2>2. \A c \in A : ~Satisfied(c, <<>>)
      BY DEF Satisfied
    <2>3. asked.status = IF A = {} THEN "BLOCKED" ELSE IF \A c \in A : Satisfied(c, <<>>) THEN "SUCCEEDED" ELSE "NEEDS_REVIEW"
      BY <2>1 DEF CheckpointOf
    <2> QED
      BY <2>2, <2>3
  <1>3. \A c \in A \cup B : IsContext(c) /\ c.checkpoint = checkpoint
    BY AskedShape
  <1>4. KeysApart(A)
    BY KeysDiffer DEF KeysApart
  <1>5. carried \in A \/ carried = NoContext
    <2>1. A = {} => Cardinality(A) = 0
      BY FS_EmptySet
    <2> QED
      BY <2>1 DEF CarriedOf
  <1>6. \A c \in A : DecisionValid(said[c]) /\ (said[c].decision # "INVALIDATED" => CanDecide(c, said[c].decision, said[c].skip))
    <2> SUFFICES ASSUME NEW c \in A
                 PROVE  DecisionValid(said[c]) /\ (said[c].decision # "INVALIDATED" => CanDecide(c, said[c].decision, said[c].skip))
      OBVIOUS
    <2> DEFINE e == IF c.artifact \in doubtful THEN "REJECTED" ELSE decision
    <2>1. said[c] = Said(c, e) /\ e \in ReviewAnswers
      BY DEF Answered, ReviewAnswers
    <2> HIDE DEF e, said, A
    <2>2. Said(c, e).decision = e /\ DecisionValid(Said(c, e)) /\ (e # "INVALIDATED" => CanDecide(c, e, Said(c, e).skip))
      BY <2>1, SaidParts
    <2> QED
      BY <2>1, <2>2
  <1>7. answer = CheckpointOf(X, reviews)
    BY DEF AnswerTo, CheckpointResult, Contexts
  <1> HIDE DEF asked, carried, answer
  <1>8. X = B \/ (B = {} /\ X = {carried} /\ carried.checkpoint = checkpoint)
    BY DEF OrCarried
  <1>9. ASSUME answer.status = "SUCCEEDED"
        PROVE  /\ answer.contexts = X /\ decision = "ACCEPTED"
               /\ \A c \in X : c \in A /\ c.artifact \notin doubtful
    <2>1. answer.contexts = X /\ X # {} /\ \A c \in X : Satisfied(c, reviews)
      BY <1>7, <1>9 DEF CheckpointOf
    <2>2. \A c \in X : IsContext(c)
      BY <1>1, <1>3, <1>5, <1>8
    <2> HIDE DEF X, A, B
    <2>3. \A c \in X : c \in A /\ decision = "ACCEPTED" /\ c.artifact \notin doubtful
      BY <1>3, <1>4, <2>1, <2>2, SatisfiedBy
    <2> QED
      BY <2>1, <2>3
  <1>10. ASSUME before = after, A # {}, decision = "ACCEPTED", doubtful = {}
         PROVE  answer.status = "SUCCEEDED"
    <2>1. X = A
      BY <1>10 DEF OrCarried
    <2>2. \A c \in A : Satisfied(c, reviews)
      BY <1>3, <1>4, <1>10, AcceptedSatisfies
    <2> QED
      BY <1>7, <1>10, <2>1, <2>2 DEF CheckpointOf
  <1>11. ReviewEarned(before, after, checkpoint, decision, doubtful)
    <2> HIDE DEF X, A, said
    <2>1. AnswerEarned(before, after, A, decision, doubtful, answer)
      BY <1>9, <1>10 DEF AnswerEarned
    <2> QED
      BY <1>2, <1>6, <2>1 DEF ReviewEarned, A, said, asked, answer
  <1>12. ASSUME B # {}, answer.status = "SUCCEEDED", NEW c \in answer.contexts
         PROVE  ReadsAsJudged(before, after, c.artifact)
    <2>1. c \in A /\ c \in B
      BY <1>8, <1>9, <1>12
    <2>2. Judged(before, c.artifact) = Judged(after, c.artifact) /\ after.body[c.artifact] # Unreadable
      BY <2>1, SameJudged
    <2>3. Intact(after, c.artifact)
      BY <2>1, SubjectsSound DEF SubjectsIntact, DerivedIntact, Contexts
    <2> QED
      BY <2>2, <2>3 DEF ReadsAsJudged
  <1>13. B # {} => ReviewCurrent(before, after, checkpoint, decision, doubtful)
    BY <1>12 DEF ReviewCurrent, AnswerCurrent, answer
  <1> QED
    BY <1>11, <1>13

-----------------------------------------------------------------------------
(* Views of a graph.                                                       *)

\* The refs and the edges the filters of a request leave.
RefsLeft(g, q) == {n.ref : n \in FilteredNodes(g, q)}
StepsTo(g, q, a, b) ==
    \E e \in FilteredEdges(g, q) :
        \/ q.dir # "UPSTREAM" /\ e.from = a /\ e.to = b
        \/ q.dir # "DOWNSTREAM" /\ e.to = a /\ e.from = b
IsWalk(g, q, w, k, n) ==
    /\ w \in [1 .. k + 1 -> RefsLeft(g, q)] /\ w[1] = q.focus /\ w[k + 1] = n
    /\ \A i \in 1 .. k : StepsTo(g, q, w[i], w[i + 1])

\* The refs reached after one more hop, and all the layers of a search.
Spread(g, q, X) == X \cup (RefsLeft(g, q) \cap UNION {Neighbours(FilteredEdges(g, q), q.dir, n) : n \in X})
IsLayers(f, g, q) == f = [k \in 0 .. q.maxHops |-> IF k = 0 THEN {q.focus} ELSE Spread(g, q, f[k - 1])]

LEMMA LayersExist ==
    ASSUME NEW g, NEW q, q.maxHops \in Nat, q.focus \in RefsLeft(g, q)
    PROVE  \E f : IsLayers(f, g, q)
  <1> DEFINE N == q.maxHops
             R == RefsLeft(g, q)
             V == SUBSET R
             grow == [X \in V |-> Spread(g, q, X)]
             next == [k \in 1 .. N |-> grow]
  <1>1. \A X \in V : Spread(g, q, X) \in V
    BY DEF Spread
  <1>2. grow \in [V -> V] /\ \A X \in V : grow[X] = Spread(g, q, X)
    BY <1>1
  <1> HIDE DEF grow
  <1>3. next \in [1 .. N -> [V -> V]] /\ \A k \in 1 .. N : next[k] = grow
    BY <1>2
  <1>4. N \in Nat /\ {q.focus} \in V
    OBVIOUS
  <1> HIDE DEF next, V, N
  <1>5. PICK f : IsBuilt(f, V, {q.focus}, next, N)
    BY <1>3, <1>4, BuildExists
  <1>6. f \in [0 .. N -> V] /\ f[0] = {q.focus} /\ \A k \in 1 .. N : f[k] = next[k][f[k - 1]]
    BY <1>5 DEF IsBuilt
  <1>7. \A k \in 0 .. N : k # 0 => k \in 1 .. N /\ k - 1 \in 0 .. N
    BY <1>4
  <1>8. \A k \in 0 .. N : f[k] = IF k = 0 THEN {q.focus} ELSE Spread(g, q, f[k - 1])
    BY <1>2, <1>3, <1>6, <1>7
  <1>9. f = [k \in 0 .. N |-> f[k]]
    BY <1>6
  <1>10. IsLayers(f, g, q)
    BY <1>8, <1>9 DEF IsLayers, N
  <1> QED
    BY <1>10

LEMMA NeighboursStep ==
    ASSUME NEW g, NEW q, q.dir \in {"UPSTREAM", "DOWNSTREAM", "BOTH"}, NEW a, NEW b
    PROVE  b \in Neighbours(FilteredEdges(g, q), q.dir, a) <=> StepsTo(g, q, a, b)
  <1> DEFINE E == FilteredEdges(g, q)
             down == {e.to : e \in {x \in E : x.from = a}}
             up == {e.from : e \in {x \in E : x.to = a}}
  <1>1. Neighbours(E, q.dir, a) = (IF q.dir \in {"DOWNSTREAM", "BOTH"} THEN down ELSE {}) \cup (IF q.dir \in {"UPSTREAM", "BOTH"} THEN up ELSE {})
    BY DEF Neighbours
  <1>2. b \in down <=> \E e \in E : e.from = a /\ e.to = b
    OBVIOUS
  <1>3. b \in up <=> \E e \in E : e.to = a /\ e.from = b
    OBVIOUS
  <1>4. StepsTo(g, q, a, b) <=> (q.dir # "UPSTREAM" /\ \E e \in E : e.from = a /\ e.to = b) \/ (q.dir # "DOWNSTREAM" /\ \E e \in E : e.to = a /\ e.from = b)
    BY DEF StepsTo
  <1> HIDE DEF E, down, up
  <1> QED
    BY <1>1, <1>2, <1>3, <1>4 DEF E

LEMMA InSpread ==
    ASSUME NEW g, NEW q, q.dir \in {"UPSTREAM", "DOWNSTREAM", "BOTH"}, NEW X, NEW b
    PROVE  b \in Spread(g, q, X) <=> (b \in X \/ (b \in RefsLeft(g, q) /\ \E a \in X : StepsTo(g, q, a, b)))
  <1>1. b \in (UNION {Neighbours(FilteredEdges(g, q), q.dir, n) : n \in X}) <=> \E a \in X : b \in Neighbours(FilteredEdges(g, q), q.dir, a)
    OBVIOUS
  <1>2. b \in (UNION {Neighbours(FilteredEdges(g, q), q.dir, n) : n \in X}) <=> \E a \in X : StepsTo(g, q, a, b)
    BY <1>1, NeighboursStep
  <1> QED
    BY <1>2 DEF Spread

\* One more step makes a longer walk.
LEMMA WalkOn ==
    ASSUME NEW g, NEW q, NEW k \in Nat, NEW w, NEW a, IsWalk(g, q, w, k, a), NEW b \in RefsLeft(g, q), StepsTo(g, q, a, b)
    PROVE  \E v : IsWalk(g, q, v, k + 1, b)
  <1> DEFINE R == RefsLeft(g, q)
             v == [i \in 1 .. k + 2 |-> IF i = k + 2 THEN b ELSE w[i]]
  <1>1. w \in [1 .. k + 1 -> R] /\ w[1] = q.focus /\ w[k + 1] = a /\ \A i \in 1 .. k : StepsTo(g, q, w[i], w[i + 1])
    BY DEF IsWalk
  <1>2. \A i \in 1 .. k + 2 : i # k + 2 => i \in 1 .. k + 1
    OBVIOUS
  <1>3. v \in [1 .. k + 2 -> R]
    BY <1>1, <1>2
  <1>4. (\A i \in 1 .. k + 1 : v[i] = w[i]) /\ v[k + 2] = b /\ v[1] = w[1]
    OBVIOUS
  <1> HIDE DEF v
  <1>5. ASSUME NEW i \in 1 .. k + 1 PROVE StepsTo(g, q, v[i], v[i + 1])
    <2>1. CASE i = k + 1
      <3>1. v[i] = a /\ v[i + 1] = b
        BY <1>1, <1>4, <2>1
      <3> QED
        BY <3>1
    <2>2. CASE i # k + 1
      <3>1. i \in 1 .. k /\ i + 1 \in 1 .. k + 1
        BY <2>2
      <3>2. v[i] = w[i] /\ v[i + 1] = w[i + 1]
        BY <1>4, <3>1
      <3> QED
        BY <1>1, <3>1, <3>2
    <2> QED
      BY <2>1, <2>2
  <1>6. (k + 1) + 1 = k + 2
    OBVIOUS
  <1>7. IsWalk(g, q, v, k + 1, b)
    BY <1>1, <1>3, <1>4, <1>5, <1>6 DEF IsWalk
  <1> QED
    BY <1>7

\* _bounded_refs finds what a walk of at most max_hops steps reaches.
LEMMA SearchIsWalk ==
    ASSUME NEW g, NEW q, q.maxHops \in Nat, q.focus \in RefsLeft(g, q), q.dir \in {"UPSTREAM", "DOWNSTREAM", "BOTH"}, NEW n
    PROVE  n \in BoundedRefs(q.focus, RefsLeft(g, q), FilteredEdges(g, q), q.maxHops, q.dir)
              <=> \E k \in 0 .. q.maxHops : \E w : IsWalk(g, q, w, k, n)
  <1> DEFINE N == q.maxHops
             R == RefsLeft(g, q)
             f == CHOOSE h : IsLayers(h, g, q)
  <1>1. BoundedRefs(q.focus, R, FilteredEdges(g, q), N, q.dir) = f[N]
    BY DEF BoundedRefs, IsLayers, Spread
  <1>2. IsLayers(f, g, q)
    BY LayersExist, Zenon
  <1> HIDE DEF f
  <1>3. \A k \in 0 .. N : f[k] = IF k = 0 THEN {q.focus} ELSE Spread(g, q, f[k - 1])
    BY <1>2 DEF IsLayers
  <1>4. \A k \in 0 .. N : k # 0 => k \in 1 .. N /\ k - 1 \in 0 .. N
    OBVIOUS
  \* Everything in a layer is at the end of a walk.
  <1>5. ASSUME NEW m \in 0 .. N, NEW x \in f[m] PROVE \E k \in 0 .. m : \E w : IsWalk(g, q, w, k, x)
    <2> DEFINE Far(j) == \E y \in f[j] : ~\E k \in 0 .. j : \E w : IsWalk(g, q, w, k, y)
               T == {j \in 0 .. N : Far(j)}
    <2>1. SUFFICES ASSUME T # {} PROVE FALSE
      <3>1. CASE T = {}
        <4>1. ~Far(m)
          BY <3>1
        <4> QED
          BY <4>1
      <3> QED
        BY <2>1, <3>1
    <2>2. PICK j \in T : \A i \in T : j <= i
      <3>1. T \in SUBSET Nat
        OBVIOUS
      <3> HIDE DEF T
      <3> QED
        BY <2>1, <3>1, LeastNatural
    <2>3. PICK y \in f[j] : ~\E k \in 0 .. j : \E w : IsWalk(g, q, w, k, y)
      OBVIOUS
    <2>4. j \in 0 .. N
      OBVIOUS
    <2>5. CASE j = 0
      <3>1. y = q.focus
        BY <1>3, <2>4, <2>5
      <3> DEFINE w == [i \in 1 .. 1 |-> q.focus]
      <3>2. w \in [1 .. 0 + 1 -> R] /\ w[1] = q.focus /\ w[0 + 1] = q.focus
        OBVIOUS
      <3> HIDE DEF w
      <3>3. IsWalk(g, q, w, 0, y)
        BY <3>1, <3>2 DEF IsWalk
      <3> QED
        BY <2>3, <2>4, <3>3
    <2>6. CASE j # 0
      <3>1. j - 1 \in 0 .. N /\ ~Far(j - 1)
        <4>1. j - 1 \in 0 .. N
          BY <1>4, <2>4, <2>6
        <4>2. j - 1 \notin T
          BY <2>2, <2>4
        <4> QED
          BY <4>1, <4>2
      <3>2. y \in Spread(g, q, f[j - 1])
        BY <1>3, <2>4, <2>6
      <3>3. CASE y \in f[j - 1]
        <4>1. PICK k \in 0 .. j - 1 : \E w : IsWalk(g, q, w, k, y)
          BY <3>1, <3>3
        <4>2. k \in 0 .. j
          BY <2>4
        <4> QED
          BY <2>3, <4>1, <4>2
      <3>4. CASE y \notin f[j - 1]
        <4>1. PICK a \in f[j - 1] : StepsTo(g, q, a, y) /\ y \in R
          BY <3>2, <3>4, InSpread
        <4>2. PICK k \in 0 .. j - 1 : \E w : IsWalk(g, q, w, k, a)
          BY <3>1, <4>1
        <4>3. PICK w : IsWalk(g, q, w, k, a)
          BY <4>2
        <4>4. k \in Nat /\ k + 1 \in 0 .. j
          BY <2>4
        <4>5. \E v : IsWalk(g, q, v, k + 1, y)
          BY <4>1, <4>3, <4>4, WalkOn
        <4> QED
          BY <2>3, <4>4, <4>5
      <3> QED
        BY <3>3, <3>4
    <2> QED
      BY <2>5, <2>6
  \* A layer holds the ones before it.
  <1>6. \A k \in 0 .. N : k # 0 => f[k - 1] \subseteq f[k]
    BY <1>3 DEF Spread
  \* Every place of a walk is in the layer of its distance, and in the last.
  <1>7. ASSUME NEW k \in 0 .. N, NEW w, IsWalk(g, q, w, k, n) PROVE n \in f[N]
    <2> DEFINE At(i) == IF i <= k THEN w[i + 1] ELSE n
               T == {i \in 0 .. N : At(i) \notin f[i]}
    <2>1. w \in [1 .. k + 1 -> R] /\ w[1] = q.focus /\ w[k + 1] = n /\ \A i \in 1 .. k : StepsTo(g, q, w[i], w[i + 1])
      BY <1>7 DEF IsWalk
    <2>2. ASSUME T # {} PROVE FALSE
      <3>1. PICK i \in T : \A j \in T : i <= j
        <4>1. T \in SUBSET Nat
          OBVIOUS
        <4> HIDE DEF T
        <4> QED
          BY <2>2, <4>1, LeastNatural
      <3>2. i \in 0 .. N /\ At(i) \notin f[i]
        OBVIOUS
      <3>3. CASE i = 0
        <4>1. At(i) = q.focus
          BY <2>1, <3>3
        <4> QED
          BY <1>3, <3>2, <3>3, <4>1
      <3>4. CASE i # 0
        <4>1. i \in 1 .. N /\ i - 1 \in 0 .. N
          BY <1>4, <3>2, <3>4
        <4>2. At(i - 1) \in f[i - 1]
          <5>1. i - 1 \notin T
            BY <3>1, <4>1
          <5> QED
            BY <4>1, <5>1
        <4>3. CASE i <= k
          <5>1. i \in 1 .. k /\ i + 1 \in 1 .. k + 1 /\ (i - 1) + 1 = i
            BY <4>1, <4>3
          <5>2. At(i - 1) = w[i] /\ At(i) = w[i + 1]
            BY <4>1, <4>3, <5>1
          <5>3. w[i] \in f[i - 1] /\ StepsTo(g, q, w[i], w[i + 1]) /\ w[i + 1] \in R
            BY <2>1, <4>2, <5>1, <5>2
          <5>4. w[i + 1] \in Spread(g, q, f[i - 1])
            BY <5>3, InSpread
          <5> QED
            BY <1>3, <3>2, <3>4, <5>2, <5>4
        <4>4. CASE ~(i <= k)
          <5>1. At(i) = n
            BY <4>4
          <5>2. At(i - 1) = n
            BY <2>1, <4>1, <4>4
          <5> QED
            BY <1>6, <3>2, <3>4, <4>2, <5>1, <5>2
        <4> QED
          BY <4>3, <4>4
      <3> QED
        BY <3>3, <3>4
    <2>3. N \in 0 .. N /\ At(N) \in f[N]
      BY <2>2
    <2>4. At(N) = n
      BY <2>1
    <2> QED
      BY <2>3, <2>4
  <1>8. N \in 0 .. N
    OBVIOUS
  <1> QED
    BY <1>1, <1>5, <1>7, <1>8

\* The first n refs: all of them, if there are fewer than n.
LEMMA FirstOfRefs ==
    ASSUME NEW n \in Nat, NEW S, IsFiniteSet(S), S \subseteq Nat
    PROVE  /\ FirstRefs(n, S) \subseteq S
           /\ Cardinality(FirstRefs(n, S)) < n => FirstRefs(n, S) = S
  <1> DEFINE F == FirstRefs(n, S)
             T == S \ F
  <1>1. F \subseteq S
    BY DEF FirstRefs
  <1>2. ASSUME Cardinality(F) < n, T # {} PROVE FALSE
    <2>1. T \in SUBSET Nat
      OBVIOUS
    <2> HIDE DEF T
    <2>2. PICK r \in T : \A x \in T : r <= x
      BY <1>2, <2>1, LeastNatural
    <2> DEFINE B == {x \in S : x < r}
    <2>3. B \subseteq F
      <3>1. ASSUME NEW x \in B, x \notin F PROVE FALSE
        <4>1. x \in T /\ x \in Nat /\ r \in Nat /\ x < r
          BY <2>1, <3>1 DEF T
        <4> QED
          BY <2>2, <4>1
      <3> QED
        BY <3>1
    <2>4. r \in S /\ r \notin F
      BY DEF T
    <2>5. ~(Cardinality(B) < n)
      BY <2>4 DEF FirstRefs
    <2>6. IsFiniteSet(F) /\ IsFiniteSet(B)
      BY <1>1, FS_Subset
    <2> HIDE DEF F, B
    <2>7. Cardinality(B) <= Cardinality(F) /\ Cardinality(B) \in Nat /\ Cardinality(F) \in Nat
      BY <2>3, <2>6, FS_Subset, FS_CardinalityType
    <2> QED
      BY <1>2, <2>5, <2>7
  <1> QED
    BY <1>1, <1>2

LEMMA NodeBound ==
    ASSUME NEW q, q.maxNodes \in Nat \ {0}, NEW refs, IsFiniteSet(refs), refs \subseteq Nat
    PROVE  /\ WithinNodes(q, refs) \subseteq refs
           /\ q.focus \in refs => q.focus \in WithinNodes(q, refs)
           /\ q.focus \in refs /\ Cardinality(WithinNodes(q, refs)) < q.maxNodes => WithinNodes(q, refs) = refs
  <1>1. CASE q.focus \notin refs
    BY <1>1, FirstOfRefs DEF WithinNodes
  <1>2. CASE q.focus \in refs
    <2> DEFINE S == refs \ {q.focus}
               m == q.maxNodes - 1
               F == FirstRefs(m, S)
    <2>1. m \in Nat /\ IsFiniteSet(S) /\ S \subseteq Nat
      <3>1. S \subseteq refs /\ m \in Nat
        OBVIOUS
      <3> HIDE DEF S, m
      <3> QED
        BY <3>1, FS_Subset
    <2> HIDE DEF S, m
    <2>2. F \subseteq S /\ (Cardinality(F) < m => F = S)
      BY <2>1, FirstOfRefs
    <2>3. IsFiniteSet(F)
      BY <2>1, <2>2, FS_Subset
    <2>4. WithinNodes(q, refs) = F \cup {q.focus} /\ q.focus \notin F
      BY <1>2, <2>2 DEF WithinNodes, S, m
    <2> HIDE DEF F
    <2>5. Cardinality(F \cup {q.focus}) = Cardinality(F) + 1 /\ Cardinality(F) \in Nat
      BY <2>3, <2>4, FS_AddElement, FS_CardinalityType
    <2>6. Cardinality(WithinNodes(q, refs)) < q.maxNodes => F = S
      BY <2>2, <2>4, <2>5 DEF m
    <2> QED
      BY <1>2, <2>2, <2>4, <2>6 DEF S
  <1> QED
    BY <1>1, <1>2

\* The refs a view is about are, with a focus, the ones walks reach.
LEMMA SelectedAbout ==
    ASSUME NEW g, NEW q, ViewPosed(g, q), ~GraphRefused(g, q), NEW about,
           about = {n.ref : n \in {x \in FilteredNodes(g, q) : Focused(q) => WalkTo(g, q, x.ref)}}
    PROVE  /\ SelectedRefs(g, q) \subseteq about
           /\ Focused(q) => SelectedRefs(g, q) = about /\ q.focus \in about
           /\ about \subseteq {n.ref : n \in g.nodes}
  <1> DEFINE R == RefsLeft(g, q)
  <1>1. about \subseteq {n.ref : n \in g.nodes}
    BY DEF FilteredNodes
  <1>2. CASE ~Focused(q)
    <2>1. about = R
      BY <1>2 DEF RefsLeft
    <2>2. SelectedRefs(g, q) \subseteq R
      BY <1>2 DEF SelectedRefs, Overview, RefsLeft
    <2> QED
      BY <1>1, <1>2, <2>1, <2>2
  <1>3. CASE Focused(q)
    <2>1. q.focus \in R
      BY <1>3 DEF GraphRefused, RefsLeft
    <2>2. SelectedRefs(g, q) = BoundedRefs(q.focus, R, FilteredEdges(g, q), q.maxHops, q.dir)
      BY <1>3 DEF SelectedRefs, RefsLeft
    <2>3. q.maxHops \in Nat /\ q.dir \in {"UPSTREAM", "DOWNSTREAM", "BOTH"}
      BY DEF ViewPosed
    <2>4. \A n : n \in SelectedRefs(g, q) <=> \E k \in 0 .. q.maxHops : \E w : IsWalk(g, q, w, k, n)
      BY <2>1, <2>2, <2>3, SearchIsWalk
    <2>5. \A n : WalkTo(g, q, n) <=> \E k \in 0 .. q.maxHops : \E w : IsWalk(g, q, w, k, n)
      BY DEF WalkTo, IsWalk, StepsTo, RefsLeft
    <2>6. \A k \in 0 .. q.maxHops : \A w, n : IsWalk(g, q, w, k, n) => n \in R
      <3> SUFFICES ASSUME NEW k \in 0 .. q.maxHops, NEW w, NEW n, IsWalk(g, q, w, k, n) PROVE n \in R
        OBVIOUS
      <3>1. k + 1 \in 1 .. k + 1
        BY <2>3
      <3>2. w \in [1 .. k + 1 -> R] /\ w[k + 1] = n
        BY DEF IsWalk
      <3> HIDE DEF R
      <3> QED
        BY <3>1, <3>2
    <2>7. \A n : n \in about <=> n \in R /\ WalkTo(g, q, n)
      BY <1>3 DEF RefsLeft
    <2>8. \A n : n \in SelectedRefs(g, q) <=> n \in about
      BY <2>4, <2>5, <2>6, <2>7
    <2>9. q.focus \in SelectedRefs(g, q)
      <3> DEFINE w == [i \in 1 .. 1 |-> q.focus]
      <3>1. w \in [1 .. 0 + 1 -> R] /\ w[1] = q.focus /\ w[0 + 1] = q.focus
        BY <2>1
      <3> HIDE DEF w
      <3>2. IsWalk(g, q, w, 0, q.focus)
        BY <3>1 DEF IsWalk
      <3>3. 0 \in 0 .. q.maxHops
        BY <2>3
      <3> QED
        BY <2>4, <3>2, <3>3
    <2> QED
      BY <1>1, <2>8, <2>9
  <1> QED
    BY <1>2, <1>3

\* The refs of a graph that is not refused are as many as its nodes.
LEMMA RefsOfNodes ==
    ASSUME NEW g, NEW q, ViewPosed(g, q), ~GraphRefused(g, q)
    PROVE  /\ IsFiniteSet({n.ref : n \in g.nodes})
           /\ Cardinality({n.ref : n \in g.nodes}) = Cardinality(g.nodes)
           /\ Cardinality(g.nodes) \in Nat /\ Cardinality(g.edges) \in Nat
  <1> DEFINE R == {n.ref : n \in g.nodes}
             f == [n \in g.nodes |-> n.ref]
  <1>1. IsFiniteSet(g.nodes) /\ IsFiniteSet(g.edges)
    BY DEF ViewPosed
  <1>2. f \in Surjection(g.nodes, R)
    <2>1. f \in [g.nodes -> R] /\ \A r \in R : \E n \in g.nodes : f[n] = r
      OBVIOUS
    <2> QED
      BY <2>1 DEF Surjection
  <1> HIDE DEF f
  <1>3. IsFiniteSet(R)
    BY <1>1, <1>2, FS_Surjection
  <1>4. Cardinality(R) = Cardinality(g.nodes)
    BY DEF GraphRefused
  <1> QED
    BY <1>1, <1>3, <1>4, FS_CardinalityType

\* A graph view of any size shows, of what the filters leave, only nodes a
\* walk of at most max_hops steps from the focus reaches, and all of them
\* unless it is full; it keeps its focus, shows no edge without its ends, says
\* so whenever it leaves anything of the graph out, and lists the neighbours of
\* a row both ways (VisualizationService.build_graph, _bounded_refs).
THEOREM GraphViewsTrue ==
    ASSUME NEW g, NEW q, ViewPosed(g, q)
    PROVE  GraphViewTrue(g, q)
  <1> DEFINE about == {n.ref : n \in {x \in FilteredNodes(g, q) : Focused(q) => WalkTo(g, q, x.ref)}}
             all == {n.ref : n \in g.nodes}
             S == SelectedRefs(g, q)
             N == WithinNodes(q, S)
             inside == {e \in FilteredEdges(g, q) : e.from \in N /\ e.to \in N}
             E == WithinEdges(q, inside)
             v == GraphView(g, q)
  <1> SUFFICES ASSUME ~GraphRefused(g, q) PROVE ViewTrue(g, q, v, about)
    BY DEF GraphViewTrue
  <1>1. S \subseteq about /\ (Focused(q) => S = about /\ q.focus \in about) /\ about \subseteq all
    BY SelectedAbout
  <1>2. IsFiniteSet(all) /\ Cardinality(all) = Cardinality(g.nodes) /\ Cardinality(g.nodes) \in Nat /\ Cardinality(g.edges) \in Nat
    BY RefsOfNodes
  <1>3. all \subseteq Nat /\ IsFiniteSet(g.edges) /\ q.maxNodes \in Nat \ {0}
    BY DEF ViewPosed
  <1>4. v = Disclosed(g, N, E)
    BY DEF GraphView, ViewOf
  <1>5. E \subseteq inside /\ inside \subseteq g.edges /\ \A e \in inside : e.from \in N /\ e.to \in N
    BY DEF WithinEdges, FilteredEdges
  <1> HIDE DEF about, all, S, inside
  <1>6. IsFiniteSet(S) /\ S \subseteq Nat
    BY <1>1, <1>2, <1>3, FS_Subset
  <1>7. /\ N \subseteq S /\ (q.focus \in S => q.focus \in N)
        /\ q.focus \in S /\ Cardinality(N) < q.maxNodes => N = S
    BY <1>3, <1>6, NodeBound
  <1> HIDE DEF N, E
  <1>8. IsFiniteSet(N) /\ IsFiniteSet(E) /\ Cardinality(N) \in Nat /\ Cardinality(E) \in Nat
    BY <1>3, <1>5, <1>6, <1>7, FS_Subset, FS_CardinalityType
  <1>9. /\ v.nodes = N /\ v.edges = E
        /\ v.truncated = (Cardinality(g.nodes) > Cardinality(N) \/ Cardinality(g.edges) > Cardinality(E))
    BY <1>4 DEF Disclosed
  <1> DEFINE Beside(n) == {m \in N : \E e \in E : {e.from, e.to} = {n, m}}
  <1>10. v.rows = [n \in N |-> Beside(n)]
    BY <1>4 DEF Disclosed
  <1>11. \A n, m \in N : m \in Beside(n) => n \in Beside(m)
    OBVIOUS
  <1>12. \A n \in N : Beside(n) \subseteq N
    OBVIOUS
  <1> HIDE DEF Beside
  <1> HIDE DEF v
  <1>13. ASSUME ~v.truncated PROVE N = all /\ E = g.edges
    <2>1. ~(Cardinality(g.nodes) > Cardinality(N)) /\ ~(Cardinality(g.edges) > Cardinality(E))
      BY <1>9, <1>13
    <2>2. N \subseteq all /\ E \subseteq g.edges
      BY <1>1, <1>5, <1>7
    <2>3. Cardinality(N) <= Cardinality(all) /\ (Cardinality(all) = Cardinality(N) => all = N)
      BY <1>2, <2>2, FS_Subset
    <2>4. Cardinality(E) <= Cardinality(g.edges) /\ (Cardinality(g.edges) = Cardinality(E) => g.edges = E)
      BY <1>3, <2>2, FS_Subset
    <2> QED
      BY <1>2, <1>8, <2>1, <2>3, <2>4
  <1>14. ASSUME NEW n \in N, NEW m \in v.rows[n] PROVE n \in v.rows[m]
    <2>1. m \in Beside(n)
      BY <1>14, <1>10
    <2>2. m \in N /\ n \in Beside(m)
      BY <1>11, <1>12, <2>1
    <2> QED
      BY <1>10, <2>2
  <1>15. \A e \in E : {e.from, e.to} \subseteq N
    BY <1>5
  <1> QED
    BY <1>1, <1>7, <1>9, <1>13, <1>14, <1>15 DEF ViewTrue, all
=============================================================================
