--------------------------- MODULE ReviewSubjects ---------------------------
(***************************************************************************)
(* What a review checkpoint asks a reviewer about (review_subjects.py), the  *)
(* context each review is bound to (review_policy.py), and the answer of the *)
(* checkpoint's stage (JobWorker._review_stage_result).  A hash is the value  *)
(* it is taken of.                                                          *)
(*   ref   : [id, kind, run, stage, attempt, state], what the control store    *)
(*           and the artifact store know of an artifact                      *)
(*   world : [run, upstream (refs as the stage read them), registered,        *)
(*           stored (id |-> ref), bytes (id |-> integrity), body              *)
(*           (id |-> the contract in the bytes)]                              *)
(***************************************************************************)
EXTENDS Integers, Sequences, FiniteSets, SequencesExt, FiniteSetsExt

NoContext == [checkpoint |-> "none"]
Unreadable == [type |-> "unreadable"]

-----------------------------------------------------------------------------
(* Contexts and decisions                                                   *)

\* ReviewCompatibilityContext; no builder ever sets its skip authorization
Context(checkpoint, stage, artifact, content, version, fingerprints, policy, domains, semantic, applicability) ==
    [checkpoint |-> checkpoint, stage |-> stage, artifact |-> artifact, content |-> content, version |-> version,
     fingerprints |-> fingerprints, policy |-> policy, domains |-> domains, semantic |-> semantic,
     applicability |-> applicability, skip |-> NoContext]
SubjectKey(c) == <<c.checkpoint, c.artifact, c.content, c.semantic, c.applicability>>

\* ReviewSkipAuthorization
SkipAuthorization(c) == [checkpoint |-> c.checkpoint, applicability |-> c.applicability]
Bound == {"checkpoint", "stage", "artifact", "content", "version", "fingerprints", "policy", "domains", "semantic", "applicability"}
\* ReviewDecision with its validator
DecisionValid(d) ==
    /\ d.decision = "INVALIDATED" => d.reason
    /\ d.decision = "SKIPPED" => d.skip # NoContext
\* ReviewPolicyService.create_decision
CanDecide(c, decision, skip) ==
    IF decision = "SKIPPED" THEN skip = SkipAuthorization(c) ELSE skip = NoContext
Decision(c, decision, skip) == [about |-> [f \in Bound |-> c[f]], decision |-> decision, skip |-> skip, reason |-> FALSE]
Invalidated(d) == [d EXCEPT !.decision = "INVALIDATED", !.reason = TRUE]
\* ReviewDecision.compatibility_errors is empty
DecisionCompatible(d, c) ==
    /\ \A f \in Bound : d.about[f] = c[f]
    /\ d.decision \in {"ACCEPTED", "SKIPPED"} /\ ~d.reason
    /\ d.decision = "SKIPPED" => c.skip # NoContext /\ d.skip = c.skip

-----------------------------------------------------------------------------
(* Builders of contexts                                                     *)

\* evidence_context of a relationship or a mapping
EvidenceContext(id, d, domains) ==
    Context("REVIEW_EVIDENCE_DECISIONS", "EVIDENCE_FUSION", id, d, d.policy, [input |-> d.input, scope |-> d.scope], d.policy,
            domains, d.subject, <<d.id, d, d.input, d.scope>>)

\* analytical_plan_context
PlanContext(p) ==
    Context("REVIEW_ANALYTICAL_PLAN", "ANALYTICAL_PLANNING", p.id, p, p.version, [model |-> p.model, specs |-> p.specs, source |-> p.source],
            p.policy, p.domains, <<p.model, p.specs>>, <<p.id, p, p.model, p.binding, p.policy, p.specs>>)

\* sql_hash covers the statements, not the records put in quarantine
SqlHash(sql) == sql.statements
\* materialization_context
MaterializationContext(compiled, sql, target) ==
    Context("REVIEW_MATERIALIZATION_PLAN", "COMPILATION", compiled.id, <<compiled, SqlHash(sql), target>>, compiled.compiler,
            [plan |-> compiled.planHash, compiled |-> compiled, sql |-> SqlHash(sql), target |-> target], "v1", compiled.domains,
            <<compiled.plan, compiled.id, target.engine>>, <<compiled, SqlHash(sql), target>>)

\* identity_context raises for a stale hypothesis or ER result
IdentityBound(hypothesis, p, erHashes) ==
    /\ p.hypothesis = hypothesis.id
    /\ \A family \in DOMAIN p.erHashes : family \in DOMAIN erHashes /\ erHashes[family] = p.erHashes[family]
IdentityContext(hypothesis, p, erHashes) ==
    Context("REVIEW_CANONICAL_IDENTITY", "CANONICAL_IDENTITY_PROPOSAL", p.id, p, hypothesis.version, <<p.source, erHashes>>, "v1",
            p.domains, p.types, <<hypothesis, p, p.source, erHashes>>)

-----------------------------------------------------------------------------
(* Derivation of the subjects                                               *)

\* Mutant: what the stage read is trusted without a look at the bytes
ReadsRegistered(world, ref) ==
    ref.id \in DOMAIN world.registered /\ world.registered[ref.id] = ref /\ ref.run = world.run /\ world.body[ref.id] # Unreadable
\* _read_verified does not raise
ReadsVerified(world, ref) ==
    /\ ref.id \in DOMAIN world.registered /\ world.registered[ref.id] = ref
    /\ ref.run = world.run /\ ref.state = "PUBLISHED"
    /\ world.stored[ref.id] = ref /\ world.bytes[ref.id] = "VERIFIED"
    /\ world.body[ref.id] # Unreadable
ReadsAs(world, ref, kind) == ref.kind = kind /\ ReadsVerified(world, ref)
BodyAt(world, i) == world.body[world.upstream[i].id]
\* The positions of the artifacts of a kind that can be read, in the order of the stage
OfKind(world, kind) == {i \in DOMAIN world.upstream : ReadsAs(world, world.upstream[i], kind)}
Named(world, kind) == {i \in OfKind(world, kind) : BodyAt(world, i).id = world.upstream[i].id}
Unread(world) == {ref.id : ref \in {r \in Range(world.upstream) : ~ReadsVerified(world, r)}}

\* _unique_contexts: the last context of each key
UniqueContexts(contexts) ==
    {contexts[i] : i \in {i \in DOMAIN contexts :
        \A j \in DOMAIN contexts : j > i => SubjectKey(contexts[j]) # SubjectKey(contexts[i])}}

\* _evidence_contexts: how often each assertion is named, not what it says
AssertionCounts(world) ==
    [a \in {BodyAt(world, i).id : i \in OfKind(world, "DomainAssertion")} |->
        Cardinality({i \in OfKind(world, "DomainAssertion") : BodyAt(world, i).id = a})]
EvidenceIn(world, decisions, domains) ==
    UniqueContexts([i \in decisions |-> EvidenceContext(world.upstream[i].id, BodyAt(world, i), domains)])
EvidenceContexts(world) ==
    [contexts |-> EvidenceIn(world, OfKind(world, "RelationshipDecision") \cup OfKind(world, "SemanticMappingDecision"), AssertionCounts(world)),
     unresolved |-> Unread(world) \cup UNION {BodyAt(world, i).decisions : i \in OfKind(world, "EvidenceFusionResult")}]

\* The hypothesis a proposal names, among the inputs or looked up by its id
HypothesisOf(world, p) ==
    LET ref == world.registered[p.hypothesis]
    IN IF \E i \in Named(world, "CanonicalModelHypothesis") : world.upstream[i].id = p.hypothesis THEN world.body[p.hypothesis]
       ELSE IF /\ p.hypothesis \in DOMAIN world.registered /\ ReadsAs(world, ref, "CanonicalModelHypothesis")
               /\ world.body[ref.id].id = ref.id THEN world.body[ref.id]
       ELSE Unreadable
\* Every ER result a proposal refers to, by family; the last of a family stays
ErHashes(world, p) ==
    LET bodies == [i \in DOMAIN p.erRefs |-> world.body[p.erRefs[i]]]
        last(family) == Max({i \in DOMAIN bodies : bodies[i].family = family})
    IN [family \in {bodies[i].family : i \in DOMAIN bodies} |-> bodies[last(family)]]
\* _identity_contexts
IdentityOf(hypothesis, p, results, hashes) ==
    IF /\ hypothesis # Unreadable
       /\ Range(p.erRefs) \subseteq results
       /\ IdentityBound(hypothesis, p, hashes)
    THEN IdentityContext(hypothesis, p, hashes) ELSE NoContext
IdentityFound(world, contexts) ==
    LET bound == {i \in DOMAIN contexts : contexts[i] # NoContext}
    IN [contexts |-> UniqueContexts([i \in bound |-> contexts[i]]),
        unresolved |-> Unread(world) \cup {world.upstream[i].id : i \in DOMAIN contexts \ bound}]
IdentityIn(world, proposals, results) ==
    IdentityFound(world,
        [i \in proposals |-> IdentityOf(HypothesisOf(world, BodyAt(world, i)), BodyAt(world, i), results, ErHashes(world, BodyAt(world, i)))])
IdentityContexts(world) ==
    IdentityIn(world, Named(world, "CanonicalIdentityProposal"),
               {world.upstream[i].id : i \in OfKind(world, "EntityResolutionResult")})

\* The statements a compiled plan was generated with, by the same attempt
SqlMatches(world, ref, sqlRef) ==
    LET compiled == world.body[ref.id]  sql == world.body[sqlRef.id]
    IN /\ sqlRef.id = compiled.sql
       /\ ref.run = sqlRef.run /\ ref.stage = "COMPILATION" /\ sqlRef.stage = "COMPILATION" /\ ref.attempt = sqlRef.attempt
       /\ compiled.sqlHash = SqlHash(sql) /\ compiled.plan = sql.plan /\ compiled.planHash = sql.planHash
TargetMatches(world, ref, targetRef) ==
    /\ targetRef.run = ref.run /\ targetRef.stage = "COMPILATION" /\ targetRef.attempt = ref.attempt
    /\ world.body[ref.id].target = world.body[targetRef.id]
\* _materialization_contexts
CompiledContexts(world, i) ==
    {MaterializationContext(BodyAt(world, i), BodyAt(world, k), BodyAt(world, t)) :
        k \in {k \in Named(world, "GeneratedSQL") : SqlMatches(world, world.upstream[i], world.upstream[k])},
        t \in {t \in OfKind(world, "TargetConfig") : TargetMatches(world, world.upstream[i], world.upstream[t])}}
CompiledFound(world, found) ==
    [contexts |-> UNION {found[i] : i \in DOMAIN found},
     unresolved |-> Unread(world) \cup {world.upstream[i].id : i \in {k \in DOMAIN found : found[k] = {}}}]
MaterializationContexts(world) ==
    CompiledFound(world, [i \in Named(world, "CompiledPlan") |-> CompiledContexts(world, i)])

\* ReviewCheckpointSubjectResolver.derive
Derive(world, checkpoint) ==
    CASE checkpoint = "REVIEW_EVIDENCE_DECISIONS" -> EvidenceContexts(world)
      [] checkpoint = "REVIEW_CANONICAL_IDENTITY" -> IdentityContexts(world)
      [] checkpoint = "REVIEW_MATERIALIZATION_PLAN" -> MaterializationContexts(world)
      [] checkpoint = "REVIEW_ANALYTICAL_PLAN" ->
            [contexts |-> {PlanContext(BodyAt(world, i)) : i \in Named(world, "AnalyticalPlan")}, unresolved |-> Unread(world)]

-----------------------------------------------------------------------------
(* The checkpoint                                                           *)

\* JobWorker._review_stage_result.  A job that waited for one review carries
\* its context; reviews : subject key |-> current decision.
Satisfied(c, reviews) ==
    /\ SubjectKey(c) \in DOMAIN reviews
    /\ reviews[SubjectKey(c)].decision \in {"ACCEPTED", "SKIPPED"}
    /\ DecisionCompatible(reviews[SubjectKey(c)], c)
CheckpointOf(contexts, reviews) ==
    [contexts |-> contexts,
     status |-> IF contexts = {} THEN "BLOCKED" ELSE IF \A c \in contexts : Satisfied(c, reviews) THEN "SUCCEEDED" ELSE "NEEDS_REVIEW"]
OrCarried(derived, checkpoint, carried) ==
    IF derived = {} /\ carried.checkpoint = checkpoint THEN {carried} ELSE derived
CheckpointResult(world, checkpoint, carried, reviews) ==
    CheckpointOf(OrCarried(Derive(world, checkpoint).contexts, checkpoint, carried), reviews)

-----------------------------------------------------------------------------
(* What a review is worth                                                   *)

\* The bodies a reviewer was asked to judge for one artifact
Judged(world, id) ==
    LET body == world.body[id]
        assertions == OfKind(world, "DomainAssertion")
        named(a) == {i \in assertions : BodyAt(world, i).id = a}
    IN CASE body.type = "decision" -> <<body, {<<BodyAt(world, i).id, Cardinality(named(BodyAt(world, i).id))>> : i \in assertions}>>
         [] body.type = "proposal" -> <<body, world.body[body.hypothesis]>>
         [] body.type = "plan" -> <<body>>
         [] body.type = "compiled" -> <<body, world.body[body.sql].statements, body.target>>
Intact(world, id) ==
    /\ id \in DOMAIN world.registered /\ world.registered[id].run = world.run
    /\ world.registered[id].state = "PUBLISHED" /\ world.stored[id] = world.registered[id]
    /\ world.bytes[id] = "VERIFIED"
SubjectKinds(checkpoint) ==
    CASE checkpoint = "REVIEW_EVIDENCE_DECISIONS" -> {"RelationshipDecision", "SemanticMappingDecision"}
      [] checkpoint = "REVIEW_CANONICAL_IDENTITY" -> {"CanonicalIdentityProposal"}
      [] checkpoint = "REVIEW_ANALYTICAL_PLAN" -> {"AnalyticalPlan"}
      [] checkpoint = "REVIEW_MATERIALIZATION_PLAN" -> {"CompiledPlan"}
\* Every subject is an intact artifact of the run and has one context for each
\* target; a proposal's ER results are the ones it was made from; and no
\* artifact under review goes unmentioned.
DerivedIntact(world, checkpoint, derived) ==
    /\ \A ref \in {r \in Range(world.upstream) : r.kind \in SubjectKinds(checkpoint)} :
        ref.id \in derived.unresolved \cup {c.artifact : c \in derived.contexts}
    /\ \A c \in derived.contexts :
        LET body == world.body[c.artifact] IN
        /\ Intact(world, c.artifact) /\ c.checkpoint = checkpoint
        /\ \A other \in derived.contexts : SubjectKey(other) = SubjectKey(c) => other = c
        /\ body.type = "proposal" =>
            /\ Intact(world, body.hypothesis)
            /\ \A family \in DOMAIN body.erHashes : \E id \in Range(body.erRefs) : Intact(world, id) /\ world.body[id] = body.erHashes[family]
        /\ body.type = "compiled" =>
            /\ Intact(world, body.sql) /\ world.body[body.sql].statements = body.sqlHash
            /\ \E ref \in Range(world.upstream) : Intact(world, ref.id) /\ world.body[ref.id] = body.target
SubjectsIntact(world, checkpoint) == DerivedIntact(world, checkpoint, Derive(world, checkpoint))
\* What the artifacts can be: a published artifact that can be read holds a
\* contract of its kind (_read_verified), under the contract's own id.
Checkpoints == {"REVIEW_EVIDENCE_DECISIONS", "REVIEW_CANONICAL_IDENTITY", "REVIEW_ANALYTICAL_PLAN", "REVIEW_MATERIALIZATION_PLAN"}
ContractOf ==
    [RelationshipDecision |-> "decision", SemanticMappingDecision |-> "decision", CanonicalIdentityProposal |-> "proposal",
     AnalyticalPlan |-> "plan", CompiledPlan |-> "compiled"]
IsList(s) == Len(s) \in Nat /\ DOMAIN s = 1 .. Len(s)
WorldPosed(world) ==
    /\ IsList(world.upstream)
    /\ \A i \in DOMAIN world.upstream :
        ReadsVerified(world, world.upstream[i]) /\ world.upstream[i].kind \in DOMAIN ContractOf =>
            LET body == BodyAt(world, i)
            IN /\ body.type = ContractOf[world.upstream[i].kind] /\ body.id = world.upstream[i].id
               /\ body.type = "proposal" => IsList(body.erRefs)
\* What a reviewer says of each context he is asked about, how it is recorded,
\* and the answer of the checkpoint when its job runs again; a job that waited
\* for a single context carries it.
Said(c, decision) ==
    IF decision = "INVALIDATED" THEN Invalidated(Decision(c, "ACCEPTED", NoContext))
    ELSE Decision(c, decision, IF decision = "SKIPPED" THEN SkipAuthorization(c) ELSE NoContext)
Answered(asked, decision, doubtful) ==
    [c \in asked |-> Said(c, IF c.artifact \in doubtful THEN "REJECTED" ELSE decision)]
Recorded(asked, said) ==
    [key \in {SubjectKey(c) : c \in asked} |-> said[CHOOSE c \in asked : SubjectKey(c) = key]]
CarriedOf(asked) == IF Cardinality(asked) = 1 THEN CHOOSE c \in asked : TRUE ELSE NoContext
Contexts(world, checkpoint) == Derive(world, checkpoint).contexts
AnswerTo(before, after, checkpoint, decision, doubtful) ==
    CheckpointResult(after, checkpoint, CarriedOf(Contexts(before, checkpoint)),
        Recorded(Contexts(before, checkpoint), Answered(Contexts(before, checkpoint), decision, doubtful)))

\* The artifact still stands and reads as it did when the reviewer judged it.
ReadsAsJudged(before, after, id) ==
    Intact(after, id) /\ after.body[id] # Unreadable /\ Judged(after, id) = Judged(before, id)
\* A passed checkpoint rests only on artifacts that read as they were judged.
AnswerCurrent(before, after, answer) ==
    answer.status = "SUCCEEDED" => \A c \in answer.contexts : ReadsAsJudged(before, after, c.artifact)
\* Nothing passes unasked; what passes was accepted when it was asked and not
\* doubted, withdrawn or skipped; and an acceptance of everything that was
\* asked does pass while nothing has changed.
AnswerEarned(before, after, asked, decision, doubtful, answer) ==
    /\ answer.status = "SUCCEEDED" =>
        /\ decision = "ACCEPTED"
        /\ \A c \in answer.contexts : c \in asked /\ c.artifact \notin doubtful
    /\ (before = after /\ asked # {} /\ decision = "ACCEPTED" /\ doubtful = {}) => answer.status = "SUCCEEDED"
ReviewEarned(before, after, checkpoint, decision, doubtful) ==
    LET asked == Contexts(before, checkpoint)
        said == Answered(asked, decision, doubtful)
    IN /\ CheckpointResult(before, checkpoint, NoContext, <<>>).status # "SUCCEEDED"
       /\ \A c \in asked : DecisionValid(said[c]) /\ (said[c].decision # "INVALIDATED" => CanDecide(c, said[c].decision, said[c].skip))
       /\ AnswerEarned(before, after, asked, decision, doubtful, AnswerTo(before, after, checkpoint, decision, doubtful))
ReviewCurrent(before, after, checkpoint, decision, doubtful) ==
    AnswerCurrent(before, after, AnswerTo(before, after, checkpoint, decision, doubtful))
=============================================================================
