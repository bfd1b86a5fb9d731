-------------------------- MODULE CanonicalIdentity --------------------------
(***************************************************************************)
(* Which source records are one canonical entity (application/canonical.py): *)
(* the reviewed hypothesis, the identity proposal, its finalization, and    *)
(* survivorship among the values of one entity.                              *)
(*                                                                          *)
(*   hypothesis h: [kind, family, required, spec, relationships, reviews]   *)
(*      per entity type its kind and family, per family whether entity      *)
(*      resolution is required and the specification it must answer         *)
(*   membership m: [type, family, refs, basis, edges];  edge: [ends, band]  *)
(*   ER result: [spec, complete, edges, clusters, reviewEdges]              *)
(* An equal result is an equal content hash.                                *)
(***************************************************************************)
EXTENDS Naturals, FiniteSets, Sequences, SequencesExt

NoResult == [complete |-> FALSE]

\* ReviewDecision.compatibility_errors is empty: the accepted decision is about
\* this very subject.
Compatible(review, checkpoint, subject) ==
    /\ review.checkpoint = checkpoint
    /\ review.subject = subject
    /\ review.decision = "ACCEPTED"

\* CanonicalHypothesisService.build: every relationship cites a decision of the
\* run and an evidence review that accepts that decision.
HypothesisBuilds(reviews, decisions, relationships, required, specs) ==
    /\ reviews # {}
    /\ \A r \in reviews : r.checkpoint = "EVIDENCE" /\ r.decision = "ACCEPTED"
    /\ \A l \in relationships :
         /\ l.decision \in decisions
         /\ l.review \in reviews
         /\ Compatible(l.review, "EVIDENCE", l.decision)
    /\ \A family \in required : family \in DOMAIN specs

\* _result_population
Population(result) ==
    (UNION {e.ends : e \in result.edges}) \cup (UNION result.clusters)

\* _validate_er_result_compatibility
ErCompatible(h, result, family) ==
    /\ family \in DOMAIN h.specs
    /\ result.complete
    /\ result.spec = h.specs[family]

\* The breadth-first walk over the authorised edges.
Near(edges, S) == UNION {e.ends : e \in {x \in edges : x.ends \cap S # {}}}
Walk(refs, edges) ==
    LET visited[n \in 0 .. Cardinality(refs)] ==
            IF n = 0 THEN {CHOOSE r \in refs : TRUE}
            ELSE visited[n - 1] \cup Near(edges, visited[n - 1])
    IN visited[Cardinality(refs)]

\* validate_er_membership
ErMembership(h, m, result, family) ==
    LET bands == {"STRONG"} \cup IF result.reviewEdges THEN {"REVIEW"} ELSE {}
    IN /\ ErCompatible(h, result, family)
       /\ m.edges \subseteq result.edges
       /\ \A e \in m.edges : e.band \in bands
       /\ UNION {e.ends : e \in m.edges} = m.refs
       /\ m.refs # {}
       /\ Walk(m.refs, m.edges) = m.refs
       /\ m.refs \subseteq Population(result)

RequiredFamilies(h) == {f \in DOMAIN h.required : h.required[f]}

\* The family a membership is judged by: the one it names itself, else the one
\* of its type.
NoFamily == ""
FamilyOf(h, m) == IF m.family = NoFamily THEN h.family[m.type] ELSE m.family

\* A family the hypothesis says nothing of is not required.
Requires(h, family) == family \in DOMAIN h.required /\ h.required[family]

MembershipAllowed(h, m, results) ==
    LET family == FamilyOf(h, m)
    IN IF m.basis = "ER"
       THEN Requires(h, family) /\ ErMembership(h, m, results[family], family)
       ELSE IF Requires(h, family)
       THEN m.basis = "HUMAN" /\ m.refs \subseteq Population(results[family])
       ELSE h.kind[m.type] = "EVENT" => m.basis = "SOURCE_LOCAL"

\* CanonicalIdentityProposalService.build
ProposalBuilds(h, memberships, results) ==
    /\ \A f \in RequiredFamilies(h) : ErCompatible(h, results[f], f)
    /\ \A i \in DOMAIN memberships : memberships[i].type \in DOMAIN h.family
    /\ \A i, j \in DOMAIN memberships :
         i # j => memberships[i].refs \cap memberships[j].refs = {}
    /\ \A i \in DOMAIN memberships : MembershipAllowed(h, memberships[i], results)
    /\ memberships # <<>>
    /\ RequiredFamilies(h) \subseteq {FamilyOf(h, memberships[i]) : i \in DOMAIN memberships}

Proposal(h, memberships, results) ==
    [hypothesis |-> h, memberships |-> memberships,
     er |-> [f \in RequiredFamilies(h) |-> results[f]]]

\* canonical_entity_id is a digest of the members.
EntityOf(m) == m.refs
Disposition(h, m) ==
    IF h.kind[m.type] = "EVENT" \/ Cardinality(m.refs) = 1 THEN "EMITTED_DIRECT" ELSE "CONSOLIDATED"

\* In finalization a membership of a required family that claims no ER edges
\* need only stay inside the evaluated population.
StillAllowed(h, m, results) ==
    LET family == FamilyOf(h, m)
    IN IF m.basis = "ER" THEN Requires(h, family) /\ ErMembership(h, m, results[family], family)
       ELSE Requires(h, family) => m.refs \subseteq Population(results[family])

\* Mutant: the results at hand are not held against the reviewed ones.
FinalizeAllowedStale(h, p, review, results, metadata) ==
    /\ p.hypothesis = h
    /\ Compatible(review, "IDENTITY", <<p, review.subject[2]>>)
    /\ \A i \in DOMAIN p.memberships : p.memberships[i].refs \subseteq DOMAIN metadata

\* CanonicalFinalizationService.finalize, identity_context included: the
\* results supplied now must be the ones the proposal was built on, and the
\* review must be about both.  metadata: record -> its snapshot.
FinalizeAllowed(h, p, review, results, metadata) ==
    /\ \A f \in RequiredFamilies(h) : ErCompatible(h, results[f], f)
    /\ p.hypothesis = h
    /\ \A f \in DOMAIN p.er : results[f] = p.er[f]
    /\ Compatible(review, "IDENTITY", <<p, results>>)
    /\ \A i \in DOMAIN p.memberships :
         /\ StillAllowed(h, p.memberships[i], results)
         /\ p.memberships[i].refs \subseteq DOMAIN metadata
    /\ RequiredFamilies(h) \cap {h.family[type] : type \in DOMAIN h.family}
         \subseteq {FamilyOf(h, p.memberships[i]) : i \in DOMAIN p.memberships}

Finalized(h, p, metadata) ==
    LET groups == ToSet(p.memberships)
    IN [relationships |-> h.relationships,
        instances |-> {[entity |-> EntityOf(m), refs |-> m.refs] : m \in groups},
        maps |-> UNION {{[ref |-> r, snap |-> metadata[r], entity |-> EntityOf(m),
                          disposition |-> Disposition(h, m)] : r \in m.refs} : m \in groups}]

-----------------------------------------------------------------------------
(* survivorship: candidates are [source, value, state, time], sorted by     *)
(* reference; value is the normalized safe value, Absent where there is     *)
(* none, and state the null state of the source value.  The two are told    *)
(* apart: a present value may carry no safe value, and a safe value another *)
(* null state.                                                             *)

Absent == "absent"

\* The first item that passes, as a set of at most one.
FirstWith(seq, Test(_)) ==
    LET hits == {i \in DOMAIN seq : Test(seq[i])}
    IN {seq[i] : i \in {j \in hits : \A k \in hits : j <= k}}

Values(candidates) == {c.value : c \in ToSet(candidates)} \ {Absent}

Survivor(policy, candidates, priority) ==
    LET offers(s) == \E c \in ToSet(candidates) : c.source = s
        ranked == FirstWith(priority, LAMBDA s : offers(s))
        latest(c) == \A d \in ToSet(candidates) : d.time <= c.time
    IN CASE policy = "PREFERRED_SOURCE" -> FirstWith(candidates, LAMBDA c : c.source \in ranked)
         [] policy = "MOST_RECENT_VALID" ->
              IF \E c \in ToSet(candidates) : c.time = 0 THEN {}
              ELSE FirstWith(candidates, LAMBDA c : latest(c))
         [] policy = "MOST_COMPLETE" -> FirstWith(candidates, LAMBDA c : c.state = "PRESENT")
         [] policy = "CONSENSUS" ->
              IF Cardinality(Values(candidates)) = 1 THEN {candidates[1]} ELSE {}
         [] OTHER -> {}

\* A conflict is recorded when nothing survives (except under MOST_COMPLETE)
\* and when the survivor had differing alternatives.
ConflictRecorded(policy, candidates, priority) ==
    IF Survivor(policy, candidates, priority) = {} THEN policy # "MOST_COMPLETE"
    ELSE Cardinality(Values(candidates)) > 1

\* What survives was offered and has no better claim against it, values that
\* differ from it leave a conflict on record, and so does a choice that selects
\* nothing, except that MOST_COMPLETE passes over candidates none of which is
\* present in silence, whatever safe values they carry.
SurvivorTrue(policy, candidates, priority) ==
    LET survivors == Survivor(policy, candidates, priority)
        offered == ToSet(candidates)
    IN /\ survivors \subseteq offered /\ Cardinality(survivors) <= 1
       /\ \A s \in survivors :
            /\ (\E c \in offered : c.value # Absent /\ s.value # Absent /\ c.value # s.value) => ConflictRecorded(policy, candidates, priority)
            /\ policy = "MOST_RECENT_VALID" => \A c \in offered : c.time \in 1 .. s.time
            /\ policy = "PREFERRED_SOURCE" => \E j \in DOMAIN priority :
                  priority[j] = s.source /\ \A i \in 1 .. j - 1 : \A c \in offered : c.source # priority[i]
            /\ policy = "MOST_COMPLETE" => s.state = "PRESENT"
            /\ policy = "CONSENSUS" => \A c, d \in offered : Absent \in {c.value, d.value} \/ c.value = d.value
       /\ survivors = {} => \/ ConflictRecorded(policy, candidates, priority)
                            \/ policy = "MOST_COMPLETE" /\ \A c \in offered : c.state # "PRESENT"
=============================================================================
