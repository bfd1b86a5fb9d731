-------------------------- MODULE IdentityLifecycle --------------------------
(***************************************************************************)
(* A canonical identity from entity resolution to finalization: a proposal  *)
(* is built on the entity-resolution results at hand, a reviewer decides on *)
(* it, and it is finalized with the results at hand then.  In between,      *)
(* resolution may run again and proposals may be rebuilt.                   *)
(***************************************************************************)
EXTENDS CanonicalIdentity

CONSTANTS
    AcceptedHypothesis, \* the reviewed hypothesis
    ErResults,      \* what a run of entity resolution may return
    Groupings,      \* the sequences of memberships a steward may propose
    MaxReruns       \* bound: reruns of entity resolution

\* The contract of CanonicalIdentityMembership: a finite set of references.
ASSUME IdentityAssumption ==
    \A memberships \in Groupings : \A i \in DOMAIN memberships : IsFiniteSet(memberships[i].refs)

VARIABLES
    er,             \* family -> the latest result
    proposal,       \* the latest proposal, as a set of at most one
    decision,       \* the latest identity review, as a set of at most one
    model,          \* the canonical model, as a set of at most one
    reruns

identityVars == <<er, proposal, decision, model, reruns>>

Families == RequiredFamilies(AcceptedHypothesis)

IdentityIdle ==
    er = [f \in Families |-> NoResult] /\ proposal = {} /\ decision = {} /\ model = {} /\ reruns = 0

IdentityInit ==
    /\ er \in [Families -> ErResults]
    /\ proposal = {} /\ decision = {} /\ model = {} /\ reruns = 0

Resolve(family, result) ==
    /\ reruns < MaxReruns
    /\ er' = [er EXCEPT ![family] = result]
    /\ reruns' = reruns + 1
    /\ UNCHANGED <<proposal, decision, model>>

Propose(memberships) ==
    /\ model = {}
    /\ ProposalBuilds(AcceptedHypothesis, memberships, er)
    /\ proposal' = {Proposal(AcceptedHypothesis, memberships, er)}
    /\ UNCHANGED <<er, decision, model, reruns>>

\* The reviewer sees the proposal and the results at hand; identity_context
\* refuses a proposal that is not built on them.
Decide(verdict) ==
    /\ model = {}
    /\ \E p \in proposal :
         /\ \A f \in DOMAIN p.er : er[f] = p.er[f]
         /\ decision' = {[checkpoint |-> "IDENTITY", subject |-> <<p, er>>, decision |-> verdict]}
    /\ UNCHANGED <<er, proposal, model, reruns>>

Finalize(metadata) ==
    /\ model = {}
    /\ \E p \in proposal, r \in decision :
         /\ FinalizeAllowed(AcceptedHypothesis, p, r, er, metadata)
         /\ model' = {[built |-> Finalized(AcceptedHypothesis, p, metadata),
                       groups |-> ToSet(p.memberships), er |-> er]}
    /\ UNCHANGED <<er, proposal, decision, reruns>>

IdentityNext(metadata) ==
    \/ \E family \in Families, result \in ErResults : Resolve(family, result)
    \/ \E memberships \in Groupings : Propose(memberships)
    \/ \E verdict \in {"ACCEPTED", "REJECTED"} : Decide(verdict)
    \/ Finalize(metadata)

IdentitySpec(metadata) == IdentityInit /\ [][IdentityNext(metadata)]_identityVars

-----------------------------------------------------------------------------
\* The reference: nothing separates the records of a linked group, that is, no
\* split of it keeps every authorised edge on one side.
Linked(refs, edges) ==
    \A S \in (SUBSET refs) \ {{}, refs} : \E e \in edges : e.ends \cap S # {} /\ ~(e.ends \subseteq S)

\* A finalized model gives every record one entity, merges records on the
\* strength of entity resolution only when links strong enough hold them
\* together in the very results the reviewer saw, and never merges records
\* that resolution did not look at.  Resolution has a say over a membership whose
\* family requires it, and that is the family the membership names, its type's
\* only where it names none: a membership that names a family without the
\* requirement is merged on the reviewer's word alone, whatever its type
\* (CanonicalIdentityProposalService.build, CanonicalFinalizationService.finalize).
OneIdentityEach ==
    \A m \in model :
        /\ \A a, b \in m.built.maps : a.ref = b.ref => a.entity = b.entity
        /\ \A g \in m.groups :
             LET family == FamilyOf(AcceptedHypothesis, g)
                 result == m.er[family]
                 strong == {e \in result.edges :
                              e.band = "STRONG" \/ (result.reviewEdges /\ e.band = "REVIEW")}
             IN Requires(AcceptedHypothesis, family) =>
                  /\ \E r \in decision : r.decision = "ACCEPTED" /\ r.subject[2] = m.er
                  /\ result.complete
                  /\ g.refs \subseteq (UNION {e.ends : e \in result.edges}) \cup (UNION result.clusters)
                  /\ g.basis = "ER" => Linked(g.refs, strong)
=============================================================================
