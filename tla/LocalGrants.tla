---------------------------- MODULE LocalGrants ----------------------------
(***************************************************************************)
(* Authorizations of local analysis: a grant is issued for an exact scope   *)
(* and later verified against the scope that is about to be read            *)
(* (application/privacy_policy.py, the *Authorization contracts).           *)
(*                                                                          *)
(*   service : [policy, version, root, grants], grants a function from the  *)
(*             identifier to the last grant issued under it                 *)
(*   context : [purpose, local, network, external, llm, raw, cleanup, temp]  *)
(*   scope   : [sources, snapshots, tables, columns, spec], sources a        *)
(*             sequence, snapshots and tables functions of the source       *)
(***************************************************************************)
EXTENDS Integers, Sequences, FiniteSets, SequencesExt, FiniteSetsExt, Functions

NoGrant == [id |-> <<>>]

\* SchemaMatchPrivacyContext, EntityResolutionPrivacyContext (fail_closed)
ContextValid(context, purpose) ==
    /\ context.purpose = purpose /\ context.local /\ ~context.network /\ ~context.external /\ ~context.llm
    /\ ~context.raw /\ context.cleanup
\* the temporary root resolves inside the project
RootInside(context) == context.temp = "inside"

\* MatchingAuthorization, EntityResolutionAuthorization
GrantValid(scope, least) ==
    Len(scope.sources) >= least /\ DOMAIN scope.snapshots = Range(scope.sources) /\ DOMAIN scope.tables = Range(scope.sources)

Issue(service, id, scope, batches, now) ==
    LET grant == [id |-> id, policy |-> service.policy, version |-> service.version, scope |-> scope, batches |-> batches, issued |-> now]
    IN [service |-> [service EXCEPT !.grants = [x \in DOMAIN @ \cup {id} |-> IF x = id THEN grant ELSE @[x]]], grant |-> grant]
Refuse(service) == [service |-> service, grant |-> NoGrant]

\* authorize_dependency_analysis: one source; the identifier leaves the artifacts out
AuthorizeDependency(service, context, scope, batches, now) ==
    IF ContextValid(context, "DEPENDENCY") /\ Len(scope.sources) = 1 /\ scope.tables[scope.sources[1]] # <<>> /\ RootInside(context)
    THEN Issue(service, <<"dependency", service.policy, service.version, scope>>, scope, batches, now)
    ELSE Refuse(service)
\* authorize_schema_matching_analysis
AuthorizeMatching(service, context, scope, batches, now) ==
    IF ContextValid(context, "MATCHING") /\ GrantValid(scope, 2) /\ RootInside(context)
    THEN Issue(service, <<"matching", service.policy, service.version, scope>>, scope, batches, now)
    ELSE Refuse(service)
\* authorize_entity_resolution_analysis: the identifier holds the batches too
AuthorizeLinking(service, context, scope, batches, now) ==
    IF ContextValid(context, "LINKING") /\ GrantValid(scope, 1) /\ scope.columns # <<>> /\ RootInside(context)
    THEN Issue(service, <<"linking", service.policy, service.version, scope, batches>>, scope, batches, now)
    ELSE Refuse(service)

\* Mutant: the batches are not compared
VerifyScopeOnly(service, grant, scope, batches) ==
    /\ grant.id \in DOMAIN service.grants /\ service.grants[grant.id] = grant
    /\ grant.scope = scope
\* what every verify_* compares: the grant as last issued, its scope, its
\* batches unless none is given, the policy in force
Verified(service, grant, scope, batches) ==
    /\ grant.id \in DOMAIN service.grants /\ service.grants[grant.id] = grant
    /\ grant.scope = scope /\ (batches # <<>> => grant.batches = batches)
    /\ grant.policy = service.policy /\ grant.version = service.version
VerifyDependency(service, grant, scope, batches) == Verified(service, grant, scope, batches)
VerifyMatching(service, grant, scope, batches) == Verified(service, grant, scope, batches)
VerifyLinking(service, grant, scope, batches) == Verified(service, grant, scope, batches)

\* A dependency analysis may read exactly what it was granted: a grant is issued
\* only to a local context, covers no other scope or batches, and is worth
\* nothing once it was issued again.
DependencyGrantTrue(service, context, scope, others, batches) ==
    LET first == AuthorizeDependency(service, context, scope, batches, 1)
        again == AuthorizeDependency(first.service, context, scope, batches, 2)
    IN first.grant # NoGrant =>
        /\ context.local /\ ~context.network /\ ~context.external /\ ~context.llm
        /\ VerifyDependency(first.service, first.grant, scope, batches)
        /\ ~VerifyDependency(service, first.grant, scope, batches) /\ ~VerifyDependency(again.service, first.grant, scope, batches)
        /\ \A other \in others \ {scope} : ~VerifyDependency(first.service, first.grant, other, batches)
=============================================================================
