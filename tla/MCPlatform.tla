----------------------------- MODULE MCPlatform -----------------------------
(***************************************************************************)
(* The services around the workers, for TLC: requests that meet in the     *)
(* API, operations that meet on the artifacts of a run, and commands that  *)
(* meet at the local pump.  The three share no variable, so a behaviour is *)
(* one scene: its part moves and the two others rest.                      *)
(***************************************************************************)
EXTENDS ApiCommands, ArtifactPlatform, LocalPump, TLC

CONSTANTS t1, t2, alice, bob,              \* ApiCommands
          s1, s2, x, y, e, key1,           \* ArtifactPlatform
          c1, c2, u1, u2, w1, w2           \* LocalPump

-----------------------------------------------------------------------------
(* Requests that meet in the API.                                          *)

\* One key for two different runs, and a principal of the same key.
Creating ==
    {Request("create", alice, "k", [project |-> "a"]), Request("create", alice, "k", [project |-> "b"]),
     Request("create", bob, "k", [project |-> "a"])}

Import(n) == Request("import", alice, n, [csv |-> "good"])

\* A run that gets a single source and a source set at once.
Binding ==
    {Import("i"), Import("j"),
     Request("bind", alice, "k",
             [sources |-> {ResourceId(Import("i"))}]),
     Request("bind_set", alice, "k",
             [sources |-> {ResourceId(Import("i")), ResourceId(Import("j"))}])}

Importing == {Import("i"), Request("import", alice, "i", [csv |-> "other"]),
              Request("import", alice, "m", [csv |-> "malformed"]),
              Request("bind", bob, "k",
             [sources |-> {ResourceId(Import("i"))}])}

Decide(kind, key, expected, decision) ==
    Request(kind, alice, key, [expected |-> expected, decision |-> decision])

\* Two reviewers of one revision, and an invalidation that may overtake them.
Reviewing ==
    {Decide("review", "k", 0, "ACCEPTED"), Decide("review", "l", 0, "REJECTED"),
     Decide("review", "l", 1, "REJECTED"),
     Decide("invalidate", "k", 1, "INVALIDATED")}

Prepare(key, intent) == Request("prepare", alice, key, [intent |-> intent])
Advance(stage) == Request("advance", alice, "worker", [stage |-> stage])
Command(kind) == Request(kind, alice, "k", [action |-> kind])

\* Two plans of different intent, commands, and the stages that move a plan.
Planning ==
    {Prepare("k", "er"), Prepare("l", "no_er"),
     Advance("SOURCE_DISCOVERY"), Advance("CANONICAL_HYPOTHESES")}

Commanding ==
    {Command("submit"), Command("cancel"),
     Prepare("k", "er"), Prepare("k", "no_er")}

MCApiScenarios ==
    {Creating, Binding, Importing, Reviewing, Planning, Commanding}

-----------------------------------------------------------------------------
(* Operations that meet on the artifacts of a run.                         *)

\* Two artifacts with the same bytes, one of which is cleaned up.
Sharing == {Publishing(x, "g", 1, {}), Publishing(y, "g", 1, {}), Cleaning}

\* A second attempt and other content for the same identity.
Retrying == {Publishing(x, "g", 1, {}), Publishing(x, "h", 1, {}),
             Publishing(x, "g", 2, {}), Cleaning}

Depending == {Publishing(x, "g", 1, {}), Publishing(y, "h", 1, {x}), Cleaning}

Cached == {Publishing(x, "g", 1, {}), Caching(key1, x), Resolving(key1), Cleaning}

Pinned == {Publishing(x, "g", 1, {}), Gating(x), Staging(x, "g", 1), Cleaning}

Outside == {Registering(e, 1), Registering(e, 2), Gating(e)}

\* An interrupted publication leaves a blob that still counts.
Crowded == {Publishing(x, "g", 1, {}), Publishing(x, "i", 1, {}),
            Publishing(y, "h", 1, {})}

MCScenarios ==
    {Crowded, Sharing, Retrying, Depending, Cached, Pinned, Outside}

-----------------------------------------------------------------------------
VARIABLE scene

allVars == <<scene, apiVars, platformVars, pumpVars>>

\* The parts that rest start somewhere fixed, and an external file is of some
\* content where it is used.
Init ==
    /\ scene \in {"api", "artifacts", "pump"}
    /\ ApiInit /\ PlatformInit /\ PumpInit
    /\ scene # "api" => sent = Creating
    /\ scene # "artifacts" => ops = Sharing
    /\ ops # Outside => file = [a \in External |-> "g"]

ApiMoves == scene = "api" /\ ApiNext /\ UNCHANGED <<scene, platformVars, pumpVars>>

ArtifactsMove ==
    scene = "artifacts" /\ PlatformNext /\ UNCHANGED <<scene, apiVars, pumpVars>>

PumpMoves == scene = "pump" /\ PumpNext /\ UNCHANGED <<scene, apiVars, platformVars>>

\* The local runtime may stop when no call and no pump is under way.
PumpRests ==
    /\ scene = "pump"
    /\ \A c \in Commands : caller[c] = "returned"
    /\ \A t \in PumpThreads : ~IsAlive(t)
    /\ UNCHANGED allVars

Next == ApiMoves \/ ArtifactsMove \/ PumpMoves \/ PumpRests

Spec == Init /\ [][Next]_allVars /\ PumpsRun
==============================================================================
