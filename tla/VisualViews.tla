---------------------------- MODULE VisualViews ----------------------------
(***************************************************************************)
(* The bounded projections of application/visualization.py with the         *)
(* validators of domain/contracts/visualization.py: graph views (overview,  *)
(* neighbourhood, focused path, full), the validation view of a subset of   *)
(* checks and of a whole report, and the values they display.               *)
(*                                                                          *)
(* A graph is [nodes, edges]; a node [ref, type, evidence, review], an edge *)
(* [ref, from, to, type]; refs are numbers, sorted as the code sorts them.  *)
(***************************************************************************)
EXTENDS PrivacyPolicy, Integers, FiniteSets, FiniteSetsExt

NoFocus == 0
TopLevel == {"SOURCE", "TABLE", "FACT", "DIMENSION"}
Wanted(selector, value) == selector = {} \/ value \in selector

\* The first n of a set of refs, in their order.
FirstRefs(n, refs) == {r \in refs : Cardinality({x \in refs : x < r}) < n}

\* build_graph: filters
FilteredNodes(g, q) ==
    {n \in g.nodes : Wanted(q.nodeTypes, n.type) /\ Wanted(q.evidence, n.evidence) /\ Wanted(q.reviews, n.review)}
FilteredEdges(g, q) ==
    LET refs == {n.ref : n \in FilteredNodes(g, q)}
    IN {e \in g.edges : e.from \in refs /\ e.to \in refs /\ Wanted(q.edgeTypes, e.type)}

\* Mutant: an edge is followed against its direction.
NeighboursBothWays(edges, dir, n) == {e.to : e \in {x \in edges : x.from = n}} \cup {e.from : e \in {x \in edges : x.to = n}}

Neighbours(edges, dir, n) ==
    (IF dir \in {"DOWNSTREAM", "BOTH"} THEN {e.to : e \in {x \in edges : x.from = n}} ELSE {})
        \cup (IF dir \in {"UPSTREAM", "BOTH"} THEN {e.from : e \in {x \in edges : x.to = n}} ELSE {})

\* _bounded_refs: a breadth-first search, one layer at a time
BoundedRefs(focus, refs, edges, hops, dir) ==
    LET layer[k \in 0 .. hops] ==
            IF k = 0 THEN {focus}
            ELSE layer[k - 1] \cup (refs \cap UNION {Neighbours(edges, dir, n) : n \in layer[k - 1]})
    IN layer[hops]

Focused(q) == q.mode \in {"NEIGHBORHOOD", "FOCUSED_PATH"}
GraphRefused(g, q) ==
    LET refs == {n.ref : n \in g.nodes}
    IN \/ Cardinality(refs) # Cardinality(g.nodes)
       \/ Cardinality({e.ref : e \in g.edges}) # Cardinality(g.edges)
       \/ \E e \in g.edges : {e.from, e.to} \ refs # {}
       \/ Focused(q) /\ q.focus \notin {n.ref : n \in FilteredNodes(g, q)}

\* The refs a view is about, before its bound
Overview(refs, top) == IF top # {} THEN top ELSE refs
SelectedRefs(g, q) ==
    LET refs == {n.ref : n \in FilteredNodes(g, q)}
    IN IF Focused(q) THEN BoundedRefs(q.focus, refs, FilteredEdges(g, q), q.maxHops, q.dir)
       ELSE IF q.mode = "OVERVIEW" THEN Overview(refs, {n.ref : n \in {x \in FilteredNodes(g, q) : x.type \in TopLevel}})
       ELSE refs

\* The focus is kept first, then the refs in order.
WithinNodes(q, refs) ==
    IF q.focus \in refs THEN {q.focus} \cup FirstRefs(q.maxNodes - 1, refs \ {q.focus})
    ELSE FirstRefs(q.maxNodes, refs)
WithinEdges(q, edges) == {e \in edges : e.ref \in FirstRefs(q.maxEdges, {x.ref : x \in edges})}

\* VisualizationGraph with its DisclosureMetadata and accessible rows
Disclosed(g, nodes, edges) ==
    [nodes |-> nodes, edges |-> edges, hiddenNodes |-> Cardinality(g.nodes) - Cardinality(nodes),
     hiddenEdges |-> Cardinality(g.edges) - Cardinality(edges),
     truncated |-> Cardinality(g.nodes) > Cardinality(nodes) \/ Cardinality(g.edges) > Cardinality(edges),
     rows |-> [n \in nodes |-> {m \in nodes : \E e \in edges : {e.from, e.to} = {n, m}}]]
ViewOf(g, q, nodes) ==
    Disclosed(g, nodes, WithinEdges(q, {e \in FilteredEdges(g, q) : e.from \in nodes /\ e.to \in nodes}))
GraphView(g, q) == ViewOf(g, q, WithinNodes(q, SelectedRefs(g, q)))

\* The reference: a walk of at most maxHops steps from the focus.
WalkTo(g, q, n) ==
    \E k \in 0 .. q.maxHops : \E w \in [1 .. k + 1 -> {x.ref : x \in FilteredNodes(g, q)}] :
        /\ w[1] = q.focus /\ w[k + 1] = n
        /\ \A i \in 1 .. k : \E e \in FilteredEdges(g, q) :
              \/ q.dir # "UPSTREAM" /\ e.from = w[i] /\ e.to = w[i + 1]
              \/ q.dir # "DOWNSTREAM" /\ e.to = w[i] /\ e.from = w[i + 1]

\* What can be asked (VisualizationRequest, the graph as it was read): a
\* finite graph, room for one node at least, any number of hops and edges.
ViewPosed(g, q) ==
    /\ IsFiniteSet(g.nodes) /\ IsFiniteSet(g.edges) /\ {n.ref : n \in g.nodes} \subseteq Nat
    /\ q.maxNodes \in Nat \ {0} /\ q.maxEdges \in Nat /\ q.maxHops \in Nat
    /\ q.dir \in {"UPSTREAM", "DOWNSTREAM", "BOTH"}
ViewTrue(g, q, v, about) ==
    /\ v.nodes \subseteq about
    /\ Focused(q) => q.focus \in v.nodes
    /\ Focused(q) /\ Cardinality(v.nodes) < q.maxNodes => v.nodes = about
    /\ \A e \in v.edges : {e.from, e.to} \subseteq v.nodes
    /\ ~v.truncated => v.nodes = {n.ref : n \in g.nodes} /\ v.edges = g.edges
    /\ \A n \in v.nodes : \A m \in v.rows[n] : n \in v.rows[m]
GraphViewTrue(g, q) ==
    ~GraphRefused(g, q) =>
        ViewTrue(g, q, GraphView(g, q), {n.ref : n \in {x \in FilteredNodes(g, q) : Focused(q) => WalkTo(g, q, x.ref)}})

-----------------------------------------------------------------------------
(* Validation views and displayed values.  A check is [id, status, expected]. *)

\* build_validation: a subset never claims a pass.
SubsetStatus(checks) ==
    IF \E c \in checks : c.status = "FAIL" THEN "FAIL"
    ELSE IF \E c \in checks : c.status = "REVIEW_REQUIRED" THEN "REVIEW_REQUIRED"
    ELSE "NOT_EVALUATED"

\* build_validation_from_report: the projection of exactly the bound report
ReportProjected(report, binding) ==
    /\ binding.report = report.id /\ binding.hash = report.hash /\ binding.run = report.run
    /\ binding.policy = report.policy
    /\ binding.checks = {c.id : c \in report.checks}
    /\ binding.required = report.required /\ binding.required \subseteq binding.checks
ReportStatus(report) ==
    CASE report.gate = "PASS" -> "PASS" [] report.gate = "FAIL" -> "FAIL" [] OTHER -> "REVIEW_REQUIRED"

\* Mutant: a text that matches no pattern is shown.
DisplayedUnmasked(kind, rule) ==
    CASE kind = "none" -> <<"UNAVAILABLE", "none">>
      [] kind \in {"number", "status", "text"} -> <<"SHOWN", kind>>
      [] OTHER -> <<"MASKED", Masked(kind, Classify(kind, rule).category)>>

\* _safe_validation_value
Displayed(kind, rule) ==
    LET class == Classify(kind, rule)
    IN CASE kind = "none" -> <<"UNAVAILABLE", "none">>
         [] kind = "number" -> <<"SHOWN", "number">>
         [] kind = "infinite" -> <<"PRIVACY_BLOCKED", "[PRIVACY_BLOCKED]">>
         [] kind = "status" /\ class.category = "none" -> <<"SHOWN", "status">>
         [] kind = "structured" -> <<"MASKED", "[STRUCTURED_VALUE_REDACTED]">>
         [] OTHER -> <<"MASKED", Masked(kind, IF class.category = "none" THEN "FREE_TEXT_POTENTIALLY_SENSITIVE" ELSE class.category)>>

\* ValidationVisualCheckInput: what each display state may carry
Placeholders == {"<REDACTED>", "<REDACTED_EMAIL>", "<REDACTED_PHONE>", "<REDACTED_SECRET>",
                 "[STRUCTURED_VALUE_REDACTED]", "[PRIVACY_BLOCKED]"}
DisplayAccepted(shown) ==
    CASE shown[1] = "UNAVAILABLE" -> shown[2] = "none"
      [] shown[1] = "SHOWN" -> shown[2] \in {"number", "status"}
      [] OTHER -> shown[2] \in Placeholders

\* build_profile_distribution: no points of a restricted or unobserved profile
ChartPoints(profile) ==
    IF profile.sensitivity \in {"REDACTED", "RESTRICTED"} \/ profile.evidence # "OBSERVED" THEN {}
    ELSE profile.points

\* A pass is shown only of a report whose every required check passed and is
\* among the ones shown; a part of the checks is never shown as a pass.
ValidationViewTrue(report, binding) ==
    /\ ReportProjected(report, binding) /\ ReportStatus(report) = "PASS" =>
        \A id \in report.required : id \in binding.checks /\ \E c \in report.checks : c.id = id /\ c.status = "PASS"
    /\ \A part \in SUBSET report.checks :
        /\ SubsetStatus(part) # "PASS"
        /\ (\E c \in part : c.status = "FAIL") => SubsetStatus(part) = "FAIL"
=============================================================================
