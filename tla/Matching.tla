------------------------------ MODULE Matching ------------------------------
(***************************************************************************)
(* Bounded schema matching across sources                                   *)
(* (application/schema_matching.py, adapters/matching/valentine.py,         *)
(* domain/contracts/schema_matching.py).                                    *)
(*                                                                          *)
(*   request  : [scope, context, mode, matchers, policy, rank]; a           *)
(*              matcher is [id, name, instances], rank orders the records   *)
(*              by their salted hash                                        *)
(*   catalogs : source -> sequence of [id, columns]; a column is            *)
(*              [id, source, table, family]                                 *)
(*   staged   : source -> [snapshot, batches, intact, rows]; rows gives the *)
(*              record references of each table                             *)
(*   provider : [available, limit, fails, score], the external matchers:    *)
(*              time is up after limit calls, score[m] gives for each pair  *)
(*              of columns m's score, 0 when it returns none                *)
(***************************************************************************)
EXTENDS LocalGrants

Instances(request) == request.mode = "INSTANCE_AWARE"
Wanted(request, table) == IF table \in DOMAIN request.scope.columns THEN request.scope.columns[table] ELSE <<>>
\* position of a source among the selected ones
SourceAt(request, s) == CHOOSE i \in DOMAIN request.scope.sources : request.scope.sources[i] = s
NoRepeat(seq) == Cardinality(Range(seq)) = Len(seq)
Cut(seq, most) == SubSeq(seq, 1, IF Len(seq) > most THEN most ELSE Len(seq))

\* SchemaMatchRequest.validate_scope
RequestValid(request) ==
    LET scope == request.scope
    IN /\ Len(scope.sources) >= 2 /\ NoRepeat(scope.sources) /\ Len(scope.sources) <= request.policy.maxSources
       /\ DOMAIN scope.snapshots = Range(scope.sources) /\ DOMAIN scope.tables = Range(scope.sources)
       /\ \A s \in DOMAIN scope.tables : scope.tables[s] # <<>>
       /\ Len(request.matchers) <= request.policy.maxMatchers
\* SchemaMatchCandidate.candidate_only
CandidateValid(left, right) == ~(left.id = right.id /\ left.source = right.source)
\* SchemaMatchResult.validate_completion
ResultValid(result) == result.status = "COMPLETE" => result.capability # "none"

-----------------------------------------------------------------------------
(* Entry: _validate_entry, SchemaMatchingService.match.                     *)

CatalogTables(catalogs, s) == [i \in DOMAIN catalogs[s] |-> catalogs[s][i].id]
TableOf(catalogs, s, t) == catalogs[s][CHOOSE i \in DOMAIN catalogs[s] : catalogs[s][i].id = t]
ColumnIds(catalogs, s, t) == {c.id : c \in Range(TableOf(catalogs, s, t).columns)}
BatchesIn(request, staged) ==
    FlattenSeq([i \in DOMAIN request.scope.sources |->
        SelectSeq(staged[request.scope.sources[i]].batches,
                  LAMBDA b : b[1] \in Range(request.scope.tables[request.scope.sources[i]]))])
EntryValid(request, catalogs, staged) ==
    LET scope == request.scope
    IN /\ DOMAIN catalogs = Range(scope.sources) /\ DOMAIN staged = Range(scope.sources)
       /\ \A s \in Range(scope.sources) :
              /\ staged[s].snapshot = scope.snapshots[s]
              /\ NoRepeat(scope.tables[s])
              /\ \A t \in Range(scope.tables[s]) :
                     /\ t \in Range(CatalogTables(catalogs, s))
                     /\ NoRepeat(Wanted(request, t)) /\ Range(Wanted(request, t)) \subseteq ColumnIds(catalogs, s, t)
       /\ DOMAIN scope.columns \subseteq UNION {Range(scope.tables[s]) : s \in Range(scope.sources)}
EntryError(request, catalogs, staged, service, grant) ==
    IF ~EntryValid(request, catalogs, staged) THEN "INPUT_INVALID"
    ELSE IF Instances(request) /\ ~VerifyMatching(service, grant, request.scope, BatchesIn(request, staged)) THEN "PRIVACY_BLOCKED"
    ELSE IF Instances(request) /\ \E s \in Range(request.scope.sources) : ~staged[s].intact THEN "STAGED_INPUT_INTEGRITY_FAILED"
    ELSE ""

-----------------------------------------------------------------------------
(* What is loaded: _load_frames, _sample_stream.                            *)

\* the rows of least hash, back in the order they were extracted
Sample(rows, most, rank) ==
    SelectSeq(rows, LAMBDA r : Cardinality({x \in Range(rows) : rank[x] < rank[r]}) < most)
\* tables are kept in the order of the catalog
KeptTables(request, catalogs, s) ==
    Cut(SelectSeq(catalogs[s], LAMBDA t : t.id \in Range(request.scope.tables[s])), request.policy.maxTables)
ColumnsOf(request, table) ==
    SelectSeq(table.columns, LAMBDA c : Wanted(request, table.id) = <<>> \/ c.id \in Range(Wanted(request, table.id)))
ColumnsIn(request, tables) ==
    Cut(FlattenSeq([i \in DOMAIN tables |-> ColumnsOf(request, tables[i])]), request.policy.maxColumns)
KeptColumns(request, catalogs, s) == ColumnsIn(request, KeptTables(request, catalogs, s))
Sampled(request, staged, s, t) ==
    IF Instances(request) THEN Sample(staged[s].rows[t], request.policy.maxRows, request.rank) ELSE <<>>
RowsRead(request, catalogs, staged) ==
    LET tables(s) == KeptTables(request, catalogs, s)
    IN FoldLeft(LAMBDA n, s : n + FoldLeft(LAMBDA k, t : k + Len(staged[s].rows[t.id]), 0, tables(s)),
                0, IF Instances(request) THEN request.scope.sources ELSE <<>>)
Reduced(request, catalogs, staged) ==
    \E s \in Range(request.scope.sources) :
        \/ Len(KeptTables(request, catalogs, s)) < Len(request.scope.tables[s])
        \/ \E t \in Range(KeptTables(request, catalogs, s)) :
               \/ \E c \in Range(ColumnsOf(request, t)) : c \notin Range(KeptColumns(request, catalogs, s))
               \/ Instances(request) /\ Len(Sampled(request, staged, s, t.id)) < Len(staged[s].rows[t.id])

-----------------------------------------------------------------------------
(* The bounded search: discover.                                            *)

\* _eligible_types
Eligible(left, right, policy) == policy.typed => left.family = right.family \/ "unknown" \in {left.family, right.family}
\* the pairs of tables, in the order of the request
SourcePairs(request) ==
    LET n == Len(request.scope.sources)
    IN FlattenSeq([i \in 1 .. n |-> [j \in 1 .. n - i |-> <<request.scope.sources[i], request.scope.sources[i + j]>>]])
PairsBetween(pair, left, right) ==
    FlattenSeq([i \in DOMAIN left |-> [j \in DOMAIN right |-> <<pair[1], left[i], pair[2], right[j]>>]])
PairsOf(request, pair) ==
    PairsBetween(pair, Cut(request.scope.tables[pair[1]], request.policy.maxTables), Cut(request.scope.tables[pair[2]], request.policy.maxTables))
PairsOfAll(request, pairs) == FlattenSeq([k \in DOMAIN pairs |-> PairsOf(request, pairs[k])])
TablePairs(request) == PairsOfAll(request, Cut(SourcePairs(request), request.policy.maxSourcePairs))
Loaded(request, catalogs, s, t) == {c \in Range(KeptColumns(request, catalogs, s)) : c.table = t}
\* _bounded_pair_inputs: the columns a matcher sees of a pair of tables
VisibleOf(left, right, policy) ==
    {l \in left : \E r \in right : Eligible(l, r, policy)} \X {r \in right : \E l \in left : Eligible(l, r, policy)}
Visible(request, catalogs, pair) ==
    VisibleOf(Loaded(request, catalogs, pair[1], pair[2]), Loaded(request, catalogs, pair[3], pair[4]), request.policy)
PairInputs(request, catalogs, pairs) == SelectSeq(pairs, LAMBDA p : Visible(request, catalogs, p) # {})
VisibleCount(request, catalogs, pairs) == FoldLeft(LAMBDA n, p : n + Cardinality(Visible(request, catalogs, p)), 0, pairs)
\* a table of the request that the catalog's order left out has no frame
FrameMissing(request, catalogs, pairs) ==
    \E p \in Range(pairs) : \/ p[2] \notin {t.id : t \in Range(KeptTables(request, catalogs, p[1]))}
                            \/ p[4] \notin {t.id : t \in Range(KeptTables(request, catalogs, p[3]))}

\* _build_matcher
MatcherError(m, request, provider) ==
    IF ~Instances(request) /\ (m.name = "DistributionBased" \/ (m.name = "Coma" /\ m.instances)) THEN "UNSUPPORTED_MODE"
    ELSE IF m.name \notin {"Coma", "Cupid", "DistributionBased"} \/ m.id \in provider.fails THEN "MATCHER_FAILED"
    ELSE ""
\* a bound that is exceeded is reported
Over(n, most) == IF n > most THEN <<"BUDGET_EXCEEDED">> ELSE <<>>
\* what a matcher returns of the pairs of tables it saw
FoundIn(m, request, catalogs, seen, provider) ==
    {x \in {<<y[1], y[2], provider.score[m.id][<<y[1].id, y[2].id>>]>> : y \in UNION {Visible(request, catalogs, p) : p \in Range(seen)}} : x[3] > 0}
Searched(acc, m, request, catalogs, inputs, seen, provider) ==
    [acc EXCEPT !.native = Append(@, [matcher |-> m.id, found |-> FoundIn(m, request, catalogs, seen, provider)]),
                !.calls = @ + Len(seen), !.failures = @ \o Over(Len(inputs), Len(seen))]
\* one matcher over the pairs; acc is [native, failures, calls, over]
RunMatcher(acc, m, request, catalogs, inputs, provider) ==
    IF acc.over THEN acc
    ELSE IF acc.calls >= provider.limit THEN [acc EXCEPT !.over = TRUE, !.failures = Append(@, "BUDGET_EXCEEDED")]
    ELSE IF MatcherError(m, request, provider) # "" THEN [acc EXCEPT !.failures = Append(@, MatcherError(m, request, provider))]
    ELSE Searched(acc, m, request, catalogs, inputs, Cut(inputs, provider.limit - acc.calls), provider)

\* the rank of a pair among those of its left column
RankIn(x, all) ==
    1 + Cardinality({y \in all : y[1] = x[1] /\ (y[3] > x[3] \/ (y[3] = x[3] /\ y[2].id < x[2].id))})
BestOf(matcher, all, most) ==
    {[matcher |-> matcher, left |-> x[1], right |-> x[2], raw |-> x[3], rank |-> RankIn(x, all)] : x \in {y \in all : RankIn(y, all) <= most}}
Retained(request, native) ==
    BestOf(native.matcher, {x \in native.found : x[1].source # x[2].source /\ Eligible(x[1], x[2], request.policy)}, request.policy.topK)
Ends(score) == {score.left, score.right}
MatcherAt(request, m) == CHOOSE i \in DOMAIN request.matchers : request.matchers[i].id = m
\* candidates are listed by their best score: matcher, rank, columns
Key(request, score) ==
    1000000 * MatcherAt(request, score.matcher) + 10000 * score.rank + 100 * score.left.id + score.right.id
BestKey(request, ends, scores) == Min({Key(request, s) : s \in {x \in scores : Ends(x) = ends}})
Listed(request, scores, most) ==
    LET all == {Ends(s) : s \in scores}
    IN {e \in all : Cardinality({d \in all : BestKey(request, d, scores) < BestKey(request, e, scores)}) < most}

Failed(failures) ==
    [status |-> "FAILED", candidates |-> {}, scores |-> {}, failures |-> failures, rows |-> 0, calls |-> 0, capability |-> "known"]
Matchers(request) == Cut(request.matchers, request.policy.maxMatchers)
\* every matcher in turn; a search too wide sees no pair at all
RunMatchers(request, catalogs, inputs, failures, provider) ==
    FoldLeft(LAMBDA acc, m : RunMatcher(acc, m, request, catalogs, inputs, provider),
             [native |-> <<>>, failures |-> failures, calls |-> 0, over |-> FALSE], Matchers(request))
SearchPairs(request, catalogs, pairs, bounds, columns, provider) ==
    RunMatchers(request, catalogs, IF columns > request.policy.maxColumnPairs THEN <<>> ELSE PairInputs(request, catalogs, pairs),
                bounds \o Over(columns, request.policy.maxColumnPairs), provider)
Status(request, catalogs, staged, ran, failures) ==
    IF ran.native # <<>> /\ failures = <<>> /\ Len(ran.native) = Len(Matchers(request)) /\ ~Reduced(request, catalogs, staged) THEN "COMPLETE"
    ELSE IF ran.native # <<>> \/ "BUDGET_EXCEEDED" \in Range(failures) THEN "INCOMPLETE"
    ELSE "FAILED"
ResultOf(request, catalogs, staged, ran, scores, failures) ==
    [status |-> Status(request, catalogs, staged, ran, failures),
     candidates |-> Listed(request, scores, request.policy.maxOutput), scores |-> scores, failures |-> failures,
     rows |-> RowsRead(request, catalogs, staged), calls |-> ran.calls, capability |-> "known"]
Scored(request, catalogs, staged, ran, scores) ==
    ResultOf(request, catalogs, staged, ran, scores, ran.failures \o Over(Cardinality({Ends(s) : s \in scores}), request.policy.maxOutput))
Ranked(request, catalogs, staged, ran) == Scored(request, catalogs, staged, ran, UNION {Retained(request, n) : n \in Range(ran.native)})
DiscoverPairs(request, catalogs, staged, pairs, bounds, provider) ==
    IF FrameMissing(request, catalogs, pairs) THEN [Failed(<<>>) EXCEPT !.status = "RAISED"]
    ELSE Ranked(request, catalogs, staged,
                SearchPairs(request, catalogs, pairs, bounds, VisibleCount(request, catalogs, pairs), provider))
DiscoverAll(request, catalogs, staged, all, provider) ==
    DiscoverPairs(request, catalogs, staged, Cut(all, request.policy.maxTablePairs),
                  Over(Len(SourcePairs(request)), request.policy.maxSourcePairs) \o Over(Len(all), request.policy.maxTablePairs), provider)
DiscoverUnless(error, request, catalogs, staged, provider) ==
    IF error # "" THEN Failed(<<error>>)
    ELSE IF ~provider.available THEN Failed(<<"CAPABILITY_UNAVAILABLE">>)
    ELSE DiscoverAll(request, catalogs, staged, TablePairs(request), provider)
Discover(request, catalogs, staged, service, grant, provider) ==
    DiscoverUnless(EntryError(request, catalogs, staged, service, grant), request, catalogs, staged, provider)
DiscoverUnder(request, catalogs, staged, issued, provider) == Discover(request, catalogs, staged, issued.service, issued.grant, provider)
\* SchemaMatchingService.match: an instance-aware request is authorized first
Match(request, catalogs, staged, service, provider, now) ==
    DiscoverUnder(request, catalogs, staged,
                  IF Instances(request) THEN AuthorizeMatching(service, request.context, request.scope, BatchesIn(request, staged), now)
                  ELSE Refuse(service), provider)

-----------------------------------------------------------------------------
(* What a result means, without bounds, frames or order of work.            *)

AllColumns(request, catalogs) ==
    UNION {UNION {Range(ColumnsOf(request, TableOf(catalogs, s, t))) : t \in Range(request.scope.tables[s])} :
              s \in Range(request.scope.sources)}
\* the pairs some matcher ranks among the best of their left column
WorthListing(request, catalogs, provider) ==
    LET before(l, r) == SourceAt(request, l.source) < SourceAt(request, r.source)
        of(m, l) == {r \in AllColumns(request, catalogs) : before(l, r) /\ Eligible(l, r, request.policy)
                                                           /\ provider.score[m.id][<<l.id, r.id>>] > 0}
        better(m, l, r, q) == LET a == provider.score[m.id][<<l.id, r.id>>]
                                  b == provider.score[m.id][<<l.id, q.id>>]
                              IN b > a \/ (b = a /\ q.id < r.id)
    IN UNION {UNION {{{l, r} : r \in {x \in of(m, l) : Cardinality({q \in of(m, l) : better(m, l, x, q)}) < request.policy.topK}} :
                        l \in AllColumns(request, catalogs)} : m \in Range(request.matchers)}

MatchOf(request, catalogs, staged, service, grant, provider, result) ==
    /\ ResultValid(result)
    /\ \A e \in result.candidates :
           \A l, r \in e : l # r => CandidateValid(l, r) /\ l.source # r.source /\ Eligible(l, r, request.policy)
                                    /\ {l, r} \subseteq AllColumns(request, catalogs)
    /\ \A e \in result.candidates : \E s \in result.scores : Ends(s) = e /\ s.rank <= request.policy.topK
    /\ \A s, u \in result.scores : s.matcher = u.matcher /\ s.left = u.left /\ s.rank = u.rank => s = u
    /\ result.status = "COMPLETE" => result.candidates = WorthListing(request, catalogs, provider)
    /\ result.status = "COMPLETE" <=>
           /\ result.status \notin {"RAISED", "FAILED"} /\ result.failures = <<>> /\ ~Reduced(request, catalogs, staged)
           /\ request.matchers # <<>>
    /\ Cardinality(result.candidates) <= request.policy.maxOutput
    \* rows are read under a grant for exactly these batches
    /\ result.rows > 0 => /\ Instances(request) /\ service.grants[grant.id] = grant /\ grant.scope = request.scope
                          /\ grant.batches = BatchesIn(request, staged)
MatchTrue(request, catalogs, staged, service, grant, provider) ==
    RequestValid(request) =>
        MatchOf(request, catalogs, staged, service, grant, provider, Discover(request, catalogs, staged, service, grant, provider))

\* Through the service, what may not be read is not read.
ServiceTrue(request, catalogs, staged, service, provider, now) ==
    RequestValid(request) /\ Match(request, catalogs, staged, service, provider, now).rows > 0 =>
        ContextValid(request.context, "MATCHING") /\ RootInside(request.context) /\ \A s \in DOMAIN staged : staged[s].intact
=============================================================================
