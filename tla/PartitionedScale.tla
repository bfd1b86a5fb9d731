-------------------------- MODULE PartitionedScale --------------------------
(***************************************************************************)
(* ScaleService (application/distributed.py): a dataset is cut into         *)
(* partitions, a bounded pool of threads reduces them in any order, and the *)
(* merge accepts the results only behind an exact barrier.  The caller may  *)
(* keep results of earlier executions and hand them to merge again, and the *)
(* dataset may be replaced by a later content of the same version.          *)
(*                                                                          *)
(* A row is [ref, key, group, block, keys, measure, grain, warehouse, dep]; *)
(* group, block, measure, grain, warehouse and dep (a pair) are optional:   *)
(* sets of at most one value.                                               *)
(* Byte counts follow row counts.  A digest of something is the thing.      *)
(***************************************************************************)
EXTENDS Integers, FiniteSets, Sequences, SequencesExt, FiniteSetsExt

CONSTANTS
    Datasets,     \* the contents of the dataset
    Policies,     \* scale policies
    Counts,       \* partition counts a caller may ask for
    Hash,         \* routing key -> the number its digest begins with
    SampleRank,         \* row reference -> the place of its sampling digest
    MaxPartitionFaults, MaxExecutions    \* bounds

\* ScaleInputDataset refuses two rows of one reference; digests are numbers.
ASSUME ScaleAssumption ==
    /\ \A rows \in Datasets :
         /\ IsFiniteSet(rows)
         /\ \A r1, r2 \in rows : r1.ref = r2.ref => r1 = r2
         /\ \A r \in rows :
              /\ r.measure \subseteq Int /\ \A m1, m2 \in r.measure : m1 = m2
              /\ \A g1, g2 \in r.grain : g1 = g2
              /\ \A w1, w2 \in r.warehouse : w1 = w2
              /\ Hash[r.key] \in Nat /\ \A k \in r.block \cup r.group : Hash[k] \in Nat
              /\ SampleRank[r.ref] \in Nat
    /\ \A pol \in Policies : IsFiniteSet(pol.boundaries) /\ pol.maxPartitions \in Int /\ pol.sample \in Int
    /\ \A count \in Counts : count \in Int

VARIABLES
    input, scalePolicy,    \* the dataset and the policy at hand
    plan,             \* the partition plan, as a set of at most one
    waiting, running, \* partitions of the execution under way
    results,          \* what it has collected, in order of completion
    held,             \* results of earlier executions
    outcome,          \* of the last execution or merge, as a set of at most one
    partitionFaults, executions

scaleVars == <<input, scalePolicy, plan, waiting, running, results, held, outcome,
               partitionFaults, executions>>

\* _support_for and assess: the mode, or "raise"
Mode(pol, rows) ==
    IF Cardinality(rows) <= pol.threshold THEN "LOCAL_REFERENCE"
    ELSE IF pol.support \in {"PARTITION_SAFE", "SHUFFLE_REQUIRED", "GLOBAL_REDUCTION",
                             "GLOBAL_CANDIDATE_GENERATION"} THEN "PARTITIONED_LOCAL"
    ELSE IF pol.fallback THEN "LOCAL_REFERENCE" ELSE "raise"

\* _strategy_for
Strategy(pol, rows) ==
    IF Mode(pol, rows) = "LOCAL_REFERENCE" THEN "SINGLE_NODE"
    ELSE IF pol.strategy # "default" THEN pol.strategy
    ELSE IF pol.support = "GLOBAL_CANDIDATE_GENERATION" THEN "BLOCK_KEY" ELSE "HASH"

\* _route_key and _bucket; a range is found by counting boundaries
RouteKey(row, strategy) ==
    LET keys == IF row.block # {} THEN row.block ELSE row.group
    IN IF strategy = "BLOCK_KEY" /\ keys # {} THEN CHOOSE k \in keys : TRUE ELSE row.key
Bucket(row, strategy, count, boundaries) ==
    CASE strategy = "SINGLE_NODE" -> 0
      [] strategy = "RANGE" -> Min({Cardinality({b \in boundaries : row.key >= b}), count - 1})
      [] OTHER -> Hash[RouteKey(row, strategy)] % count
RowsOf(rows, p, index) == {r \in rows : Bucket(r, p.strategy, p.count, p.boundaries) = index}

\* _skew: the largest partition against the mean
Skewed(pol, sizes, count) ==
    LET total == SumFunction(sizes)
        largest == Max({sizes[i] : i \in DOMAIN sizes})
    IN largest > 0 /\ largest * count > pol.skew * total

Indices(count) == 0 .. count - 1

\* plan; _strategy_for raises on a strategy that wants a staging manifest.
MakePlan(pol, rows, asked) ==
    LET strategy == Strategy(pol, rows)
        count == IF strategy = "SINGLE_NODE" THEN 1 ELSE Max({1, Min({asked, pol.maxPartitions})})
        p == [strategy |-> strategy, count |-> count, boundaries |-> pol.boundaries, input |-> rows]
        sizes == [i \in Indices(count) |-> Cardinality(RowsOf(rows, p, i))]
    IN IF Mode(pol, rows) = "raise" \/ strategy = "EXISTING_STAGED_PART" \/ \E i \in Indices(count) : sizes[i] > pol.maxRows THEN {}
       ELSE {[strategy |-> strategy, count |-> count, boundaries |-> pol.boundaries, input |-> rows,
              rejects |-> Skewed(pol, sizes, count) /\ pol.rejectSkew]}

\* _candidate_pairs, and whether it refuses the fan-out
PairsUnder(rows, key) == {{a.ref, b.ref} : a, b \in {r \in rows : key \in r.keys}}
KeysOf(rows) == UNION {r.keys : r \in rows}
CandidatePairs(rows) ==
    {pair \in UNION {PairsUnder(rows, k) : k \in KeysOf(rows)} : Cardinality(pair) = 2}
FansOut(pol, rows) ==
    LET under(k) == Cardinality({r \in rows : k \in r.keys})
    IN \/ \E k \in KeysOf(rows) : (under(k) * (under(k) - 1)) \div 2 > pol.maxPairs
       \/ Cardinality(CandidatePairs(rows)) > pol.maxPairs

\* _sample_candidates: a prefix of the digests; the limit is applied at the merge
Sampled(pol, rows) == {r.ref : r \in {x \in rows : SampleRank[x.ref] < pol.sample}}
Limited(pol, refs) == {x \in refs : Cardinality({y \in refs : SampleRank[y] < SampleRank[x]}) < pol.sampleLimit}

Measures(rows) == {r \in rows : r.measure # {}}
Amount(r) == CHOOSE m \in r.measure : TRUE
MeasureSum(rows) == SumFunction([r \in Measures(rows) |-> Amount(r)])
LeastOf(S) == IF S = {} THEN {} ELSE {Min(S)}
GreatestOf(S) == IF S = {} THEN {} ELSE {Max(S)}

\* _output_for_rows; the outputs of two partitions are kept apart by the index.
Output(pol, rows, strategy, index) ==
    [part |-> index, refs |-> {r.ref : r \in rows}, count |-> Cardinality(rows),
     nulls |-> Cardinality(rows) - Cardinality(Measures(rows)),
     sum |-> MeasureSum(rows),
     min |-> LeastOf(UNION {r.measure : r \in rows}),
     max |-> GreatestOf(UNION {r.measure : r \in rows}),
     grains |-> UNION {r.grain : r \in rows},
     grainRows |-> Cardinality({r \in rows : r.grain # {}}),
     warehouse |-> UNION {r.warehouse : r \in rows},
     warehouseRows |-> Cardinality({r \in rows : r.warehouse # {}}),
     pairs |-> IF strategy = "BLOCK_KEY" THEN CandidatePairs(rows) ELSE {},
     deps |-> UNION {r.dep : r \in rows},
     sampled |-> Sampled(pol, rows)]

\* _merge_outputs, when it does not refuse a repeated grain or warehouse key
MergeOutputs(pol, outputs) ==
    [refs |-> UNION {o.refs : o \in outputs},
     count |-> SumFunction([o \in outputs |-> o.count]),
     nulls |-> SumFunction([o \in outputs |-> o.nulls]),
     sum |-> SumFunction([o \in outputs |-> o.sum]),
     min |-> LeastOf(UNION {o.min : o \in outputs}),
     max |-> GreatestOf(UNION {o.max : o \in outputs}),
     grains |-> UNION {o.grains : o \in outputs},
     warehouse |-> UNION {o.warehouse : o \in outputs},
     pairs |-> UNION {o.pairs : o \in outputs},
     deps |-> UNION {o.deps : o \in outputs},
     sampled |-> Limited(pol, UNION {o.sampled : o \in outputs})]
GrainRepeated(outputs) ==
    Cardinality(UNION {o.grains : o \in outputs}) # SumFunction([o \in outputs |-> o.grainRows])
WarehouseRepeated(outputs) ==
    Cardinality(UNION {o.warehouse : o \in outputs}) # SumFunction([o \in outputs |-> o.warehouseRows])
DependencyValid(merged) == \A d1, d2 \in merged.deps : d1[1] = d2[1] => d1[2] = d2[2]

-----------------------------------------------------------------------------
(* One partition, and the merge.                                           *)

\* _run_partition: the result of one thread; published says whether its
\* artifact could be stored and registered.
Result(p, index, published) ==
    LET rows == RowsOf(p.input, p, index)
        status == IF p.strategy = "BLOCK_KEY" /\ FansOut(scalePolicy, rows) THEN "REJECTED"
                  ELSE IF published THEN "SUCCEEDED" ELSE "FAILED"
    IN [part |-> index, strategy |-> p.strategy, count |-> p.count, input |-> p.input, status |-> status,
        output |-> IF status = "SUCCEEDED" THEN {Output(scalePolicy, rows, p.strategy, index)} ELSE {}]

\* Mutant: a stale result passes if its partition is expected.
ResultValidUnbound(p, r, damaged) == r.status = "SUCCEEDED" /\ r.part \notin damaged

\* _validate_result; damaged are the partitions whose stored result is no
\* longer registered, or does not verify any more.
ResultValid(p, r, damaged) ==
    /\ r.status = "SUCCEEDED"
    /\ r.strategy = p.strategy /\ r.count = p.count /\ r.input = p.input
    /\ r.output = {Output(scalePolicy, RowsOf(input, p, r.part), p.strategy, r.part)}
    /\ r.part \notin damaged

\* merge: exactly the expected partitions, one semantic result for each, every
\* one of them this plan's, and accounts that close.
MergeRefuses(p, given, damaged) ==
    LET first(i) == given[Min({j \in DOMAIN given : given[j].part = i})]
        outputs == UNION {first(i).output : i \in Indices(p.count)}
        merged == MergeOutputs(scalePolicy, outputs)
    IN \/ {g.part : g \in ToSet(given)} # Indices(p.count)
       \/ \E g1, g2 \in ToSet(given) : g1.part = g2.part /\ g1 # g2
       \/ \E i \in Indices(p.count) : ~ResultValid(p, first(i), damaged)
       \/ GrainRepeated(outputs) \/ WarehouseRepeated(outputs)
       \/ merged.count # Cardinality(input)
       \/ merged.refs # {r.ref : r \in input}
       \/ p.strategy = "BLOCK_KEY" /\ merged.pairs # CandidatePairs(input)

\* What merge returns, or the way it ends: too many candidates over the whole
\* dataset is an exception that execute does not turn into a result.
MergeOutcome(p, given, damaged) ==
    IF p.strategy = "BLOCK_KEY" /\ FansOut(scalePolicy, input) THEN [status |-> "RAISED"]
    ELSE IF MergeRefuses(p, given, damaged) THEN [status |-> "FAILED"]
    ELSE LET merged == MergeOutputs(scalePolicy, UNION {g.output : g \in ToSet(given)})
         IN [status |-> "SUCCEEDED", strategy |-> p.strategy, rows |-> input, merged |-> merged,
             valid |-> DependencyValid(merged)]

-----------------------------------------------------------------------------
ScaleIdle ==
    /\ input = {} /\ scalePolicy = {} /\ plan = {} /\ waiting = {} /\ running = {}
    /\ results = <<>> /\ held = <<>> /\ outcome = {} /\ partitionFaults = 0 /\ executions = 0

ScaleInit ==
    /\ input \in Datasets /\ scalePolicy \in Policies
    /\ plan = {} /\ waiting = {} /\ running = {}
    /\ results = <<>> /\ held = <<>> /\ outcome = {} /\ partitionFaults = 0 /\ executions = 0

AtRest == waiting = {} /\ running = {} /\ results = <<>>

\* A plan for the dataset at hand.
PlanScale(count) ==
    /\ AtRest /\ plan = {} /\ executions < MaxExecutions
    /\ plan' = MakePlan(scalePolicy, input, count)
    /\ plan' # {}
    /\ outcome' = {}
    /\ UNCHANGED <<input, scalePolicy, waiting, running, results, held, partitionFaults, executions>>

\* execute: a plan of another content is refused, a rejected skew ends at once.
Start ==
    /\ AtRest /\ executions < MaxExecutions /\ outcome = {}
    /\ \E p \in plan :
         /\ p.input = input
         /\ IF p.rejects THEN waiting' = {} /\ outcome' = {[status |-> "NEEDS_REVIEW"]}
            ELSE waiting' = Indices(p.count) /\ UNCHANGED outcome
    /\ executions' = executions + 1
    /\ UNCHANGED <<input, scalePolicy, plan, running, results, held, partitionFaults>>

Submit(i) ==
    /\ i \in waiting /\ Cardinality(running) < scalePolicy.slots
    /\ waiting' = waiting \ {i} /\ running' = running \cup {i}
    /\ UNCHANGED <<input, scalePolicy, plan, results, held, outcome, partitionFaults, executions>>

Collect(i, published) ==
    /\ i \in running
    /\ published \/ partitionFaults < MaxPartitionFaults
    /\ \E p \in plan : results' = Append(results, Result(p, i, published))
    /\ running' = running \ {i}
    /\ partitionFaults' = IF published THEN partitionFaults ELSE partitionFaults + 1
    /\ UNCHANGED <<input, scalePolicy, plan, waiting, held, outcome, executions>>

\* A merge meets a stored result that does not verify: a fault like any other.
Meets(damaged) ==
    /\ damaged = {} \/ partitionFaults < MaxPartitionFaults
    /\ partitionFaults' = IF damaged = {} THEN partitionFaults ELSE partitionFaults + 1

\* The pool is drained: a failed partition makes the execution incomplete.
Conclude ==
    /\ waiting = {} /\ running = {} /\ results # <<>>
    /\ \E p \in plan : \E damaged \in SUBSET Indices(p.count) :
         /\ Meets(damaged)
         /\ outcome' = {IF \E r \in ToSet(results) : r.status # "SUCCEEDED" THEN [status |-> "INCOMPLETE"]
                        ELSE MergeOutcome(p, results, damaged)}
    /\ held' = held \o results
    /\ results' = <<>>
    /\ UNCHANGED <<input, scalePolicy, plan, waiting, running, executions>>

\* The caller merges what it holds from all executions.
MergeHeld ==
    /\ AtRest /\ held # <<>>
    /\ \E p \in plan : \E damaged \in SUBSET Indices(p.count) :
         Meets(damaged) /\ outcome' = {MergeOutcome(p, held, damaged)}
    /\ UNCHANGED <<input, scalePolicy, plan, waiting, running, results, held, executions>>

\* After an incomplete execution the caller tries again.
Retry ==
    /\ AtRest /\ outcome # {}
    /\ outcome' = {}
    /\ UNCHANGED <<input, scalePolicy, plan, waiting, running, results, held, partitionFaults, executions>>

\* Another content of the dataset; what was planned and held stays.
Replace(rows) ==
    /\ AtRest /\ executions < MaxExecutions /\ rows # input /\ outcome # {}
    /\ input' = rows
    /\ plan' \in {plan, {}}
    /\ outcome' = {}
    /\ UNCHANGED <<scalePolicy, waiting, running, results, held, partitionFaults, executions>>

ScaleNext ==
    \/ \E count \in Counts : PlanScale(count)
    \/ Start
    \/ \E i \in waiting : Submit(i)
    \/ \E i \in running, published \in BOOLEAN : Collect(i, published)
    \/ Conclude \/ MergeHeld \/ Retry
    \/ \E rows \in Datasets : Replace(rows)

ScaleSpec == ScaleInit /\ [][ScaleNext]_scaleVars

-----------------------------------------------------------------------------
\* What one pass over the whole dataset computes.
Reference(rows, pol, strategy) ==
    [refs |-> {r.ref : r \in rows}, count |-> Cardinality(rows),
     nulls |-> Cardinality({r \in rows : r.measure = {}}),
     sum |-> MeasureSum(rows),
     min |-> {Amount(r) : r \in {x \in Measures(rows) : \A y \in Measures(rows) : Amount(x) <= Amount(y)}},
     max |-> {Amount(r) : r \in {x \in Measures(rows) : \A y \in Measures(rows) : Amount(x) >= Amount(y)}},
     grains |-> UNION {r.grain : r \in rows}, warehouse |-> UNION {r.warehouse : r \in rows},
     pairs |-> IF strategy # "BLOCK_KEY" THEN {}
               ELSE {{q[1].ref, q[2].ref} : q \in {t \in rows \X rows : t[1] # t[2] /\ t[1].keys \cap t[2].keys # {}}},
     deps |-> UNION {r.dep : r \in rows},
     sampled |-> {x \in {r.ref : r \in rows} : SampleRank[x] < pol.sample /\
                     Cardinality({y \in {r.ref : r \in rows} : SampleRank[y] < SampleRank[x]}) < pol.sampleLimit}]

\* Two rows that go by one fact grain or one warehouse key.
SharesKey(r1, r2) ==
    \/ r1.grain # {} /\ r1.grain = r2.grain
    \/ r1.warehouse # {} /\ r1.warehouse = r2.warehouse

\* Whatever the number of partitions, the order in which threads finish, the
\* failures, retries and left-over results, a merge that succeeds gives what
\* one pass over the present rows gives; and one that does not succeed has a
\* reason: a partition or a stored result failed, the skew was rejected, what
\* is held or planned is of another content or cut, candidates span partitions
\* or fan out, or two rows share a fact grain or a warehouse key
\* (ScaleService.execute, merge).
MergedEqualsReference ==
    \A o \in outcome :
        IF o.status = "SUCCEEDED"
        THEN /\ o.merged = Reference(o.rows, scalePolicy, o.strategy)
             /\ o.valid = \A r1, r2 \in o.rows : \A d1 \in r1.dep, d2 \in r2.dep :
                             d1[1] = d2[1] => d1[2] = d2[2]
        ELSE \/ partitionFaults > 0 \/ o.status = "NEEDS_REVIEW" \/ \E g \in ToSet(held), p \in plan : g.input # input \/ g.count # p.count
             \/ \E p \in plan : p.strategy = "BLOCK_KEY" \/ p.input # input
             \/ \E r1, r2 \in input : r1 # r2 /\ SharesKey(r1, r2)
=============================================================================
