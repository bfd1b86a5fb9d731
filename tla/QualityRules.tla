---------------------------- MODULE QualityRules ----------------------------
(***************************************************************************)
(* Quality rules over the staged rows of a profiled snapshot                 *)
(* (application/quality.py, adapters/quality/staged.py,                      *)
(* domain/contracts/quality.py).                                            *)
(*                                                                          *)
(*   rule : [id, enabled, source, table, columns, type, scope, asserted, full, repair, given, *)
(*           expect, config]; expect is what the type needs (a pattern, a    *)
(*           kind, a set of values, a range <<low, high>> or a foreign key), *)
(*           config the authorizations and the operation                     *)
(*   foreign key : [columns, table, to], columns and to sequences            *)
(***************************************************************************)
EXTENDS Profiling

Dimensions == {"COMPLETENESS", "UNIQUENESS", "VALIDITY", "REFERENTIAL_INTEGRITY", "CONSISTENCY"}
DimensionOf == [REQUIRED_VALUE |-> "COMPLETENESS", UNIQUE_VALUES |-> "UNIQUENESS", EXACT_ROW_DUPLICATION |-> "UNIQUENESS",
                EXPECTED_PATTERN |-> "VALIDITY", EXPECTED_PRIMITIVE_TYPE |-> "VALIDITY", ALLOWED_DOMAIN |-> "VALIDITY",
                NUMERIC_RANGE |-> "VALIDITY", DECLARED_REFERENTIAL_INTEGRITY |-> "REFERENTIAL_INTEGRITY",
                NORMALIZATION_OPPORTUNITY |-> "CONSISTENCY"]
NeedsExpectation == {"EXPECTED_PATTERN", "EXPECTED_PRIMITIVE_TYPE", "ALLOWED_DOMAIN", "NUMERIC_RANGE", "DECLARED_REFERENTIAL_INTEGRITY"}

\* QualityRule.validate_rule and QualityRuleSet.validate_rules
RuleValid(rule) ==
    /\ rule.type \in NeedsExpectation => rule.given
    /\ rule.type = "NUMERIC_RANGE" => rule.expect[1] <= rule.expect[2]
    /\ rule.scope = "DOMAIN_ASSERTION" => rule.asserted
RuleSetValid(rules, default) ==
    /\ \A i, j \in DOMAIN rules : rules[i].id = rules[j].id => i = j
    /\ default => \A i \in DOMAIN rules : rules[i].scope # "REFERENCE_BENCHMARK"

-----------------------------------------------------------------------------
(* Reading: ParquetQualityStagedReader.  The state of a detector is bounded. *)

\* _verify_batch
BatchBound(b, snapshot) == BatchIntact(b) /\ b.snapshot = snapshot.id
BatchesOf(snapshot, table) == SelectSeq(snapshot.batches, LAMBDA b : b.table = table)
RowsOf(batches) == RowsBefore(batches, Len(batches) + 1)
StagedRows(snapshot, table) == RowsOf(BatchesOf(snapshot, table))
AllBound(batches, snapshot, table) ==
    /\ \A i \in DOMAIN batches : BatchBound(batches[i], snapshot)
    /\ batches = <<>> => snapshot.rows[table] = 0
Readable(snapshot, table) == AllBound(BatchesOf(snapshot, table), snapshot, table)

\* _measurement
Measurement(scope) ==
    IF scope.mode = "SAMPLE" THEN "SAMPLE_OBSERVATION"
    ELSE IF scope.status = "FULLY_OBSERVED" /\ scope.snapshotMode = "full" THEN "EXACT_ON_FULL_SNAPSHOT_SCOPE"
    ELSE "EXACT_ON_OBSERVED_SCOPE"

-----------------------------------------------------------------------------
(* One rule: _evaluate_rule.                                                *)

Issue(rule, semantics, what, refs, evaluated) ==
    [rule |-> rule.id, dimension |-> DimensionOf[rule.type], semantics |-> semantics, type |-> what,
     refs |-> refs, affected |-> Len(refs), evaluated |-> evaluated,
     status |-> IF semantics = "INCONCLUSIVE" THEN "INCONCLUSIVE" ELSE "OPEN"]
\* DetectionBasis of an issue
BasisOf(rule, semantics) ==
    IF semantics = "INCONCLUSIVE" THEN "INCONCLUSIVE" ELSE IF semantics = "SAMPLE_OBSERVATION" THEN "SAMPLED_OBSERVATION"
    ELSE IF rule.scope = "SOURCE_DECLARED" THEN "DECLARED_CONSTRAINT_CONTRADICTION"
    ELSE IF rule.scope = "DOMAIN_ASSERTION" THEN "DOMAIN_ASSERTED_RULE"
    ELSE IF rule.scope = "USER_POLICY" THEN "USER_RULE" ELSE "EXACT_MEASUREMENT"
Evaluated(issues, refs) == [ok |-> TRUE, issues |-> issues, refs |-> refs]
Raises(kind) == [ok |-> FALSE, kind |-> kind]

\* A row the rule looks at, and one it finds at fault; values are those of the
\* rule's columns in catalog order.
Considered(rule, values, markers) ==
    CASE rule.type = "REQUIRED_VALUE" -> TRUE
      [] rule.type = "UNIQUE_VALUES" -> \A i \in DOMAIN values : ~Absent(values[i], markers)
      [] OTHER -> ~Absent(values[1], markers)
Faulty1(rule, values, markers) ==
    LET v == values[1]
    IN CASE rule.type = "REQUIRED_VALUE" -> \E i \in DOMAIN values : Absent(values[i], markers)
         [] rule.type = "EXPECTED_PATTERN" -> v.kind # "string" \/ rule.expect \notin v.patterns
         [] rule.type = "EXPECTED_PRIMITIVE_TYPE" -> v.kind # rule.expect
         [] rule.type = "ALLOWED_DOMAIN" -> v.id \notin rule.expect
         [] rule.type = "NUMERIC_RANGE" -> v.kind \notin {"integer", "real"} \/ v.id < rule.expect[1] \/ v.id > rule.expect[2]
         [] rule.type = "NORMALIZATION_OPPORTUNITY" -> rule.config.operation = "trim_whitespace" /\ v.kind = "string" /\ v.padded
         [] OTHER -> FALSE

\* seen[key] is the first row with these cells; both it and the repetition
\* are at fault.
DuplicateRefs(rows) ==
    LET first(i) == Min({j \in DOMAIN rows : rows[j].cells = rows[i].cells})
    IN FoldLeft(LAMBDA refs, i :
                    IF first(i) = i THEN refs
                    ELSE LET next == IF rows[first(i)].ref \in Range(refs) THEN refs ELSE Append(refs, rows[first(i)].ref)
                         IN Append(next, rows[i].ref),
                <<>>, [i \in DOMAIN rows |-> i])

\* the cells of some columns, in their order; the columns that are null
Cells(row, columns) == [i \in DOMAIN columns |-> row.cells[columns[i]]]
NullsIn(row, columns) == {i \in DOMAIN columns : row.cells[columns[i]].kind = "null"}
UniqueRefs(rows, columns) ==
    RefsOf(SelectSeq(rows, LAMBDA r : \E k \in DOMAIN rows : rows[k].ref # r.ref /\ Cells(rows[k], columns) = Cells(r, columns)))
\* _referential_issue; markers are values here
ReferentialIssues(rule, semantics, looked, partial, orphans) ==
    Evaluated((IF orphans = <<>> THEN <<>> ELSE <<Issue(rule, semantics, "ORPHAN", RefsOf(orphans), Len(looked))>>)
              \o (IF partial = <<>> THEN <<>> ELSE <<Issue(rule, "INCONCLUSIVE", "PARTIAL_NULL", <<>>, Len(looked))>>),
              RefsOf(looked))
ReferentialRows(rule, semantics, bound, targets, looked, partial) ==
    IF Cardinality(targets) > bound \/ Len(looked) > bound \/ Len(partial) > bound THEN Raises("INPUT_INTEGRITY_FAILED")
    ELSE ReferentialIssues(rule, semantics, looked, partial,
                           SelectSeq(looked, LAMBDA r : Cells(r, rule.expect.columns) \notin targets))
ReferentialOver(rule, semantics, bound, targets, rows) ==
    ReferentialRows(rule, semantics, bound, targets, SelectSeq(rows, LAMBDA r : NullsIn(r, rule.expect.columns) = {}),
                    SelectSeq(rows, LAMBDA r : NullsIn(r, rule.expect.columns) \notin {{}, DOMAIN rule.expect.columns}))
Referential(rule, snapshot, semantics, bound) ==
    IF rule.expect.table \notin DOMAIN snapshot.seen \/ snapshot.seen[rule.expect.table] # "FULLY_OBSERVED"
    THEN Evaluated(<<Issue(rule, "INCONCLUSIVE", "TARGET", <<>>, 0)>>, <<>>)
    ELSE IF ~Readable(snapshot, rule.expect.table) \/ ~Readable(snapshot, rule.table) THEN Raises("INPUT_INTEGRITY_FAILED")
    ELSE ReferentialOver(rule, semantics, bound, {Cells(r, rule.expect.to) : r \in Range(StagedRows(snapshot, rule.expect.table))},
                         StagedRows(snapshot, rule.table))

\* what a detector with bounded state finds in the rows it looked at
Found(rule, semantics, refs, looked) ==
    Evaluated(IF refs = <<>> THEN <<>> ELSE <<Issue(rule, semantics, "FOUND", refs, Len(looked))>>, RefsOf(looked))
FoundAmong(rule, semantics, columns, marks, looked, bound) ==
    IF Len(looked) > bound THEN Raises("INPUT_INTEGRITY_FAILED")
    ELSE Found(rule, semantics,
               IF rule.type = "UNIQUE_VALUES" THEN UniqueRefs(looked, columns)
               ELSE RefsOf(SelectSeq(looked, LAMBDA r : Faulty1(rule, Cells(r, columns), marks))), looked)
FoundIn(rule, semantics, columns, marks, rows, bound) ==
    IF columns = <<>> THEN Raises("DETECTOR_FAILED")
    ELSE FoundAmong(rule, semantics, columns, marks, SelectSeq(rows, LAMBDA r : Considered(rule, Cells(r, columns), marks)), bound)
Detect(rule, semantics, columns, marks, rows, bound) ==
    IF rule.type = "EXACT_ROW_DUPLICATION"
    THEN IF Len(rows) > bound THEN Raises("INPUT_INTEGRITY_FAILED") ELSE Found(rule, semantics, DuplicateRefs(rows), rows)
    ELSE FoundIn(rule, semantics, SelectSeq(columns, LAMBDA c : rule.columns = {} \/ c \in rule.columns), marks, rows, bound)
EvaluateAs(rule, semantics, columns, snapshot, marks, bound) ==
    IF rule.full /\ semantics # "EXACT_ON_FULL_SNAPSHOT_SCOPE" THEN Evaluated(<<Issue(rule, "INCONCLUSIVE", "SCOPE", <<>>, 0)>>, <<>>)
    ELSE IF rule.type = "DECLARED_REFERENTIAL_INTEGRITY" THEN Referential(rule, snapshot, semantics, bound)
    ELSE IF ~Readable(snapshot, rule.table) THEN Raises("INPUT_INTEGRITY_FAILED")
    ELSE Detect(rule, semantics, columns, marks, StagedRows(snapshot, rule.table), bound)
EvaluateRule(rule, columns, profile, snapshot, markers, bound) ==
    EvaluateAs(rule, Measurement(profile.scope), columns, snapshot, IF rule.config.markers THEN markers ELSE {}, bound)

-----------------------------------------------------------------------------
(* The analysis: QualityAnalysisService.analyze.                            *)

Transform(rule) ==
    CASE rule.type = "EXACT_ROW_DUPLICATION" /\ rule.config.operation \in {"", "review_duplicate_handling"} -> {"review_duplicate_handling"}
      [] rule.type = "NORMALIZATION_OPPORTUNITY" /\ rule.config.operation = "trim_whitespace" -> {"trim_whitespace"}
      [] rule.type = "EXPECTED_PRIMITIVE_TYPE" /\ rule.config.operation \in {"", "parse_expected_type"} -> {"parse_expected_type"}
      [] OTHER -> {}
\* _proposal_for: at most one
Proposals(issue, rule) ==
    IF rule.repair \in {"MANUAL_BUSINESS_DECISION", "NOT_REPAIRABLE"} THEN {}
    ELSE LET made(what, layer) ==
                 [issue |-> issue, transform |-> what, layer |-> layer, refs |-> issue.refs,
                  review |-> what = "review_duplicate_handling" \/ rule.repair = "REVIEW_REQUIRED"]
         IN IF rule.config.repair THEN {made(t, "CONTROLLED_DERIVED_COPY") : t \in Transform(rule)}
            ELSE IF rule.config.quarantine THEN {made("quarantine_affected_rows", "QUARANTINE_ARTIFACT")} ELSE {}

\* _validate_inputs
InputsBound(request, snapshot, profiles) ==
    /\ request.snapshot = snapshot.id /\ profiles.snapshot = request.snapshot /\ request.fingerprint = profiles
    /\ \A i \in DOMAIN request.batches : request.batches[i] \in Range(snapshot.batches)

\* The verdict on one rule, its early exits in the order the code takes them
Verdict(applicability, kind, issues, refs) ==
    [applicability |-> applicability, failure |-> kind, issues |-> issues, refs |-> refs]
Lacking(kind) == Verdict("INSUFFICIENT_EVIDENCE", kind, <<>>, <<>>)
VerdictOn(out) ==
    IF ~out.ok THEN Lacking(out.kind)
    ELSE Verdict(IF \E i \in DOMAIN out.issues : out.issues[i].status = "INCONCLUSIVE" THEN "INCONCLUSIVE" ELSE "APPLICABLE",
                 "", out.issues, out.refs)
EvaluationOf(rule, request, snapshot, profiles, catalog, bound) ==
    IF ~rule.enabled \/ rule.source \notin {"", request.source} THEN Verdict("NOT_APPLICABLE", "", <<>>, <<>>)
    ELSE IF rule.table \notin DOMAIN catalog \/ rule.table \notin DOMAIN profiles.tables THEN Lacking("RULE_PREREQUISITE_MISSING")
    ELSE IF rule.scope = "REFERENCE_BENCHMARK" /\ request.default THEN Lacking("RULE_INVALID")
    ELSE IF rule.type # "EXACT_ROW_DUPLICATION" /\ ~(rule.columns \subseteq UNION {DOMAIN profiles.tables[t].columns : t \in DOMAIN profiles.tables}) THEN
            Lacking("RULE_PREREQUISITE_MISSING")
    ELSE VerdictOn(EvaluateRule(rule, catalog[rule.table], profiles.tables[rule.table], snapshot, profiles.markers, bound))

\* _dimension_summaries
Summary(dimension, rules, verdicts) ==
    LET mine == {i \in DOMAIN rules : DimensionOf[rules[i].type] = dimension}
        issues == UNION {Range(verdicts[i].issues) : i \in mine}
        refs == UNION {Range(x.refs) : x \in issues}
        populations == {verdicts[i].refs : i \in mine} \ {<<>>}
    IN [status |-> IF \E x \in issues : x.status = "INCONCLUSIVE" THEN "INCONCLUSIVE"
                   ELSE IF mine # {} THEN "MEASURED" ELSE "UNMEASURED",
        affected |-> IF refs # {} THEN Cardinality(refs)
                     ELSE IF mine # {} /\ \A x \in issues : x.status # "INCONCLUSIVE" THEN 0 ELSE Unknown,
        measured |-> IF Cardinality(populations) = 1 THEN Len(CHOOSE x \in populations : TRUE) ELSE 0]

\* _input_failure_result: nothing was measured
InputFailure(request) ==
    [verdicts |-> <<>>, failures |-> {<<"", "INPUT_INTEGRITY_FAILED">>}, proposals |-> {}, completeness |-> "INCOMPLETE",
     summaries |-> [d \in Dimensions |-> [status |-> "UNMEASURED", affected |-> Unknown, measured |-> 0]]]
Analysis(rules, verdicts, failures) ==
    [verdicts |-> verdicts, failures |-> failures,
     proposals |-> UNION {UNION {Proposals(x, rules[i]) : x \in Range(verdicts[i].issues)} : i \in DOMAIN rules},
     summaries |-> [d \in Dimensions |-> Summary(d, rules, verdicts)],
     completeness |-> IF failures # {} THEN "INCOMPLETE" ELSE "COMPLETE"]
AnalysisOf(rules, verdicts, profiles) ==
    Analysis(rules, verdicts, {<<rules[i].id, verdicts[i].failure>> : i \in {k \in DOMAIN rules : verdicts[k].failure # ""}}
                              \cup {<<"profile", "INCOMPLETE_PROFILE">> : x \in {y \in {profiles.completeness} : y # "COMPLETE"}})
Analyze(request, snapshot, profiles, catalog, bound) ==
    IF ~InputsBound(request, snapshot, profiles) THEN InputFailure(request)
    ELSE AnalysisOf(request.rules, [i \in DOMAIN request.rules |-> EvaluationOf(request.rules[i], request, snapshot, profiles, catalog, bound)],
                    profiles)

-----------------------------------------------------------------------------
(* What the analysis promises.                                              *)

\* The rows a rule is about, said without the detectors: rows that repeat one
\* another are all at fault, and a missing value breaks only the rule that
\* asks for a value.
AtFault(rule, columns, snapshot, markers) ==
    LET rows == Range(StagedRows(snapshot, rule.table))
        mine == {c \in Range(columns) : rule.columns = {} \/ c \in rule.columns}
        marks == IF rule.config.markers THEN markers ELSE {}
        filled(r) == \A c \in mine : ~Absent(r.cells[c], marks)
        first == Head(SelectSeq(columns, LAMBDA c : c \in mine))
        same(r, s, C) == r.ref # s.ref /\ \A c \in C : r.cells[c] = s.cells[c]
    IN {r.ref : r \in
          CASE rule.type = "EXACT_ROW_DUPLICATION" -> {x \in rows : \E s \in rows : same(x, s, Range(columns))}
            [] rule.type = "REQUIRED_VALUE" -> {x \in rows : ~filled(x)}
            [] rule.type = "UNIQUE_VALUES" -> {x \in rows : filled(x) /\ \E s \in rows : same(x, s, mine)}
            [] rule.type = "DECLARED_REFERENTIAL_INTEGRITY" ->
                 {x \in rows : /\ \A c \in Range(rule.expect.columns) : x.cells[c].kind # "null"
                               /\ \A y \in Range(StagedRows(snapshot, rule.expect.table)) :
                                     \E k \in DOMAIN rule.expect.columns : y.cells[rule.expect.to[k]] # x.cells[rule.expect.columns[k]]}
            [] OTHER -> {x \in rows : ~Absent(x.cells[first], marks) /\ Faulty1(rule, <<x.cells[first]>>, marks)}}

\* A rule said to apply found exactly the rows at fault, in intact batches of
\* this snapshot; an analysis is complete only if every enabled rule of the
\* source was looked at; an inconclusive rule leaves its dimension inconclusive;
\* and a repair is proposed only where the rule authorizes one.
VerdictTrue(rule, verdict, found, atFault, summary) ==
    /\ verdict.applicability = "APPLICABLE" =>
           /\ found = atFault /\ found \subseteq Range(verdict.refs)
           /\ rule.full => \A x \in Range(verdict.issues) : x.semantics = "EXACT_ON_FULL_SNAPSHOT_SCOPE"
    /\ verdict.applicability = "INCONCLUSIVE" => summary.status = "INCONCLUSIVE"
    /\ \A x \in Range(verdict.issues) : BasisOf(rule, x.semantics) = "INCONCLUSIVE" <=> x.status = "INCONCLUSIVE"
Authorized(proposal, rule) ==
    /\ proposal.issue.rule = rule.id /\ rule.repair \in {"AUTO_SAFE", "AUTO_WITH_VALIDATION", "REVIEW_REQUIRED"}
    /\ rule.config.repair \/ rule.config.quarantine
    /\ proposal.layer = "CONTROLLED_DERIVED_COPY" => rule.config.repair
AnalysisTrue(request, snapshot, profiles, catalog, result) ==
    /\ result.completeness = "COMPLETE" =>
          \A i \in DOMAIN request.rules : request.rules[i].enabled /\ request.rules[i].source \in {"", request.source} =>
              result.verdicts[i].applicability \in {"APPLICABLE", "INCONCLUSIVE"}
    /\ \A i \in DOMAIN result.verdicts :
          /\ VerdictTrue(request.rules[i], result.verdicts[i], UNION {Range(x.refs) : x \in Range(result.verdicts[i].issues)},
                         AtFault(request.rules[i], catalog[request.rules[i].table], snapshot, profiles.markers),
                         result.summaries[DimensionOf[request.rules[i].type]])
          /\ result.verdicts[i].applicability = "APPLICABLE" => Readable(snapshot, request.rules[i].table)
    /\ \A x \in result.proposals : \E i \in DOMAIN request.rules : Authorized(x, request.rules[i])
QualityTrue(request, snapshot, profiles, catalog, bound) ==
    AnalysisTrue(request, snapshot, profiles, catalog, Analyze(request, snapshot, profiles, catalog, bound))

\* A dimension none of whose rules could be looked at is not summed up as
\* measured.
FailedUnmeasured(rules, result) ==
    \A d \in Dimensions :
        LET mine == {i \in DOMAIN result.verdicts : DimensionOf[rules[i].type] = d}
        IN mine # {} /\ (\A i \in mine : result.verdicts[i].applicability = "INSUFFICIENT_EVIDENCE") =>
               result.summaries[d].status # "MEASURED"
=============================================================================
