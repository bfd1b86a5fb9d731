----------------------------- MODULE SemanticAi -----------------------------
(***************************************************************************)
(* Suggestions of a local language model (application/semantic_evidence.py, *)
(* adapters/semantic/, domain/contracts/semantic_ai.py).  The provider and  *)
(* the name service are outside: world.moments[i] is what the i-th request   *)
(* of one analysis meets,                                                   *)
(*   moment  : [hosts, reply, models, digest, content]                      *)
(*   content : [form, size, hypotheses, limitations], hypotheses and         *)
(*             limitations sequences, a text known by its kind               *)
(*   request : [id, task, subjects, refs, budget, context, prompt]          *)
(*   item    : [ref, fields, size], fields a function from a name to the     *)
(*             kind of its value                                            *)
(* An analysis makes at most ten requests: three to learn the model, three   *)
(* before and three after the one that sends the context.                    *)
(***************************************************************************)
EXTENDS Integers, FiniteSets, PrivacyPolicy, FiniteSetsExt

Loopback == {"127.0.0.1", "::1"}
VerifiedModel == "qwen"
VerifiedDigest == "d0"
ChatAt == 7

\* SemanticBudget, SemanticPrivacyContext, SemanticEvidenceRequest
BudgetValid(budget) == budget.retries = 0
LocalContext(context) ==
    context.purpose = "SEMANTIC_AI_LOCAL_ANALYSIS" /\ context.local /\ ~context.network /\ ~context.external
RequestValid(request) ==
    /\ BudgetValid(request.budget) /\ LocalContext(request.context)
    /\ Len(request.subjects) \in 1 .. request.budget.subjects /\ Len(request.refs) <= request.budget.refs
\* SemanticContextItem (no_raw_values): names that promise raw values
RawNames == {"raw", "value", "record", "row", "password", "secret", "token", "credential", "email", "phone", "address"}
ItemValid(item) == DOMAIN item.fields \cap RawNames = {}
\* SemanticProviderPolicy (deterministic_temperature)
PolicyValid(policy) == policy.temperature = 0

\* _sanitize: what the log rules leave of a trusted text, and identifiers
Sanitized(kind) == IF Logged(kind, TRUE) = "identifier" THEN "<REDACTED_IDENTIFIER>" ELSE Logged(kind, TRUE)
SafeItem(item) == [item EXCEPT !.fields = [f \in DOMAIN @ |-> Sanitized(@[f])]]

-----------------------------------------------------------------------------
(* Context, prompt and provider                                             *)

Failed(kind, made) == [ok |-> FALSE, kind |-> kind, made |-> made]
\* an exception none of the handlers expects
Escaped == Failed("raised", FALSE)

\* SemanticContextBuilder.build: a manifest, or the budget it breaks
InputSize(items) == FoldSeq(LAMBDA item, n : n + item.size, 0, items)
Manifest(request, selected) ==
    IF \/ Len(selected) > request.budget.items
       \/ \E i \in DOMAIN selected : selected[i].ref \notin ToSet(request.refs)
       \/ InputSize(selected) > request.budget.input
    THEN Failed("CONTEXT_BUDGET_EXCEEDED", FALSE)
    ELSE [ok |-> TRUE, subjects |-> request.subjects, items |-> selected,
          provided |-> {selected[i].ref : i \in DOMAIN selected}, allowed |-> {selected[i].ref : i \in DOMAIN selected},
          fingerprint |-> <<request.subjects, request.refs, selected>>]
BuildContext(request, items) ==
    Manifest(request, [i \in DOMAIN items |-> SafeItem(items[i])])

\* load_prompt_bundle: the text is read once to be sent and once to be hashed
LoadPrompt(request, files) ==
    IF files.system = "absent" \/ files.task = "absent" THEN Failed("PROMPT_BUILD_FAILED", FALSE)
    ELSE [ok |-> TRUE, version |-> request.prompt, sent |-> <<files.system, files.task>>, hashed |-> <<files.hashedSystem, files.task>>]

\* _base, _request: resolve, refuse what is not loopback, ask once, no redirect
EndpointValid(policy) == policy.scheme = "http" /\ policy.port \in {0, 11434} /\ policy.path \in {"", "/"}
Ask(policy, moment) ==
    IF ~EndpointValid(policy) \/ moment.hosts = {} \/ ~(moment.hosts \subseteq Loopback) THEN Failed("NON_LOCAL_PROVIDER_BLOCKED", FALSE)
    ELSE IF moment.reply = "timeout" THEN Failed("PROVIDER_TIMEOUT", TRUE)
    ELSE IF moment.reply \in {"http error", "down"} THEN Failed("PROVIDER_ERROR", TRUE)
    ELSE IF moment.reply = "redirect" THEN Failed("PROVIDER_ERROR", FALSE)
    ELSE IF moment.reply \in {"not json", "not an object"} THEN Failed("INVALID_JSON", TRUE)
    ELSE [ok |-> TRUE, kind |-> "none", made |-> TRUE]
\* how many requests have left once the i-th is tried
Left(policy, moment, i) == IF Ask(policy, moment).kind = "NON_LOCAL_PROVIDER_BLOCKED" THEN i - 1 ELSE i

\* the last request made: one that fails is not followed by another
LastAsked(policy, moments, first) ==
    Max({i \in first .. first + 2 : \A k \in first .. i - 1 : Ask(policy, moments[k]).ok})
\* what that request, the at-th, made of the listed models
Listed(policy, moment, at) ==
    IF ~Ask(policy, moment).ok THEN Ask(policy, moment) @@ [asked |-> Left(policy, moment, at)]
    ELSE IF moment.models = {"null"} THEN Escaped @@ [asked |-> at]
    ELSE IF policy.model \notin moment.models THEN Failed("CAPABILITY_UNAVAILABLE", FALSE) @@ [asked |-> at]
    ELSE [ok |-> TRUE, endpoint |-> policy.endpoint, model |-> policy.model, digest |-> moment.digest, asked |-> at]
ListedLast(policy, moments, at) == Listed(policy, moments[at], at)
\* Mutant: the digest of the installed model is not compared with the verified one
CapabilityAnyDigest(policy, moments, first) == ListedLast(policy, moments, LastAsked(policy, moments, first))
\* capability: version, show, tags; only the verified model counts as local
OnlyVerified(listed) ==
    IF listed.ok /\ (listed.model # VerifiedModel \/ listed.digest # VerifiedDigest)
    THEN Failed("NON_LOCAL_PROVIDER_BLOCKED", FALSE) @@ [asked |-> listed.asked]
    ELSE listed
Capability(policy, moments, first) == OnlyVerified(ListedLast(policy, moments, LastAsked(policy, moments, first)))

-----------------------------------------------------------------------------
(* Authorization, generation and the result                                 *)

\* authorize_semantic_ai_analysis: a grant for this request, context and model
LocalEndpoints == {"http://127.0.0.1:11434", "http://localhost:11434", "http://[::1]:11434"}
Authorize(request, manifest, provider, prompt) ==
    IF ~LocalContext(request.context) \/ provider.endpoint \notin LocalEndpoints
         \/ manifest.subjects = <<>> \/ manifest.allowed # manifest.provided
    THEN Failed("PRIVACY_BLOCKED", FALSE)
    ELSE [ok |-> TRUE, request |-> request.id, task |-> request.task, fingerprint |-> manifest.fingerprint, refs |-> manifest.allowed,
          model |-> provider.model, digest |-> provider.digest, prompt |-> prompt.version]
\* verify_semantic_ai_authorization, with the grants the service keeps
VerifyGrant(grants, grant, request, manifest, provider, prompt) ==
    /\ grant \in grants /\ grant.request = request.id /\ grant.task = request.task /\ grant.fingerprint = manifest.fingerprint
    /\ grant.model = provider.model /\ grant.digest = provider.digest /\ grant.prompt = prompt.version

\* SemanticProviderHypothesis, SemanticProviderOutput: no word of authority
SafeText(kind) == kind # "authority"
OutputValid(content) ==
    /\ Len(content.hypotheses) <= 16 /\ Len(content.limitations) <= 8
    /\ \A i \in DOMAIN content.hypotheses :
           content.hypotheses[i].kind \in {"SUPPORTS", "CONTRADICTS", "AMBIGUOUS", "INSUFFICIENT"} /\ SafeText(content.hypotheses[i].text)
    /\ \A i \in DOMAIN content.limitations : SafeText(content.limitations[i])
\* validate_provider_output
OutputError(request, manifest, content) ==
    IF Len(content.hypotheses) > request.budget.hypotheses THEN "OUTPUT_BUDGET_EXCEEDED"
    ELSE IF \E i \in DOMAIN content.hypotheses : ~(content.hypotheses[i].refs \subseteq manifest.allowed) THEN "INVALID_REFERENCE"
    ELSE "none"
ContentError(request, manifest, content) ==
    IF content.form = "missing" \/ content.size > request.budget.output THEN "OUTPUT_BUDGET_EXCEEDED"
    ELSE IF content.form = "text" THEN "INVALID_JSON"
    ELSE IF ~OutputValid(content) THEN "SCHEMA_VALIDATION_FAILED"
    ELSE OutputError(request, manifest, content)

\* semantic_hypothesis_id; SemanticHypothesis: a candidate, never a decision
HypothesisId(request, manifest, prompt, digest, h) ==
    <<request.task, request.subjects, h.kind, h.text, h.refs, prompt.hashed, manifest.fingerprint, digest>>
Hypothesis(request, manifest, prompt, digest, h) ==
    [id |-> HypothesisId(request, manifest, prompt, digest, h), kind |-> h.kind, text |-> h.text, refs |-> h.refs, candidateOnly |-> TRUE]

\* generate: the model is identified before and after it is asked
Evidence(request, manifest, grant, prompt, digest, content) ==
    [ok |-> TRUE, asked |-> 10, digest |-> digest, prompt |-> prompt.hashed, grant |-> grant, manifest |-> manifest,
     hypotheses |-> {Hypothesis(request, manifest, prompt, digest, content.hypotheses[i]) : i \in DOMAIN content.hypotheses},
     limitations |-> content.limitations]
\* before, chat and after are the model asked, its answer and the model asked again
Generated(request, manifest, grant, prompt, content, before, chat, error, after) ==
    IF ~before.ok THEN before
    ELSE IF before.digest # grant.digest THEN Failed("MODEL_IDENTITY_CHANGED", FALSE) @@ [asked |-> 6]
    ELSE IF ~chat.ok THEN chat
    ELSE IF error # "none" THEN Failed(error, TRUE) @@ [asked |-> ChatAt]
    ELSE IF ~after.ok THEN after
    ELSE IF after.digest # before.digest THEN Failed("MODEL_IDENTITY_CHANGED", TRUE) @@ [asked |-> 10]
    ELSE Evidence(request, manifest, grant, prompt, before.digest, content)
Generate(request, manifest, grant, prompt, policy, moments) ==
    Generated(request, manifest, grant, prompt, moments[ChatAt].content, Capability(policy, moments, 4),
              Ask(policy, moments[ChatAt]) @@ [asked |-> Left(policy, moments[ChatAt], ChatAt)],
              ContentError(request, manifest, moments[ChatAt].content), Capability(policy, moments, 8))

\* SemanticEvidenceResult (result_consistency)
NoEvidence == [ok |-> FALSE]
ResultValid(result) == (result.state = "CANDIDATE_ONLY") = (result.evidence # NoEvidence)
\* _failure and the except clauses of analyze
FailureState(kind) ==
    CASE kind \in {"PRIVACY_BLOCKED", "NON_LOCAL_PROVIDER_BLOCKED"} -> "PRIVACY_BLOCKED"
      [] kind = "CAPABILITY_UNAVAILABLE" -> "UNAVAILABLE"
      [] OTHER -> "FAILED"
CapabilityStatus(kind) ==
    CASE kind \in {"CONTEXT_BUDGET_EXCEEDED", "PROMPT_BUILD_FAILED"} -> "NOT_CHECKED"
      [] kind \in {"CAPABILITY_UNAVAILABLE", "PROVIDER_ERROR", "PROVIDER_TIMEOUT", "NON_LOCAL_PROVIDER_BLOCKED"} -> "UNAVAILABLE"
      [] OTHER -> "AVAILABLE_BUT_INVALID"
Failure(failed, asked) ==
    [state |-> IF failed = Escaped THEN "raised" ELSE FailureState(failed.kind), kind |-> failed.kind, made |-> failed.made,
     capability |-> CapabilityStatus(failed.kind), evidence |-> NoEvidence, asked |-> asked]
FailureAsked(failed) == Failure([ok |-> FALSE, kind |-> failed.kind, made |-> failed.made], failed.asked)

\* SemanticEvidenceService.analyze
Reported(evidence) ==
    IF ~evidence.ok THEN FailureAsked(evidence)
    ELSE [state |-> "CANDIDATE_ONLY", kind |-> "none", made |-> TRUE, capability |-> "AVAILABLE", evidence |-> evidence, asked |-> 10]
Granted(request, manifest, provider, prompt, grant, policy, moments) ==
    IF ~grant.ok \/ ~VerifyGrant({grant}, grant, request, manifest, provider, prompt) THEN Failure(Failed("PRIVACY_BLOCKED", FALSE), 3)
    ELSE Reported(Generate(request, manifest, grant, prompt, policy, moments))
Prepared(request, manifest, prompt, provider, policy, moments) ==
    IF ~manifest.ok THEN Failure(manifest, 0)
    ELSE IF ~prompt.ok THEN Failure(prompt, 0)
    ELSE IF ~provider.ok THEN FailureAsked(provider)
    ELSE Granted(request, manifest, provider, prompt, Authorize(request, manifest, provider, prompt), policy, moments)
Analyze(request, items, policy, files, moments) ==
    Prepared(request, BuildContext(request, items), LoadPrompt(request, files), Capability(policy, moments, 1), policy, moments)

\* _publish: the file is replaced as a whole; another result of the same
\* request takes its place.  A root outside the project is refused.
Publish(files, inside, id, result) ==
    IF inside THEN [ok |-> TRUE, files |-> [x \in DOMAIN files \cup {id} |-> IF x = id THEN result ELSE files[x]]]
    ELSE [ok |-> FALSE, files |-> files]

-----------------------------------------------------------------------------
(* Repetition and the safety evaluation                                     *)

Agreeing(values) == Cardinality({i \in DOMAIN values : values[i] = values[1]})
\* repeatability: counts over the number of repetitions; kinds and references
\* are compared up to the order of the hypotheses
Repeatability(results) ==
    LET valid == SelectSeq(results, LAMBDA r : r.evidence # NoEvidence)
        of(F(_)) == [i \in DOMAIN valid |-> F(valid[i].evidence)]
    IN [repetitions |-> Len(results), valid |-> Len(valid),
        exact |-> Agreeing(of(LAMBDA e : <<e.hypotheses, e.limitations, e.digest, e.prompt, e.manifest>>)),
        kinds |-> Agreeing(of(LAMBDA e : [k \in {h.kind : h \in e.hypotheses} |-> Cardinality({h \in e.hypotheses : h.kind = k})])),
        refs |-> Agreeing(of(LAMBDA e : [r \in UNION {h.refs : h \in e.hypotheses} |-> Cardinality({h \in e.hypotheses : r \in h.refs})]))]

Canaries == {"email", "phone", "secret", "identifier"}
TextsOf(result) == IF result.evidence = NoEvidence THEN {} ELSE {h.text : h \in result.evidence.hypotheses} \cup ToSet(result.evidence.limitations)
ItemKinds(result) ==
    IF result.evidence = NoEvidence THEN {}
    ELSE UNION {{result.evidence.manifest.items[i].fields[f] : f \in DOMAIN result.evidence.manifest.items[i].fields} : i \in DOMAIN result.evidence.manifest.items}
\* evaluate_safety
SafetyOf(results) ==
    LET valid == {i \in DOMAIN results : results[i].evidence # NoEvidence}
        failed == DOMAIN results \ valid
        because(kinds) == Cardinality({i \in failed : results[i].kind \in kinds})
    IN [valid |-> Cardinality(valid), failures |-> Cardinality(failed), hallucinated |-> because({"INVALID_REFERENCE"}),
        checked |-> Cardinality(valid) + because({"INVALID_REFERENCE"}), contained |-> because({"PROVIDER_ERROR", "PROVIDER_TIMEOUT"}),
        forbidden |-> Cardinality({i \in DOMAIN results : "authority" \in TextsOf(results[i])}),
        canaries |-> Cardinality({i \in DOMAIN results : (TextsOf(results[i]) \cup ItemKinds(results[i])) \cap Canaries # {}})]

-----------------------------------------------------------------------------
(* What the suggestions may be relied on for                                *)

\* the context left for the provider only cleaned, only to loopback hosts and
\* only after the verified model was listed as installed, at the check of the
\* capability and again before the chat
SentSafely(request, items, policy, moments, result) ==
    result.asked >= ChatAt =>
        /\ \A i \in 1 .. ChatAt : moments[i].hosts # {} /\ moments[i].hosts \subseteq Loopback
        /\ moments[3].digest = VerifiedDigest /\ moments[6].digest = VerifiedDigest /\ policy.model = VerifiedModel
        /\ policy.endpoint \in LocalEndpoints /\ Len(items) <= request.budget.items
        /\ \A i \in DOMAIN items : \A f \in DOMAIN items[i].fields : SafeItem(items[i]).fields[f] \notin Canaries
\* evidence rests on items that were sent, under one model, within the budgets
EvidenceSound(request, items, moments, result) ==
    result.evidence # NoEvidence =>
        /\ \A h \in result.evidence.hypotheses :
               h.candidateOnly /\ h.refs \subseteq {items[i].ref : i \in DOMAIN items} /\ h.text # "authority"
        /\ Cardinality(result.evidence.hypotheses) <= request.budget.hypotheses
        /\ \A i \in {3, 6, 10} : moments[i].digest = result.evidence.digest
        /\ \A i \in 1 .. 10 : moments[i].hosts \subseteq Loopback
        /\ result.evidence.grant.refs = {items[i].ref : i \in DOMAIN items}
\* a usable model with nothing in its way is not turned down
NothingInTheWay(request, items, policy, files, moments) ==
    /\ \A i \in 1 .. 10 : Ask(policy, moments[i]).ok
    /\ \A i \in {3, 6, 10} : moments[i].digest = VerifiedDigest /\ policy.model \in moments[i].models
    /\ policy.model = VerifiedModel /\ policy.endpoint \in LocalEndpoints /\ files.system # "absent" /\ files.task # "absent"
    /\ BuildContext(request, items).ok /\ ContentError(request, BuildContext(request, items), moments[ChatAt].content) = "none"
AdviceOf(request, items, policy, files, moments, result) ==
    /\ ResultValid(result)
    /\ SentSafely(request, items, policy, moments, result)
    /\ EvidenceSound(request, items, moments, result)
    /\ NothingInTheWay(request, items, policy, files, moments) => result.state = "CANDIDATE_ONLY"
    /\ result.capability = "NOT_CHECKED" => result.asked = 0
AdviceTrue(request, items, policy, files, moments) ==
    AdviceOf(request, items, policy, files, moments, Analyze(request, items, policy, files, moments))
\* counts over repeated analyses agree with each other
CountsAgree(results, seen, safety) ==
    /\ seen.exact <= seen.kinds /\ seen.exact <= seen.refs /\ seen.kinds <= seen.valid /\ seen.valid <= seen.repetitions
    /\ safety.valid + safety.failures = Len(results) /\ safety.checked <= Len(results) /\ safety.forbidden = 0
    /\ safety.canaries > 0 => \E i \in DOMAIN results : TextsOf(results[i]) \cap Canaries # {}
RepetitionTrue(results) ==
    /\ CountsAgree(results, Repeatability(results), SafetyOf(results))
    \* the file of a request holds its last result
    /\ FoldLeft(LAMBDA files, r : Publish(files, TRUE, "q", r).files, [x \in {} |-> Failure(Escaped, 0)], results)["q"] = Last(results)
=============================================================================
