--------------------------- MODULE PrivacyPolicy ---------------------------
(***************************************************************************)
(* What may be shown, logged, exported or deleted (application/             *)
(* privacy_policy.py, domain/contracts/privacy.py).  A value is known by    *)
(* its kind: a number, an infinite float, a structured value, or a text     *)
(* that is a check status, an e-mail address, a phone number, a secret or   *)
(* anything else.  A path is the sequence of its resolved parts.            *)
(***************************************************************************)
EXTENDS Naturals, Sequences, SequencesExt

NoRule == [category |-> "none", state |-> "no rule"]
TextKinds == {"status", "email", "phone", "secret", "text"}

\* _pattern_category: only an address or a phone number is recognized.
PatternCategory(kind) ==
    CASE kind = "email" -> "EMAIL" [] kind = "phone" -> "PHONE" [] OTHER -> "none"

\* classify_field_result: an explicit rule, else a pattern, else unknown
Classify(kind, rule) ==
    IF rule # NoRule THEN rule
    ELSE IF PatternCategory(kind) # "none"
         THEN [category |-> PatternCategory(kind), state |-> "POTENTIALLY_SENSITIVE"]
         ELSE [category |-> "none", state |-> "UNKNOWN"]

\* decide_exposure
Exposure(class, context, mode, purpose) ==
    IF context = "ENTITY_RESOLUTION_LOCAL_ANALYSIS" /\ purpose = "ENTITY_RESOLUTION_LOCAL_ANALYSIS" THEN
            "RETAIN_RESTRICTED"
    ELSE IF context = "RAW_STAGING" /\ mode = "raw" THEN "RETAIN_RESTRICTED"
    ELSE IF context = "EXTERNAL_PROCESSING" THEN "BLOCK"
    ELSE IF context \in {"LOG", "DEBUG", "EXPORT", "UI_PREVIEW"} THEN "ALLOW_MASKED"
    ELSE IF class.state = "EXPLICITLY_NON_SENSITIVE" THEN "ALLOW_AGGREGATE"
    ELSE "BLOCK"

\* mask: the category decides the placeholder; only a text can be masked.
Masked(kind, category) ==
    IF kind \notin TextKinds THEN "MASKING_FAILED"
    ELSE IF category = "AUTHENTICATION_SECRET" THEN "<REDACTED_SECRET>"
    ELSE IF category = "EMAIL" /\ kind = "email" THEN "<REDACTED_EMAIL>"
    ELSE IF category = "PHONE" THEN "<REDACTED_PHONE>"
    ELSE "<REDACTED>"

\* sanitize_log_value: recognized parts are replaced; a text without one is
\* kept only where the caller trusts it.
Logged(kind, trusted) ==
    CASE kind = "email" -> "<REDACTED_EMAIL>"
      [] kind = "phone" -> "<REDACTED_PHONE>"
      [] kind = "secret" -> "<REDACTED_SECRET>"
      [] kind \in {"status", "text"} -> IF trusted THEN kind ELSE "<REDACTED_UNKNOWN>"
      [] OTHER -> kind

\* classify_artifact: no artifact may be logged, exported or sent away, and
\* only raw staging keeps raw values.
ArtifactExposure(type) ==
    [raw |-> type \in {"raw_staging", "raw", "source_snapshot"}, log |-> FALSE, export |-> FALSE, external |-> FALSE]

\* build_debug_bundle
DebugBundle(type, kinds) ==
    IF ArtifactExposure(type).raw THEN {} ELSE {Logged(k, FALSE) : k \in kinds}

\* prepare_external_payload: a payload maps names (aggregate or not) to kinds.
ExternalAllowed(aggregateOnly, payload) ==
    aggregateOnly /\ \A f \in payload : f.metric \/ (f.aggregateName /\ f.kind \in {"number", "infinite"})

\* cleanup_ephemeral: what is deleted, or the refusal.  owned is the
\* project's privacy directory.
Protected == {"src", "source", "staging", "code", ".git"}
Cleanup(target, root, owned, exists) ==
    IF ~IsPrefix(owned, root) THEN "refused"
    ELSE IF ToSet(root) \cap Protected # {} THEN "refused"
    ELSE IF ~IsPrefix(root, target) THEN "refused"
    ELSE IF target \notin exists THEN "absent"
    ELSE IF target = root THEN "refused"
    ELSE "deleted"

\* scan_values
ScanClean(kinds, rule, rawStaging) ==
    rawStaging \/ \A k \in kinds : Classify(k, rule).state = "EXPLICITLY_NON_SENSITIVE"

\* No text of a source leaves in a log, a bundle or a payload, whatever it is
\* classified as, and a scan that finds nothing found only what a rule allows.
NothingLeaks(kinds, rule, context, purpose, type) ==
    /\ context \in {"LOG", "DEBUG", "EXPORT", "UI_PREVIEW"} => Exposure(Classify("email", rule), context, "raw", purpose) = "ALLOW_MASKED"
    /\ context = "EXTERNAL_PROCESSING" => \A k \in kinds, mode \in {"raw", "masked"} : Exposure(Classify(k, rule), context, mode, purpose) = "BLOCK"
    /\ DebugBundle(type, kinds) \cap TextKinds = {}
    /\ \A aggregate \in BOOLEAN : ExternalAllowed(aggregate, {[metric |-> FALSE, aggregateName |-> TRUE, kind |-> k] : k \in kinds}) => kinds \cap TextKinds = {}
    /\ ScanClean(kinds, rule, FALSE) => kinds = {} \/ rule.state = "EXPLICITLY_NON_SENSITIVE"

\* A clean-up deletes only what lies inside the directory the project owns.
CleanupInside(target, root, owned, exists) ==
    Cleanup(target, root, owned, exists) = "deleted" =>
        /\ IsStrictPrefix(owned, target) /\ target \in exists
        /\ ToSet(root) \cap Protected = {}
=============================================================================
