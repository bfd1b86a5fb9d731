----------------------------- MODULE SqlSources -----------------------------
(***************************************************************************)
(* Database sources: the guard and the authorizer every statement of a      *)
(* source session passes (application/database_security.py,                 *)
(* adapters/sources/sql/sqlite.py), the assurance a provider must earn       *)
(* before dlt may connect, the catalog built from the database's metadata   *)
(* and the bounded extraction of its tables (adapters/sources/sql/dlt_sql). *)
(*                                                                          *)
(*   statement : [words, semicolon, actions, mutates], words the keywords in *)
(*               order, actions what SQLite asks its authorizer about        *)
(*   table     : [name, kind, rows, columns, fks, indexes]; a column is      *)
(*               [name, nullable, pk], pk = 0 when not in the key            *)
(***************************************************************************)
EXTENDS Integers, Sequences, FiniteSets, SequencesExt, FiniteSetsExt, Functions

-----------------------------------------------------------------------------
(* Statements.                                                              *)

DataWrites == {"INSERT", "UPDATE", "DELETE", "MERGE", "REPLACE", "UPSERT"}
SchemaWrites == {"CREATE", "ALTER", "DROP", "TRUNCATE", "REINDEX", "GRANT", "REVOKE"}
FirstWord(words) == IF words = <<>> THEN "" ELSE Head(words)
Has(words, S) == \E i \in DOMAIN words : words[i] \in S
Before(words, a, b) == \E i, j \in DOMAIN words : i < j /\ words[i] = a /\ words[j] = b
Next2(words, a, S) == \E i \in 1 .. Len(words) - 1 : words[i] = a /\ words[i + 1] \in S
BeforeSelect(words) == {words[i] : i \in {k \in DOMAIN words : \A j \in 1 .. k : words[j] # "SELECT"}}

WritesData(words) ==
    \/ FirstWord(words) \in DataWrites
    \/ BeforeSelect(words) \cap DataWrites # {}
    \/ FirstWord(words) = "WITH" /\ Has(words, DataWrites)

\* classify_query: the first of these that holds, in the order the code tests
\* them; keywords are found anywhere in the text, quoted names included.
FirstOf(rules, otherwise) ==
    LET holds == {i \in DOMAIN rules : rules[i][1]}
    IN IF holds = {} THEN otherwise ELSE rules[Min(holds)][2]
Catalogs == {"SQLITE_MASTER", "INFORMATION_SCHEMA"}
QueryClass(s) ==
    LET w == s.words
        verb == FirstWord(w)
    IN FirstOf(<<
        <<w = <<>> \/ s.semicolon, "MULTI_STATEMENT">>,
        <<Has(w, {"ATTACH", "DETACH"}) \/ Next2(w, "VACUUM", {"INTO"})
              \/ Next2(w, "PRAGMA", {"WRITABLE_SCHEMA", "LOAD_EXTENSION"}), "DDL">>,
        <<Has(w, {"OUTFILE", "DUMPFILE"}) \/ Before(w, "COPY", "TO") \/ Before(w, "SELECT", "INTO"), "FILESYSTEM_EXPORT">>,
        <<verb \in {"CALL", "EXEC", "EXECUTE", "DO"} \/ Has(w, {"LOAD_EXTENSION", "XP_CMDSHELL"}), "PROCEDURE_EXECUTION">>,
        <<verb \in SchemaWrites, "DDL">>,
        <<WritesData(w), "WRITE_DML">>,
        <<verb \in {"BEGIN", "COMMIT", "ROLLBACK", "SAVEPOINT", "RELEASE"}, "TRANSACTION_CONTROL_ALLOWED">>,
        <<verb \in {"PRAGMA", "SHOW", "DESCRIBE", "DESC", "EXPLAIN"} \/ Has(w, Catalogs), "METADATA_QUERY">>,
        <<verb \in {"SELECT", "WITH"}, "READ_QUERY">> >>, "UNKNOWN")
GuardAllows(s) == QueryClass(s) \in {"READ_QUERY", "METADATA_QUERY", "TRANSACTION_CONTROL_ALLOWED"}

\* _install_sqlite_authorizer; an action is <<code, argument>>.
DeniedCodes == {"CREATE", "DELETE", "DROP", "INSERT", "UPDATE", "ALTER", "ATTACH", "DETACH", "REINDEX", "ANALYZE"}
SafePragmas == {"query_only", "busy_timeout", "foreign_keys", "table_info", "foreign_key_list", "index_list",
                "index_info", "index_xinfo", "table_xinfo", "database_list", "read_uncommitted"}
Authorized(action) ==
    /\ action[1] \notin DeniedCodes
    /\ action[1] = "PRAGMA" => action[2] \in SafePragmas
    /\ action[1] = "FUNCTION" => action[2] \notin {"load_extension", "fts3_tokenizer"}

\* The session's own statements pass the guard and the authorizer, dlt's only
\* the authorizer (SQLiteReadOnlySession._run, configure_sqlite_connection).
SessionRuns(s) == GuardAllows(s) /\ \A x \in s.actions : Authorized(x)
ConnectionRuns(s) == \A x \in s.actions : Authorized(x)

\* normalize_sqlite_failure, by what the driver's message says
FailureKind(late, said) ==
    FirstOf(<<
        <<late \/ said \cap {"interrupted", "timed out"} # {}, <<"TIMEOUT", TRUE>> >>,
        <<said \cap {"readonly", "read-only"} # {}, <<"READ_ONLY_VIOLATION", FALSE>> >>,
        <<said \cap {"not authorized", "permission"} # {}, <<"ACCESS_DENIED", FALSE>> >>,
        <<said \cap {"unable to open", "no such file"} # {}, <<"CONNECTION_FAILED", FALSE>> >>,
        <<said \cap {"locked", "busy"} # {}, <<"TIMEOUT", TRUE>> >> >>, <<"QUERY_FAILED", FALSE>>)

-----------------------------------------------------------------------------
(* Opening a SQLite file: [place, kind], place relative to the project root. *)

\* SQLiteReadOnlySource._readonly_uri and DltSqlSourceAdapter._engine; the URI
\* asks for mode=ro.
FileOpens(path) == path.place = "inside" /\ path.kind = "file"
\* _configure, configure_sqlite_connection: query_only is read back.
Configured(queryOnly) == queryOnly = 1
SessionOpens(path, queryOnly) == FileOpens(path) /\ Configured(queryOnly)

\* BoundedSampleRequest.validate_columns, SamplingPolicy, _sqlite_identifier
SampleAccepted(request) ==
    /\ request.columns # <<>> /\ "*" \notin Range(request.columns) /\ IsInjective(request.columns)
    /\ request.max > 0
    /\ request.schema \in {"", "main"}
\* sample_rows_bounded: a row is a function from columns to values
Sampled(request, rows) ==
    [i \in 1 .. Min({request.max, Len(rows)}) |->
        [k \in DOMAIN request.columns |-> rows[i][request.columns[k]]]]
\* BoundedSampleObservation.validate_observation
ObservationValid(request, sample) == Len(sample) <= request.max

-----------------------------------------------------------------------------
(* The assurance a connection needs.  A finding is <<privilege, status>>.   *)

\* _privilege_coverage_failure: every required and every forbidden privilege
\* has exactly one finding, nothing unknown is left.
Covered(need, findings) ==
    LET names == {f[1] : f \in findings}
    IN /\ names \subseteq need.required \cup need.optional \cup need.forbidden
       /\ Cardinality(names) = Cardinality(findings)
       /\ \A f \in findings : f[2] \notin {"UNKNOWN", "FORBIDDEN_PRESENT"}
       /\ \A p \in need.required : <<p, "PRESENT_REQUIRED">> \in findings
       /\ \A p \in need.forbidden : <<p, "ABSENT_FORBIDDEN">> \in findings
\* SourcePrivilegeRequirement.validate_sets
RequirementValid(need) == need.required \cap need.forbidden = {} /\ need.required \cap need.optional = {}

\* DatabaseSecurityPolicy.fail_closed; load_database_security_policy refuses
\* everything else and supplies the default requirements where none are given.
PolicyValid(policy) ==
    /\ policy.purpose = "SOURCE_READ_ONLY" /\ policy.readOnly /\ policy.assurance
    /\ {"authorizer", "query_only", "mode_ro"} \subseteq policy.sqlite
PolicyRequirements(policy, defaults) == IF policy.requirements = <<>> THEN defaults ELSE policy.requirements[1]
\* UnavailableDatabaseSecurityVerifier: what is verified without a verifier
Unavailable(source, credentials, scope) ==
    [source |-> source, version |-> credentials.version, scope |-> scope, status |-> "UNVERIFIED", findings |-> {}]

\* _verification_matches: what the verifier looked at is what will be used.
VerificationMatches(v, source, credentials, scope) ==
    v.source = source /\ v.version = credentials.version /\ v.scope = scope

\* _validate_runtime_connection_url: the driver family of the profile's engine,
\* and its host where the profile names one (ConnectionProfileReference.host)
NoHost == ""
RuntimeSchemes ==
    [POSTGRESQL |-> {"postgresql", "postgresql+psycopg"}, MYSQL |-> {"mysql", "mysql+pymysql"},
     MARIADB |-> {"mariadb", "mariadb+pymysql"}, SQLSERVER |-> {"mssql", "mssql+pyodbc"}]
UrlBound(credentials, profile) ==
    /\ credentials.scheme \in RuntimeSchemes[profile.engine] /\ credentials.host # NoHost
    /\ profile.host # NoHost => credentials.host = profile.host

\* assess_source, for SQLite and for a provider
Assessed(engine, methods, source, credentials, scope, verification, need) ==
    /\ credentials.purpose = "SOURCE_READ_ONLY"
    /\ IF engine = "SQLITE"
       THEN {"SQLITE_URI_MODE_RO", "SQLITE_QUERY_ONLY", "SQLITE_AUTHORIZE_DENY"} \subseteq methods
       ELSE /\ VerificationMatches(verification, source, credentials, scope)
            /\ verification.status = "TECHNICALLY_VERIFIED"
            /\ RequirementValid(need) /\ Covered(need, verification.findings)

\* _require_security: the credential is bound to this source before anything
\* is asked of it.
Connects(source, profile, credentials, scope, verification, need) ==
    /\ credentials.purpose = "SOURCE_READ_ONLY" /\ credentials.source = source
    /\ UrlBound(credentials, profile)
    /\ Assessed(profile.engine, {"PROVIDER_ROLE"}, source, credentials, scope, verification, need)

\* _engine, again for the connection itself
EngineOpens(path, source, profile, credentials) ==
    IF profile.engine = "SQLITE" THEN FileOpens(path)
    ELSE credentials.purpose = "SOURCE_READ_ONLY" /\ credentials.source = source /\ UrlBound(credentials, profile)

\* _validate_adapter_config: nothing that could reach dlt's callbacks
AdapterConfigValid(keys) == keys \subseteq {"schema", "include_views", "reflection_level", "resolve_foreign_keys"}

\* ConnectionProfileReference: no secret in any of its fields or options
ProfileValid(profile) == \A f \in DOMAIN profile : profile[f] \notin {"secret", "dsn"}

\* discover_source, up to the first connection
Discovers(setup, source, credentials, scope, verification, need) ==
    /\ PolicyValid(setup.policy) /\ ProfileValid(setup.profile) /\ AdapterConfigValid(setup.config)
    /\ Connects(source, setup.profile, credentials, scope, verification, PolicyRequirements(setup.policy, need))
    /\ EngineOpens([place |-> "inside", kind |-> "missing"], source, setup.profile, credentials)

-----------------------------------------------------------------------------
(* The catalog.                                                             *)

\* inspect_table_metadata, _foreign_key_constraints, _unique_constraints
KeyColumns(t) == SortSeq(SetToSeq({c \in t.columns : c.pk > 0}), LAMBDA a, b : a.pk < b.pk)
KeyNames(t) == [i \in DOMAIN KeyColumns(t) |-> KeyColumns(t)[i].name]
ForeignKeys(t) ==
    {LET parts == SortSeq(SetToSeq({r \in t.fks : r.id = id}), LAMBDA a, b : a.seq < b.seq)
     IN [type |-> "FOREIGN_KEY", columns |-> [i \in DOMAIN parts |-> parts[i].from],
         table |-> parts[1].table, to |-> [i \in DOMAIN parts |-> parts[i].to]] : id \in {r.id : r \in t.fks}}
UniqueKeys(t) == {[type |-> "UNIQUE", columns |-> x.columns] :
                     x \in {y \in t.indexes : y.unique /\ y.origin # "pk" /\ y.columns # KeyNames(t)}}
Constraints(t) ==
    {[type |-> "PRIMARY_KEY", columns |-> KeyNames(t)] : k \in {x \in {KeyNames(t)} : x # <<>>}}
    \cup {[type |-> "NOT_NULL", columns |-> <<c.name>>] : c \in {x \in t.columns : ~x.nullable}}
    \cup ForeignKeys(t) \cup UniqueKeys(t)

\* _scope: the selection's own choice, or the registry's
SqlScope(selected, configured) ==
    [included |-> IF selected.included # {} THEN selected.included ELSE configured.included,
     excluded |-> IF selected.excluded # {} THEN selected.excluded ELSE configured.excluded,
     views |-> selected.views \/ configured.views]

\* _build_catalog_from_metadata: a table named and missing refuses the whole
\* selection; an unnamed view is left out.
NamedTables(tables, scope) == (IF scope.included # {} THEN scope.included ELSE {t.name : t \in tables}) \ scope.excluded
SelectionFound(tables, scope) == NamedTables(tables, scope) \subseteq {t.name : t \in tables}
CatalogTables(tables, scope) ==
    {t \in tables : t.name \in NamedTables(tables, scope) /\ (t.kind = "view" => scope.views \/ t.name \in scope.included)}
\* discover_source for a provider: the names go to dlt, which knows no exclusion
\* and hides views unless they are asked for.
ProviderTables(tables, scope) ==
    {t \in tables : (scope.included # {} => t.name \in scope.included) /\ (t.kind = "view" => scope.views)}
\* DatabaseDeclaredConstraint.validate_foreign_key_shape
ShapeValid(constraint) == constraint.type = "FOREIGN_KEY" => Len(constraint.columns) = Len(constraint.to)
\* _normalize_constraint: a reference is resolved only within the selection
ReferencedTable(constraint, names) == IF constraint.table \in names THEN constraint.table ELSE "unresolved"

-----------------------------------------------------------------------------
(* Extraction of the tables, in catalog order.  How dlt groups the rows it  *)
(* hands over makes no difference to what is taken.                         *)

WideLimit(policy, seen) == policy.scope = "SOURCE_WIDE" /\ policy.max > 0 /\ seen >= policy.max
Quota(policy, seen) ==
    IF policy.max = 0 THEN 1000 ELSE IF policy.scope = "SOURCE_WIDE" THEN policy.max - seen ELSE policy.max

\* Mutant: a table cut at the bound of its own rows is taken for exhausted.
ExhaustedAlways(policy, seen, t) == ~WideLimit(policy, seen + Len(t.rows))
Exhausted(policy, seen, t) ==
    LET taken == Min({Len(t.rows), Quota(policy, seen)})
    IN taken = Len(t.rows) /\ ~WideLimit(policy, seen + taken)
SqlObservation(policy, seen, t) ==
    IF WideLimit(policy, seen) THEN [table |-> t.name, rows |-> <<>>, status |-> "NOT_OBSERVED"]
    ELSE LET taken == Min({Len(t.rows), Quota(policy, seen)})
         IN [table |-> t.name, rows |-> SubSeq(t.rows, 1, taken),
             status |-> IF Exhausted(policy, seen, t) THEN "FULLY_OBSERVED"
                        ELSE IF taken > 0 THEN "PARTIALLY_OBSERVED" ELSE "NOT_OBSERVED"]
SqlExtract(policy, tables) ==
    FoldLeft(LAMBDA acc, t :
                 LET o == SqlObservation(policy, acc.seen, t)
                 IN [seen |-> acc.seen + Len(o.rows), tables |-> Append(acc.tables, o)],
             [seen |-> 0, tables |-> <<>>], tables)
\* _references: by key where the table has one, else by position
SqlReference(t, i) == IF KeyNames(t) # <<>> THEN <<t.name, "key", t.rows[i]>> ELSE <<t.name, "ordinal", i>>

-----------------------------------------------------------------------------
(* What the parts promise.                                                  *)

\* No statement that runs changes the source, through the session or dlt, and
\* one the source refused as a write is not tried again.
NotRetried(said) == said \cap {"readonly", "not authorized"} # {} => ~FailureKind(FALSE, said)[2]
NeverWrites(s) == (SessionRuns(s) \/ (s.schema /\ ConnectionRuns(s))) => ~s.mutates
\* The guard alone keeps out what writes, pragmas excepted (the authorizer's).
GuardKeepsOut(s) == GuardAllows(s) /\ FirstWord(s.words) # "PRAGMA" => ~s.mutates

\* A bounded extraction takes a prefix of each table, never more than its
\* bound, says FULLY_OBSERVED only of a table it took whole, and refers to the
\* rows of a table with a key, or without one, by different references.
ExtractionTrue(policy, tables) ==
    LET taken == SqlExtract(policy, tables)
        count(k) == Len(taken.tables[k].rows)
    IN /\ Len(taken.tables) = Len(tables)
       /\ policy.max > 0 /\ policy.scope = "SOURCE_WIDE" => taken.seen <= policy.max
       /\ taken.seen = FoldSeq(LAMBDA o, n : n + Len(o.rows), 0, taken.tables)
       /\ \A k \in DOMAIN tables :
              /\ IsPrefix(taken.tables[k].rows, tables[k].rows)
              /\ policy.max > 0 => count(k) <= policy.max
              /\ taken.tables[k].status = "FULLY_OBSERVED" => count(k) = Len(tables[k].rows)
              /\ count(k) < Len(tables[k].rows) => policy.max > 0
              /\ policy.scope = "PER_TABLE" => (count(k) = Len(tables[k].rows) => taken.tables[k].status = "FULLY_OBSERVED")
              /\ Cardinality({SqlReference(tables[k], i) : i \in 1 .. count(k)}) = count(k)

\* The catalog has every table that was named, or all of them, and no more; a
\* reference leads to a table of the selection or nowhere.
CatalogTrue(tables, selected, configured) ==
    LET scope == SqlScope(selected, configured)
        chosen == CatalogTables(tables, scope)
        names == {t.name : t \in chosen}
    IN SelectionFound(tables, scope) =>
        /\ names \cap scope.excluded = {}
        /\ scope.included # {} => names = scope.included \ scope.excluded
        /\ scope.included = {} => \A t \in tables : t.kind = "table" => t \in chosen \/ t.name \in scope.excluded
        /\ \A t \in chosen : t.kind = "view" => scope.views \/ t.name \in scope.included
        /\ \A t \in chosen : \A k \in ForeignKeys(t) : ReferencedTable(k, names) \in names \cup {"unresolved"}

\* Each declared key is listed once, with its columns in the order of the key.
ConstraintsTrue(t) ==
    /\ Cardinality({c \in Constraints(t) : c.type = "PRIMARY_KEY"}) <= 1
    /\ \A c \in Constraints(t) : c.type = "UNIQUE" => c.columns # KeyNames(t)
    /\ \A k \in ForeignKeys(t), i \in 1 .. 3 :
           i \in DOMAIN k.columns => \E r \in t.fks : r.seq = i - 1 /\ r.from = k.columns[i] /\ r.to = k.to[i]
    /\ Cardinality(ForeignKeys(t)) = Cardinality({r.id : r \in t.fks})
    /\ \A k \in ForeignKeys(t) : ShapeValid(k)

\* Whatever is discovered was reached by a read-only credential verified for
\* this very source, with a driver of the profile's engine and on the host the
\* profile names (any host where it names none), holding no privilege the
\* policy forbids, with nothing in the configuration that could change what dlt
\* runs.
ConnectionEarned(setup, source, credentials, scope, verification, need, held) ==
    Discovers(setup, source, credentials, scope, verification, need)
    /\ (\A f \in verification.findings : f[2] = "ABSENT_FORBIDDEN" => f[1] \notin held)
        => /\ held \cap PolicyRequirements(setup.policy, need).forbidden = {}
           /\ credentials.source = verification.source
           /\ setup.profile.host \in {NoHost, credentials.host} /\ credentials.scheme \in RuntimeSchemes[setup.profile.engine]
           /\ "query_adapter_callback" \notin setup.config
\* Without a verifier no provider is connected to, whatever the credential.
NoVerifierNoConnection(source, profile, credentials, scope, need) ==
    ~Connects(source, profile, credentials, scope, Unavailable(source, credentials, scope), need)

\* A file outside the project, a directory or a URI is opened by neither way
\* in, and a configuration that loads leaves none of SQLite's controls out.
Confined(path, queryOnly) ==
    /\ SessionOpens(path, queryOnly) => EngineOpens(path, "db", [engine |-> "SQLITE"], {}) /\ queryOnly = 1
    /\ EngineOpens(path, "db", [engine |-> "SQLITE"], {}) => path.place = "inside"

\* A sample has the asked columns, in the asked order, of the first rows.
SampleTrue(request, rows) ==
    SampleAccepted(request) =>
        LET sample == Sampled(request, rows)
        IN /\ ObservationValid(request, sample)
           /\ \A i \in DOMAIN sample : Range(sample[i]) = {rows[i][c] : c \in Range(request.columns)}

\* A provider's catalog holds every table that was named; unlike SQLite's, it
\* also holds the ones the selection excluded.
ProviderCatalogTrue(tables, scope) ==
    LET chosen == ProviderTables(tables, scope)
    IN /\ \A t \in chosen : scope.included # {} => t.name \in scope.included
       /\ \A t \in chosen : t.kind = "view" => scope.views
       /\ \A t \in CatalogTables(tables, scope) : t.kind = "table" => t \in chosen
=============================================================================
