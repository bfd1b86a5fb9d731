--------------------------- MODULE ArtifactPlatform ---------------------------
(***************************************************************************)
(* The artifacts of a run: the content-addressed file store                *)
(* (adapters/platform/local_artifact_store.py), the tables of the control  *)
(* store that pin artifacts by hash (rows, dependencies, cache entries,    *)
(* gate evidence, staged datasets), retention cleanup and the cache and    *)
(* gate services (application/platform.py), staging                        *)
(* (adapters/platform/staging.py), and backup and restore of the control   *)
(* store (application/reliability.py).                                     *)
(*                                                                         *)
(* Callers share one LocalArtifactStore, hence its lock.  The lock does    *)
(* not cover the control store, a caller may stop between any two steps,   *)
(* and bytes may rot on disk.  A content hash stands for bytes and size.   *)
(***************************************************************************)
EXTENDS Naturals, FiniteSets

CONSTANTS
    Procs, Artifacts, Hashes, Keys,
    External,    \* artifacts registered where they lie
    Expiring,    \* artifacts whose retention class a policy lets expire
    Scenarios,   \* sets of operations that are called side by side
    Nobody,
    Budget,      \* disk_budget_bytes, in blobs
    MaxFaults    \* bound: callers stopped, bytes gone bad

VARIABLES
    ops,      \* the scenario
    record,   \* the reference file of each artifact
    blob,     \* the content-addressed files
    file,     \* the external files
    lock,     \* LocalArtifactStore._lock
    db,       \* the control store: see Database
    backup,   \* the last verified backup of it
    active,   \* the run is in an active state
    proc,
    faults

platformVars == <<ops, record, blob, file, lock, db, backup, active, proc, faults>>

NoHash == "none"
NoRecord == [type |-> "none", hash |-> NoHash, attempt |-> 0]
Manifest(attempt) == [type |-> "manifest", hash |-> NoHash, attempt |-> attempt]
Ref(h, attempt) == [type |-> "ref", hash |-> h, attempt |-> attempt]
Tombstone(rec) == [rec EXCEPT !.type = "tombstone"]

NoRow == [state |-> "ABSENT", hash |-> NoHash, attempt |-> 0]
Row(h, attempt) == [state |-> "PUBLISHED", hash |-> h, attempt |-> attempt]

NoEntry == [state |-> "ABSENT", artifact |-> Nobody, hash |-> NoHash]
Pin(a, h) == [artifact |-> a, hash |-> h]

\* The tables that hold hashes; deps are <<downstream, upstream, expected>>.
Database == [rows : [Artifacts -> [state : {"ABSENT", "PUBLISHED", "TOMBSTONED"},
                                   hash : Hashes \cup {NoHash}, attempt : Nat]],
             deps : SUBSET (Artifacts \X Artifacts \X Hashes),
             cache : [Keys -> [state : {"ABSENT", "ACTIVE", "INVALIDATED"},
                               artifact : Artifacts \cup {Nobody},
                               hash : Hashes \cup {NoHash}]],
             gate : SUBSET [artifact : Artifacts, hash : Hashes],
             staged : SUBSET [artifact : Artifacts, hash : Hashes]]

Empty == [rows |-> [a \in Artifacts |-> NoRow], deps |-> {},
          cache |-> [k \in Keys |-> NoEntry], gate |-> {}, staged |-> {}]

NoOperation == [kind |-> "none"]
Idle == [pc |-> "idle", op |-> NoOperation, todo |-> {}, pin |-> Pin(Nobody, NoHash)]

\* Operations.  needs: the upstream artifacts a publication depends on.
Publishing(a, h, attempt, needs) ==
    [kind |-> "publish", a |-> a, h |-> h, attempt |-> attempt, needs |-> needs]
Registering(a, attempt) ==
    [kind |-> "external", a |-> a, attempt |-> attempt, needs |-> {}]
Cleaning == [kind |-> "cleanup"]
Caching(k, a) == [kind |-> "cache_put", k |-> k, a |-> a]
Resolving(k) == [kind |-> "cache_get", k |-> k]
Gating(a) == [kind |-> "gate", a |-> a]
Staging(a, h, attempt) == [kind |-> "stage", a |-> a, h |-> h, attempt |-> attempt]

\* What callers ask for.  The storage mode belongs to an artifact's identity:
\* it is published into the store, or registered where it lies.
Operations ==
    [kind : {"publish"}, a : Artifacts \ External, h : Hashes, attempt : Nat,
     needs : SUBSET Artifacts]
      \cup [kind : {"external"}, a : External, attempt : Nat, needs : {{}}]
      \cup [kind : {"cleanup"}]
      \cup [kind : {"cache_put"}, k : Keys, a : Artifacts]
      \cup [kind : {"cache_get"}, k : Keys]
      \cup [kind : {"gate"}, a : Artifacts]
      \cup [kind : {"stage"}, a : Artifacts, h : Hashes, attempt : Nat]

ASSUME PlatformAssumption ==
    /\ External \subseteq Artifacts /\ Expiring \subseteq Artifacts
    /\ IsFiniteSet(Hashes) /\ NoHash \notin Hashes
    /\ Nobody \notin Procs
    /\ Budget \in Nat /\ MaxFaults \in Nat
    /\ \A requested \in Scenarios : requested \subseteq Operations

PlatformInit ==
    /\ ops \in Scenarios
    /\ record = [a \in Artifacts |-> NoRecord]
    /\ blob = [h \in Hashes |-> "absent"]
    /\ file \in [External -> Hashes]
    /\ lock = Nobody
    /\ db = Empty /\ backup = Empty
    /\ active = TRUE
    /\ proc = [p \in Procs |-> Idle]
    /\ faults = 0

-----------------------------------------------------------------------------
(* LocalArtifactStore.                                                     *)

\* verify; an artifact without a published reference raises instead.
Integrity(a) ==
    LET rec == record[a] IN
    CASE rec.type \in {"none", "manifest"} -> "UNPUBLISHED"
      [] rec.type = "tombstone" -> "NOT_CHECKED"
      [] rec.type = "ref" /\ a \in External ->
           CASE file[a] = NoHash -> "EXTERNAL_UNAVAILABLE"
             [] file[a] = rec.hash -> "VERIFIED"
             [] OTHER -> "HASH_MISMATCH"
      [] OTHER -> CASE blob[rec.hash] = "absent" -> "MISSING"
                    [] blob[rec.hash] = "good" -> "VERIFIED"
                    [] OTHER -> "HASH_MISMATCH"

Verified(a) == Integrity(a) = "VERIFIED"

\* _identity_matches: a reference belongs to the attempt that made it.
IdentityMatches(rec, attempt) == rec.attempt = attempt

\* What publish does with the record it finds under the lock.
Tombstoned(a) == record[a].type = "tombstone"
Republished(a, h, attempt) ==
    /\ record[a].type = "ref"
    /\ record[a].hash = h
    /\ IdentityMatches(record[a], attempt)
\* Mutant of Reservable: a published reference can be reserved again.
ReservableAgain(a, attempt) == record[a].type # "tombstone"

Reservable(a, attempt) ==
    \/ record[a].type = "none"
    \/ record[a].type = "manifest" /\ IdentityMatches(record[a], attempt)

\* reserve: the identity is claimed before any byte is in place.
Reserve(a, attempt) == record' = [record EXCEPT ![a] = Manifest(attempt)]

\* Mutant of WithinQuota: the blob about to be added is not counted.
WithinQuotaBefore == Cardinality({h \in Hashes : blob[h] # "absent"}) <= Budget

\* _check_quota.
WithinQuota == Cardinality({h \in Hashes : blob[h] # "absent"}) < Budget

\* Mutant of Shared: the scan for other references is left out.
SharedNever(a) == FALSE

\* _all_refs: another published reference has the same bytes.
Shared(a) ==
    \E other \in Artifacts \ {a} :
       /\ record[other].type = "ref"
       /\ record[other].hash = record[a].hash

-----------------------------------------------------------------------------
At(p, kind, pc) == proc[p].op.kind = kind /\ proc[p].pc = pc
Become(p, me) == proc' = [proc EXCEPT ![p] = me]
Goto(p, pc) == Become(p, [proc[p] EXCEPT !.pc = pc])
\* The operation ends, with its result or with an exception.
Done(p) == Become(p, Idle)

files == <<record, blob, file, lock>>
rest == <<ops, backup, active, faults>>

Call(p, op) ==
    /\ proc[p].pc = "idle"
    /\ op \in ops
    /\ Become(p, [Idle EXCEPT !.pc = "begin", !.op = op])
    /\ UNCHANGED <<files, db, rest>>

\* Mutant of PublishBegin: a reservation does not look at the tombstone.
PublishBeginOverTombstone(p) ==
    LET op == proc[p].op IN
    /\ At(p, "publish", "begin")
    /\ lock = Nobody
    /\ \/ /\ Republished(op.a, op.h, op.attempt)
          /\ Goto(p, "register")
          /\ UNCHANGED <<record, lock>>
       \/ /\ Reservable(op.a, op.attempt) \/ Tombstoned(op.a)
          /\ Reserve(op.a, op.attempt)
          /\ lock' = p
          /\ Goto(p, "blob")
    /\ UNCHANGED <<blob, file, db, rest>>

PublishBegin(p) ==
    LET op == proc[p].op IN
    /\ At(p, "publish", "begin")
    /\ lock = Nobody
    /\ \/ /\ Republished(op.a, op.h, op.attempt)
          /\ Goto(p, "register")
          /\ UNCHANGED <<record, lock>>
       \/ /\ Reservable(op.a, op.attempt)
          /\ Reserve(op.a, op.attempt)
          /\ lock' = p
          /\ Goto(p, "blob")
       \/ /\ ~Republished(op.a, op.h, op.attempt)
          /\ ~Reservable(op.a, op.attempt)
          /\ Done(p)
          /\ UNCHANGED <<record, lock>>
    /\ UNCHANGED <<blob, file, db, rest>>

\* The bytes are moved to their content address, unless they are there.  A
\* manifest that does not state its size meets the quota while it is read, even
\* if its bytes turn out to be there.
PublishBlob(p) ==
    LET h == proc[p].op.h IN
    /\ At(p, "publish", "blob")
    /\ \/ /\ blob[h] = "good"
          /\ Goto(p, "ref")
          /\ UNCHANGED <<blob, lock>>
       \/ /\ blob[h] = "absent" /\ WithinQuota
          /\ blob' = [blob EXCEPT ![h] = "good"]
          /\ Goto(p, "ref")
          /\ UNCHANGED lock
       \/ /\ blob[h] = "bad" \/ ~WithinQuota
          /\ lock' = Nobody
          /\ Done(p)
          /\ UNCHANGED blob
    /\ UNCHANGED <<record, file, db, rest>>

PublishRef(p) ==
    LET op == proc[p].op IN
    /\ At(p, "publish", "ref")
    /\ record' = [record EXCEPT ![op.a] = Ref(op.h, op.attempt)]
    /\ lock' = Nobody
    /\ Goto(p, "register")
    /\ UNCHANGED <<blob, file, db, rest>>

\* register_external: the file is hashed outside the lock.
HashExternal(p) ==
    LET a == proc[p].op.a IN
    /\ At(p, "external", "begin")
    /\ IF file[a] = NoHash THEN Done(p)
       ELSE Become(p, [proc[p] EXCEPT !.pc = "ref", !.pin = Pin(a, file[a])])
    /\ UNCHANGED <<files, db, rest>>

ExternalRef(p) ==
    LET a == proc[p].op.a
        attempt == proc[p].op.attempt
        h == proc[p].pin.hash
    IN
    /\ At(p, "external", "ref")
    /\ lock = Nobody
    /\ \/ /\ Republished(a, h, attempt)
          /\ Goto(p, "register")
          /\ UNCHANGED record
       \/ /\ record[a].type \in {"none", "manifest"}
          /\ record' = [record EXCEPT ![a] = Ref(h, attempt)]
          /\ Goto(p, "register")
       \/ /\ ~Republished(a, h, attempt)
          /\ record[a].type \in {"ref", "tombstone"}
          /\ Done(p)
          /\ UNCHANGED record
    /\ UNCHANGED <<blob, file, lock, db, rest>>

-----------------------------------------------------------------------------
(* The rows of the control store.                                          *)

Rows == db.rows
Dependents(a) == {d[1] : d \in {e \in db.deps : e[2] = a}}

\* _insert_artifact: a new row, or the same identity and bytes again.
Insertable(a, h, attempt) ==
    \/ Rows[a] = NoRow
    \/ Rows[a] = Row(h, attempt)

Inserted(a, h, attempt) == [Rows EXCEPT ![a] = Row(h, attempt)]

\* register_artifact_with_dependencies: all rows or none.
Register(p) ==
    LET op == proc[p].op
        h == record[op.a].hash
        attempt == op.attempt
    IN
    /\ proc[p].op.kind \in {"publish", "external"}
    /\ proc[p].pc = "register"
    /\ IF Insertable(op.a, h, attempt) /\ \A up \in op.needs : Rows[up] # NoRow
       THEN db' = [db EXCEPT !.rows = Inserted(op.a, h, attempt),
                             !.deps = @ \cup {<<op.a, up, Rows[up].hash>> : up \in op.needs}]
       ELSE UNCHANGED db
    /\ Done(p)
    /\ UNCHANGED <<files, rest>>

-----------------------------------------------------------------------------
(* PlatformLifecycleService: plan, then execute candidate by candidate.    *)

\* build_cleanup_plan: what the policy lets go of, if the run is not active.
Candidates ==
    {a \in Expiring \ External : /\ Rows[a].state = "PUBLISHED"
                                 /\ Dependents(a) = {}}

CleanupPlan(p) ==
    /\ At(p, "cleanup", "begin")
    /\ IF active THEN Done(p)
       ELSE \E old \in SUBSET Candidates :
               Become(p, [proc[p] EXCEPT !.pc = "check",
                             !.todo = {Pin(a, Rows[a].hash) : a \in old}])
    /\ UNCHANGED <<files, db, rest>>

\* The exact artifact of the plan, still unused, of a run at rest, in the
\* store as in its row, and intact.
MayDelete(pin) ==
    /\ Rows[pin.artifact] = Row(pin.hash, record[pin.artifact].attempt)
    /\ record[pin.artifact].type = "ref"
    /\ Dependents(pin.artifact) = {}
    /\ ~active
    /\ Verified(pin.artifact)

CleanupCheck(p) ==
    /\ At(p, "cleanup", "check")
    /\ \/ /\ proc[p].todo = {}
          /\ Done(p)
       \/ \E pin \in proc[p].todo :
             Become(p, [proc[p] EXCEPT
                          !.todo = @ \ {pin}, !.pin = pin,
                          !.pc = IF MayDelete(pin) THEN "delete" ELSE "check"])
    /\ UNCHANGED <<files, db, rest>>

\* delete: the permit names the bytes; the tombstone is written first.
Delete(p) ==
    LET pin == proc[p].pin IN
    /\ At(p, "cleanup", "delete")
    /\ lock = Nobody
    /\ IF /\ record[pin.artifact].type = "ref"
          /\ record[pin.artifact].hash = pin.hash
          /\ Verified(pin.artifact)
       THEN /\ record' = [record EXCEPT ![pin.artifact] = Tombstone(@)]
            /\ lock' = p
            /\ Goto(p, "unlink")
       ELSE /\ Goto(p, "check")
            /\ UNCHANGED <<record, lock>>
    /\ UNCHANGED <<blob, file, db, rest>>

Unlink(p) ==
    LET pin == proc[p].pin IN
    /\ At(p, "cleanup", "unlink")
    /\ blob' = IF Shared(pin.artifact) THEN blob
               ELSE [blob EXCEPT ![pin.hash] = "absent"]
    /\ lock' = Nobody
    /\ Goto(p, "mark")
    /\ UNCHANGED <<record, file, db, rest>>

\* mark_artifact_tombstoned.
MarkTombstoned(p) ==
    LET a == proc[p].pin.artifact IN
    /\ At(p, "cleanup", "mark")
    /\ db' = IF Rows[a].state = "PUBLISHED"
             THEN [db EXCEPT !.rows[a].state = "TOMBSTONED"] ELSE db
    /\ Goto(p, "check")
    /\ UNCHANGED <<files, rest>>

-----------------------------------------------------------------------------
(* PlatformCacheService and the cache table.                               *)

Entry(k) == db.cache[k]

\* record_cache_entry: a key is bound to one output for good.
RecordCacheEntry(p) ==
    LET op == proc[p].op IN
    /\ At(p, "cache_put", "begin")
    /\ db' = IF Rows[op.a] # NoRow /\ Entry(op.k) = NoEntry
             THEN [db EXCEPT !.cache[op.k] = [state |-> "ACTIVE", artifact |-> op.a,
                                              hash |-> Rows[op.a].hash]]
             ELSE db
    /\ Done(p)
    /\ UNCHANGED <<files, rest>>

\* resolve: the entry, the row and the bytes must agree.
CacheHit(k) ==
    /\ Rows[Entry(k).artifact].hash = Entry(k).hash
    /\ Verified(Entry(k).artifact)

ResolveCache(p) ==
    LET k == proc[p].op.k IN
    /\ At(p, "cache_get", "begin")
    /\ IF Entry(k).state = "ACTIVE" /\ ~CacheHit(k)
       THEN Goto(p, "invalidate")
       ELSE Done(p)
    /\ UNCHANGED <<files, db, rest>>

InvalidateCacheEntry(p) ==
    LET k == proc[p].op.k IN
    /\ At(p, "cache_get", "invalidate")
    /\ db' = [db EXCEPT !.cache[k].state = "INVALIDATED"]
    /\ Done(p)
    /\ UNCHANGED <<files, rest>>

-----------------------------------------------------------------------------
(* GateEvidenceService: the evidence pins the bytes of the report.         *)

\* The registered reference, the stored reference and the bytes agree.
Registered(a) ==
    /\ Rows[a].state = "PUBLISHED"
    /\ record[a] = Ref(Rows[a].hash, Rows[a].attempt)
    /\ Verified(a)

RecordFromReport(p) ==
    LET a == proc[p].op.a IN
    /\ At(p, "gate", "begin")
    /\ IF Registered(a)
       THEN Become(p, [proc[p] EXCEPT !.pc = "record", !.pin = Pin(a, Rows[a].hash)])
       ELSE Done(p)
    /\ UNCHANGED <<files, db, rest>>

\* record_gate_evidence: all of it again, in the transaction that writes.
RecordGateEvidence(p) ==
    LET pin == proc[p].pin IN
    /\ At(p, "gate", "record")
    /\ db' = IF Registered(pin.artifact) /\ Rows[pin.artifact].hash = pin.hash
                /\ db.gate = {}
             THEN [db EXCEPT !.gate = {pin}] ELSE db
    /\ Done(p)
    /\ UNCHANGED <<files, rest>>

-----------------------------------------------------------------------------
(* LocalStagingStore.register_manifest for a part published before.        *)

StagePart(p) ==
    LET op == proc[p].op
        ref == Ref(op.h, op.attempt)
    IN
    /\ At(p, "stage", "begin")
    /\ IF /\ record[op.a] = ref
          /\ Verified(op.a)
          /\ Rows[op.a] \in {NoRow, Row(op.h, op.attempt)}
       THEN /\ db' = [db EXCEPT !.rows = Inserted(op.a, op.h, op.attempt)]
            /\ Goto(p, "manifest")
       ELSE /\ Done(p)
            /\ UNCHANGED db
    /\ UNCHANGED <<files, rest>>

\* record_staged_dataset: the rows are compared once more.
RecordStagedDataset(p) ==
    LET op == proc[p].op IN
    /\ At(p, "stage", "manifest")
    /\ db' = IF Rows[op.a] = Row(op.h, op.attempt)
             THEN [db EXCEPT !.staged = @ \cup {Pin(op.a, op.h)}] ELSE db
    /\ Done(p)
    /\ UNCHANGED <<files, rest>>

-----------------------------------------------------------------------------
(* The environment.                                                        *)

\* backup_control_store copies a consistent state at any time.
Backup ==
    /\ backup' = db
    /\ UNCHANGED <<ops, files, db, active, proc, faults>>

\* restore_control_store, with the runtime stopped: the tables go back in
\* time, the artifact files do not.
Restore ==
    /\ \A p \in Procs : proc[p] = Idle
    /\ db' = backup
    /\ UNCHANGED <<ops, files, backup, active, proc, faults>>

RunRestsOrResumes ==
    /\ active' = ~active
    /\ UNCHANGED <<ops, files, db, backup, proc, faults>>

Fault == faults < MaxFaults /\ faults' = faults + 1

\* An exception or the end of the process; the lock does not outlive either.
Stop(p) ==
    /\ proc[p].pc # "idle"
    /\ Fault
    /\ lock' = IF lock = p THEN Nobody ELSE lock
    /\ Done(p)
    /\ UNCHANGED <<ops, record, blob, file, db, backup, active>>

Rot(h) ==
    /\ blob[h] = "good"
    /\ Fault
    /\ blob' = [blob EXCEPT ![h] = "bad"]
    /\ UNCHANGED <<ops, record, file, lock, db, backup, active, proc>>

\* Somebody edits or removes an external file.
FileChanges(a, h) ==
    /\ Fault
    /\ file' = [file EXCEPT ![a] = h]
    /\ UNCHANGED <<ops, record, blob, lock, db, backup, active, proc>>

Step(p) ==
    \/ PublishBegin(p) \/ PublishBlob(p) \/ PublishRef(p)
    \/ HashExternal(p) \/ ExternalRef(p) \/ Register(p)
    \/ CleanupPlan(p) \/ CleanupCheck(p) \/ Delete(p) \/ Unlink(p)
    \/ MarkTombstoned(p)
    \/ RecordCacheEntry(p) \/ ResolveCache(p) \/ InvalidateCacheEntry(p)
    \/ RecordFromReport(p) \/ RecordGateEvidence(p)
    \/ StagePart(p) \/ RecordStagedDataset(p)

PlatformNext ==
    \/ \E p \in Procs : Step(p) \/ Stop(p) \/ \E op \in UNION Scenarios : Call(p, op)
    \/ Backup \/ Restore \/ RunRestsOrResumes
    \/ \E h \in Hashes : Rot(h)
    \/ \E a \in External, h \in Hashes \cup {NoHash} : FileChanges(a, h)

PlatformSpec == PlatformInit /\ [][PlatformNext]_platformVars
-----------------------------------------------------------------------------
(* Properties.                                                             *)

\* Types; the blobs stay within disk_budget_bytes, and exactly the callers
\* inside publish or delete hold the store's lock.
PlatformTypeOK ==
    /\ db \in Database /\ backup \in Database
    /\ blob \in [Hashes -> {"absent", "good", "bad"}]
    /\ Cardinality({h \in Hashes : blob[h] # "absent"}) <= Budget
    /\ lock \in Procs \cup {Nobody}
    /\ \A p \in Procs : lock = p <=> proc[p].pc \in {"blob", "unlink"}
                                     \/ At(p, "publish", "ref")

\* A published reference has its bytes: deduplication, quota, deletion of an
\* artifact that shared the content and a process that stops half way never
\* leave a reference to a blob that was not kept.
PublishedBytesExist ==
    \A a \in Artifacts \ External :
       record[a].type = "ref" => blob[record[a].hash] # "absent"

Names(d, a, h) ==
    \/ d.rows[a].hash = h
    \/ \E x \in Artifacts : <<x, a, h>> \in d.deps
    \/ \E k \in Keys : d.cache[k].artifact = a /\ d.cache[k].hash = h
    \/ Pin(a, h) \in d.gate \cup d.staged

\* Whatever names an artifact by its hash - a row, a dependency, a cache
\* entry, gate evidence, a staged dataset, in the live tables or in a backup
\* of them - names the bytes the artifact was published with, for ever: an
\* identity is not published twice with other content, also after a deletion,
\* a crash or a restore.
PinsHold ==
    \A d \in {db, backup} : \A a \in Artifacts, h \in Hashes :
       Names(d, a, h) => record[a].hash = h /\ record[a].type \in {"ref", "tombstone"}

\* A deleted artifact stays deleted: no publication, registration or restored
\* table makes it consumable again, and a row is TOMBSTONED only after the
\* store has deleted the bytes' reference.
DeletedStaysDeleted ==
    [][\A a \in Artifacts :
          /\ Tombstoned(a) => Tombstoned(a)'
          /\ Rows[a]'.state = "TOMBSTONED" => Tombstoned(a)']_platformVars
=============================================================================
