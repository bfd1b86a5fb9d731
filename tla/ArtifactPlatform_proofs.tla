----------------------- MODULE ArtifactPlatform_proofs -----------------------
(***************************************************************************)
(* Proofs about the artifact store and the tables that pin its artifacts,  *)
(* for all sets of callers, artifacts, hashes, keys and operations, any    *)
(* budget and any number of stopped callers and rotten bytes.              *)
(*                                                                         *)
(* The argument: a record only moves from nothing to a reservation, to a   *)
(* reference and to a tombstone, and keeps its hash from the reference on  *)
(* (RecordsKept).  Whoever writes a record that is not settled, or removes *)
(* a blob, holds the store's lock, and what it has checked under the lock  *)
(* still holds at its next step (CallerOK).  A table only ever takes the   *)
(* hash of a settled record.                                               *)
(***************************************************************************)
EXTENDS ArtifactPlatform, FiniteSetTheorems, TLAPS

Settled(ref) == ref.type \in {"ref", "tombstone"}
Deleted(ref) == ref.type = "tombstone"
Pins == [artifact : Artifacts \ External, hash : Hashes]

RecordType ==
    [type : {"none", "manifest", "ref", "tombstone"},
     hash : Hashes \cup {NoHash}, attempt : Nat]

Places == {"idle", "begin", "blob", "ref", "register", "check", "delete",
           "unlink", "mark", "invalidate", "record", "manifest"}

Callers ==
    [pc : Places, op : Operations \cup {NoOperation}, todo : SUBSET Pins,
     pin : [artifact : Artifacts \cup {Nobody}, hash : Hashes \cup {NoHash}]]

TypesOK ==
    /\ ops \in Scenarios
    /\ record \in [Artifacts -> RecordType]
    /\ blob \in [Hashes -> {"absent", "good", "bad"}]
    /\ file \in [External -> Hashes \cup {NoHash}]
    /\ lock \in Procs \cup {Nobody}
    /\ db \in Database /\ backup \in Database
    /\ proc \in [Procs -> Callers]

\* The steps a caller takes while it holds the lock of the store.
InStore(me) ==
    me.pc \in {"blob", "unlink"} \/ (me.op.kind = "publish" /\ me.pc = "ref")

LockOK == \A p \in Procs : lock = p <=> InStore(proc[p])

Kept(bytes) == {h \in Hashes : bytes[h] # "absent"}

RecordShape == \A a \in Artifacts : Settled(record[a]) => record[a].hash \in Hashes

\* A set of tables d is sound for the references rec.
RowsSound(d) ==
    \A a \in Artifacts : d.rows[a] = NoRow \/ d.rows[a].hash \in Hashes
PinsSound(d, rec) ==
    \A a \in Artifacts, h \in Hashes :
       Names(d, a, h) => rec[a].hash = h /\ Settled(rec[a])
TombstonesSound(d, rec) ==
    \A a \in Artifacts : d.rows[a].state = "TOMBSTONED" => Deleted(rec[a])
TablesOK(d, rec) == RowsSound(d) /\ PinsSound(d, rec) /\ TombstonesSound(d, rec)

\* What a caller has made sure of, at the step that relies on it.
CallerOK(me, rec, bytes) ==
    /\ me.op.kind = "publish" /\ me.pc \in {"blob", "ref"} =>
          rec[me.op.a].type = "manifest"
    /\ me.op.kind = "publish" /\ me.pc = "ref" => bytes[me.op.h] # "absent"
    /\ me.op.kind \in {"publish", "external"} /\ me.pc = "register" =>
          Settled(rec[me.op.a])
    /\ me.op.kind = "external" /\ me.pc = "ref" => me.pin.hash \in Hashes
    /\ me.op.kind = "cleanup" /\ me.pc \in {"delete", "unlink", "mark"} =>
          me.pin \in Pins
    /\ me.op.kind = "cleanup" /\ me.pc \in {"unlink", "mark"} =>
          Deleted(rec[me.pin.artifact])
    /\ me.op.kind = "cleanup" /\ me.pc = "unlink" =>
          rec[me.pin.artifact].hash = me.pin.hash
    /\ me.op.kind = "gate" /\ me.pc = "record" =>
          me.pin \in [artifact : Artifacts, hash : Hashes]

PlatformInv ==
    /\ TypesOK
    /\ LockOK
    /\ Cardinality(Kept(blob)) <= Budget
    /\ RecordShape
    /\ PublishedBytesExist
    /\ TablesOK(db, record) /\ TablesOK(backup, record)
    /\ \A p \in Procs : CallerOK(proc[p], record, blob)

\* The only ways a record changes once it is a reference.
RecordsKept(rec, rec2) ==
    \A a \in Artifacts :
       /\ Settled(rec[a]) => Settled(rec2[a]) /\ rec2[a].hash = rec[a].hash
       /\ Deleted(rec[a]) => Deleted(rec2[a])

-----------------------------------------------------------------------------
(* Operators.                                                              *)

\* The fields an operation has, by its kind.
LEMMA OperationFields ==
    ASSUME NEW op \in Operations \cup {NoOperation}
    PROVE  /\ op.kind = "publish" =>
                 /\ op.a \in Artifacts \ External /\ op.h \in Hashes
                 /\ op.attempt \in Nat /\ op.needs \subseteq Artifacts
           /\ op.kind = "external" =>
                 op.a \in External /\ op.attempt \in Nat /\ op.needs = {}
           /\ op.kind = "cache_put" => op.k \in Keys /\ op.a \in Artifacts
           /\ op.kind = "cache_get" => op.k \in Keys
           /\ op.kind = "gate" => op.a \in Artifacts
           /\ op.kind = "stage" =>
                 op.a \in Artifacts /\ op.h \in Hashes /\ op.attempt \in Nat
  BY DEF Operations, NoOperation

\* Tables stay sound while settled records keep their hash.
LEMMA TablesStable ==
    ASSUME NEW d, NEW rec, NEW rec2, TablesOK(d, rec), RecordsKept(rec, rec2)
    PROVE  TablesOK(d, rec2)
  BY DEF TablesOK, RowsSound, PinsSound, TombstonesSound, RecordsKept

\* What a caller relies on survives the steps of the others: only while it
\* holds the lock does it rely on more than settled records.
LEMMA CallerStable ==
    ASSUME NEW me \in Callers, NEW rec, NEW rec2, NEW bytes, NEW bytes2,
           CallerOK(me, rec, bytes), RecordsKept(rec, rec2),
           InStore(me) => /\ rec2 = rec
                          /\ \A h \in Hashes : bytes2[h] = "absent" => bytes[h] = "absent"
    PROVE  CallerOK(me, rec2, bytes2)
  <1> me.op \in Operations \cup {NoOperation}
    BY DEF Callers
  <1>1. me.op.kind = "publish" => me.op.a \in Artifacts /\ me.op.h \in Hashes
    BY OperationFields
  <1>2. me.op.kind = "external" => me.op.a \in Artifacts
    BY OperationFields, PlatformAssumption
  <1>3. QED
    BY <1>1, <1>2 DEF CallerOK, RecordsKept, InStore, Pins

\* Fewer blobs stay within the budget.
LEMMA FewerBlobs ==
    ASSUME NEW bytes, NEW bytes2, Cardinality(Kept(bytes)) <= Budget,
           Kept(bytes2) \subseteq Kept(bytes)
    PROVE  Cardinality(Kept(bytes2)) <= Budget
  <1>1. IsFiniteSet(Kept(bytes))
    BY FS_Subset, PlatformAssumption DEF Kept
  <1>2. /\ Cardinality(Kept(bytes2)) <= Cardinality(Kept(bytes))
        /\ Cardinality(Kept(bytes2)) \in Nat /\ Cardinality(Kept(bytes)) \in Nat
    BY <1>1, FS_Subset, FS_CardinalityType
  <1>3. QED
    BY <1>2, PlatformAssumption

\* One more blob than a store that is below its budget.
LEMMA OneMoreBlob ==
    ASSUME NEW bytes, NEW bytes2, Cardinality(Kept(bytes)) < Budget,
           NEW h \in Hashes, Kept(bytes2) = Kept(bytes) \cup {h}
    PROVE  Cardinality(Kept(bytes2)) <= Budget
  <1>1. IsFiniteSet(Kept(bytes))
    BY FS_Subset, PlatformAssumption DEF Kept
  <1>2. /\ Cardinality(Kept(bytes2)) <= Cardinality(Kept(bytes)) + 1
        /\ Cardinality(Kept(bytes2)) \in Nat /\ Cardinality(Kept(bytes)) \in Nat
    BY <1>1, FS_AddElement, FS_CardinalityType
  <1>3. QED
    BY <1>2, PlatformAssumption

-----------------------------------------------------------------------------
(* A step of one caller.                                                   *)

\* The lock is kept as it is, taken, or released.
LockMoves(p, me) ==
    \/ lock' = lock /\ (InStore(me) <=> InStore(proc[p]))
    \/ lock = Nobody /\ lock' = p /\ InStore(me)
    \/ lock = p /\ lock' = Nobody /\ ~InStore(me)

\* Whoever changes a record or removes a blob is alone in the store.
AloneInStore(p) ==
    \/ /\ record' = record
       /\ \A h \in Hashes : blob'[h] = "absent" => blob[h] = "absent"
    \/ lock \in {p, Nobody}

\* Only one caller is in the store, and none without the lock.
LEMMA OneInStore ==
    ASSUME PlatformInv, NEW p \in Procs, NEW q \in Procs \ {p}, InStore(proc[q])
    PROVE  lock = q /\ lock # p /\ lock # Nobody
  BY PlatformAssumption DEF PlatformInv, LockOK

\* The lock follows the callers.
LEMMA LockStep ==
    ASSUME PlatformInv, NEW p \in Procs, NEW me,
           proc' = [proc EXCEPT ![p] = me], LockMoves(p, me)
    PROVE  LockOK'
  <1> SUFFICES ASSUME NEW q \in Procs PROVE lock' = q <=> InStore(proc'[q])
    BY DEF LockOK
  <1>1. proc'[p] = me /\ \A r \in Procs \ {p} : proc'[r] = proc[r]
    BY DEF PlatformInv, TypesOK
  <1>2. lock = p <=> InStore(proc[p])
    BY DEF PlatformInv, LockOK
  <1>3. lock = q <=> InStore(proc[q])
    BY DEF PlatformInv, LockOK
  <1>4. CASE q = p
    BY <1>1, <1>2, <1>4, PlatformAssumption DEF LockMoves
  <1>5. CASE q # p
    BY <1>1, <1>3, <1>5, PlatformAssumption DEF LockMoves
  <1>6. QED
    BY <1>4, <1>5

\* What the invariant needs of a step of caller p that leaves it as me.
LEMMA CallerStep ==
    ASSUME PlatformInv, NEW p \in Procs, NEW me \in Callers,
           proc' = [proc EXCEPT ![p] = me], LockMoves(p, me), AloneInStore(p),
           UNCHANGED <<ops, file, backup>>,
           record' \in [Artifacts -> RecordType], RecordsKept(record, record'),
           RecordShape', PublishedBytesExist',
           blob' \in [Hashes -> {"absent", "good", "bad"}],
           Cardinality(Kept(blob')) <= Budget,
           db' \in Database, TablesOK(db', record'),
           CallerOK(me, record', blob')
    PROVE  PlatformInv'
  <1>1. TypesOK'
    <2>1. lock' \in Procs \cup {Nobody}
      BY DEF LockMoves, PlatformInv, TypesOK
    <2>2. proc' \in [Procs -> Callers]
      BY DEF PlatformInv, TypesOK
    <2>3. QED
      BY <2>1, <2>2 DEF PlatformInv, TypesOK
  <1>2. LockOK'
    BY LockStep
  <1>3. TablesOK(backup', record')
    BY TablesStable DEF PlatformInv
  <1>4. ASSUME NEW q \in Procs PROVE CallerOK(proc'[q], record', blob')
    <2>1. CASE q = p
      BY <2>1 DEF PlatformInv, TypesOK
    <2>2. CASE q # p
      <3>1. proc'[q] = proc[q] /\ proc[q] \in Callers
        BY <2>2 DEF PlatformInv, TypesOK
      <3>2. CallerOK(proc[q], record, blob)
        BY DEF PlatformInv
      <3>3. InStore(proc[q]) =>
               /\ record' = record
               /\ \A h \in Hashes : blob'[h] = "absent" => blob[h] = "absent"
        BY <2>2, OneInStore DEF AloneInStore
      <3>4. CallerOK(proc[q], record', blob')
        BY <3>1, <3>2, <3>3, CallerStable
      <3>5. QED
        BY <3>1, <3>4
    <2>3. QED
      BY <2>1, <2>2
  <1>5. QED
    BY <1>1, <1>2, <1>3, <1>4 DEF PlatformInv

\* A step that writes tables, or nothing, and no file.
LEMMA TableStep ==
    ASSUME PlatformInv, NEW p \in Procs, NEW me \in Callers,
           proc' = [proc EXCEPT ![p] = me], ~InStore(me), ~InStore(proc[p]),
           UNCHANGED <<files, rest>>,
           db' \in Database, TablesOK(db', record), CallerOK(me, record, blob)
    PROVE  PlatformInv'
  <1>1. LockMoves(p, me) /\ AloneInStore(p)
    BY DEF LockMoves, AloneInStore, files
  <1>2. UNCHANGED <<ops, file, backup, record, blob>>
    BY DEF files, rest
  <1>3. RecordsKept(record, record')
    BY <1>2 DEF RecordsKept
  <1>4. /\ record' \in [Artifacts -> RecordType]
        /\ blob' \in [Hashes -> {"absent", "good", "bad"}]
        /\ Cardinality(Kept(blob')) <= Budget
    BY <1>2 DEF PlatformInv, TypesOK
  <1>5. RecordShape' /\ PublishedBytesExist'
    BY <1>2 DEF PlatformInv, RecordShape, PublishedBytesExist
  <1>6. QED
    BY <1>1, <1>2, <1>3, <1>4, <1>5, CallerStep

\* A step that only reads.
LEMMA ReadStep ==
    ASSUME PlatformInv, NEW p \in Procs, NEW me \in Callers,
           proc' = [proc EXCEPT ![p] = me], ~InStore(me), ~InStore(proc[p]),
           UNCHANGED <<files, db, rest>>, CallerOK(me, record, blob)
    PROVE  PlatformInv'
  <1>1. db' \in Database /\ TablesOK(db', record)
    BY DEF PlatformInv, TypesOK
  <1>2. UNCHANGED <<files, rest>>
    OBVIOUS
  <1>3. QED
    BY <1>1, <1>2, TableStep

\* A caller at rest relies on nothing.
LEMMA IdleCaller ==
    /\ Idle \in Callers
    /\ ~InStore(Idle)
    /\ \A rec, bytes : CallerOK(Idle, rec, bytes)
  <1>1. Idle \in Callers
    <2>1. Pin(Nobody, NoHash) \in [artifact : Artifacts \cup {Nobody},
                                   hash : Hashes \cup {NoHash}]
      BY DEF Pin
    <2>2. {} \in SUBSET Pins /\ NoOperation \in Operations \cup {NoOperation}
      OBVIOUS
    <2>3. "idle" \in Places
      BY DEF Places
    <2>4. QED
      BY <2>1, <2>2, <2>3 DEF Idle, Callers
  <1>2. Idle.pc = "idle"
    BY DEF Idle
  <1>3. QED
    BY <1>1, <1>2 DEF InStore, CallerOK

\* A caller that moves on keeps its operation, its plan and its pin.
LEMMA Moved ==
    ASSUME NEW me \in Callers, NEW c \in Places
    PROVE  LET next == [me EXCEPT !.pc = c] IN
           /\ next \in Callers
           /\ next.pc = c /\ next.op = me.op /\ next.pin = me.pin
           /\ next.todo = me.todo
  BY DEF Callers

\* What is known of the caller that takes a step.
LEMMA CallerFacts ==
    ASSUME PlatformInv, NEW p \in Procs
    PROVE  /\ proc[p] \in Callers
           /\ proc[p].op \in Operations \cup {NoOperation}
           /\ CallerOK(proc[p], record, blob)
           /\ lock = p <=> InStore(proc[p])
  BY DEF PlatformInv, TypesOK, Callers, LockOK

LEMMA CallStep ==
    ASSUME PlatformInv, NEW p \in Procs, NEW op, Call(p, op)
    PROVE  PlatformInv'
  <1> DEFINE me == [Idle EXCEPT !.pc = "begin", !.op = op]
  <1>1. op \in Operations
    BY PlatformAssumption DEF Call, PlatformInv, TypesOK
  <1>2. me \in Callers /\ me.pc = "begin"
    BY <1>1, IdleCaller DEF Idle, Callers, Pin, Places
  <1>3. ~InStore(me) /\ CallerOK(me, record, blob)
    BY <1>2 DEF InStore, CallerOK
  <1>4. ~InStore(proc[p])
    BY DEF Call, InStore
  <1>5. proc' = [proc EXCEPT ![p] = me] /\ UNCHANGED <<files, db, rest>>
    BY DEF Call, Become
  <1> HIDE DEF me
  <1>6. QED
    BY <1>2, <1>3, <1>4, <1>5, ReadStep

\* A caller that reads, finds nothing to do and ends.
LEMMA EndRead ==
    ASSUME PlatformInv, NEW p \in Procs, Done(p), ~InStore(proc[p]),
           UNCHANGED <<files, db, rest>>
    PROVE  PlatformInv'
  <1>1. proc' = [proc EXCEPT ![p] = Idle]
    BY DEF Done, Become
  <1>2. QED
    BY <1>1, IdleCaller, ReadStep

\* A caller that ends with a write to the tables.
LEMMA EndWrite ==
    ASSUME PlatformInv, NEW p \in Procs, Done(p), ~InStore(proc[p]),
           UNCHANGED <<files, rest>>, db' \in Database, TablesOK(db', record)
    PROVE  PlatformInv'
  <1>1. proc' = [proc EXCEPT ![p] = Idle]
    BY DEF Done, Become
  <1>2. QED
    BY <1>1, IdleCaller, TableStep

-----------------------------------------------------------------------------
(* LocalArtifactStore.                                                     *)

\* Records that are not settled may be replaced by records with a hash.
LEMMA RecordWritten ==
    ASSUME PlatformInv, NEW a \in Artifacts, NEW ref \in RecordType,
           record[a].type \in {"none", "manifest"},
           Settled(ref) => ref.hash \in Hashes,
           a \notin External /\ ref.type = "ref" => blob[ref.hash] # "absent",
           record' = [record EXCEPT ![a] = ref], blob' = blob
    PROVE  /\ record' \in [Artifacts -> RecordType]
           /\ RecordsKept(record, record')
           /\ RecordShape' /\ PublishedBytesExist'
           /\ record'[a] = ref
  <1>1. record \in [Artifacts -> RecordType] /\ record'[a] = ref
    BY DEF PlatformInv, TypesOK
  <1>2. \A b \in Artifacts \ {a} : record'[b] = record[b]
    BY <1>1
  <1>3. RecordsKept(record, record')
    BY <1>1, <1>2 DEF RecordsKept, Settled, Deleted
  <1>4. RecordShape'
    BY <1>1, <1>2 DEF PlatformInv, RecordShape
  <1>5. PublishedBytesExist'
    BY <1>1, <1>2 DEF PlatformInv, PublishedBytesExist
  <1>6. QED
    BY <1>1, <1>3, <1>4, <1>5

\* A step in the store that leaves the tables alone.
LEMMA StoreStep ==
    ASSUME PlatformInv, NEW p \in Procs, NEW me \in Callers,
           proc' = [proc EXCEPT ![p] = me], LockMoves(p, me), AloneInStore(p),
           UNCHANGED <<file, db, rest>>,
           record' \in [Artifacts -> RecordType], RecordsKept(record, record'),
           RecordShape', PublishedBytesExist',
           blob' \in [Hashes -> {"absent", "good", "bad"}],
           Cardinality(Kept(blob')) <= Budget,
           CallerOK(me, record', blob')
    PROVE  PlatformInv'
  <1>1. db' \in Database /\ TablesOK(db', record')
    BY TablesStable DEF PlatformInv, TypesOK
  <1>2. UNCHANGED <<ops, file, backup>>
    BY DEF rest
  <1>3. QED
    BY <1>1, <1>2, CallerStep

LEMMA PublishBeginStep ==
    ASSUME PlatformInv, NEW p \in Procs, PublishBegin(p)
    PROVE  PlatformInv'
  <1> DEFINE op == proc[p].op
             me(c) == [proc[p] EXCEPT !.pc = c]
  <1>1. /\ op.kind = "publish" /\ proc[p].pc = "begin" /\ lock = Nobody
        /\ UNCHANGED <<blob, file, db, rest>>
    BY DEF PublishBegin, At
  <1>2. op.a \in Artifacts \ External /\ op.h \in Hashes /\ op.attempt \in Nat
    BY <1>1, CallerFacts, OperationFields
  <1>3. ~InStore(proc[p])
    BY <1>1 DEF InStore
  <1>4. CASE Republished(op.a, op.h, op.attempt) /\ Goto(p, "register")
             /\ UNCHANGED <<record, lock>>
    <2>1. /\ me("register") \in Callers /\ me("register").pc = "register"
          /\ me("register").op = op
      BY CallerFacts, Moved DEF Places
    <2>2. ~InStore(me("register")) /\ CallerOK(me("register"), record, blob)
      BY <1>4, <1>1, <2>1 DEF InStore, CallerOK, Republished, Settled
    <2>3. proc' = [proc EXCEPT ![p] = me("register")] /\ UNCHANGED <<files, db, rest>>
      BY <1>1, <1>4 DEF Goto, Become, files
    <2> HIDE DEF me
    <2>4. QED
      BY <1>3, <2>1, <2>2, <2>3, ReadStep
  <1>5. CASE /\ Reservable(op.a, op.attempt) /\ Reserve(op.a, op.attempt)
             /\ lock' = p /\ Goto(p, "blob")
    <2>1. /\ me("blob") \in Callers /\ me("blob").pc = "blob"
          /\ me("blob").op = op
      BY CallerFacts, Moved DEF Places
    <2>2. proc' = [proc EXCEPT ![p] = me("blob")]
      BY <1>5 DEF Goto, Become
    <2>3. /\ Manifest(op.attempt) \in RecordType /\ Manifest(op.attempt).type = "manifest"
          /\ ~Settled(Manifest(op.attempt))
      BY <1>2 DEF Manifest, RecordType, Settled
    <2>4. record[op.a].type \in {"none", "manifest"}
      BY <1>5 DEF Reservable
    <2>5. /\ record' \in [Artifacts -> RecordType]
          /\ RecordsKept(record, record')
          /\ RecordShape' /\ PublishedBytesExist'
          /\ record'[op.a] = Manifest(op.attempt)
      <3>1. record' = [record EXCEPT ![op.a] = Manifest(op.attempt)]
        BY <1>5 DEF Reserve
      <3> HIDE DEF op
      <3>2. QED
        BY <1>1, <1>2, <2>3, <2>4, <3>1, RecordWritten
    <2>6. /\ blob' \in [Hashes -> {"absent", "good", "bad"}]
          /\ Cardinality(Kept(blob')) <= Budget
      BY <1>1 DEF PlatformInv, TypesOK
    <2>7. LockMoves(p, me("blob")) /\ AloneInStore(p)
      BY <1>1, <1>5, <2>1 DEF LockMoves, AloneInStore, InStore
    <2>8. CallerOK(me("blob"), record', blob')
      BY <1>1, <2>1, <2>3, <2>5 DEF CallerOK
    <2> HIDE DEF me, op
    <2>9. QED
      BY <1>1, <2>1, <2>2, <2>5, <2>6, <2>7, <2>8, StoreStep
  <1>6. CASE Done(p) /\ UNCHANGED <<record, lock>>
    <2>1. UNCHANGED <<files, db, rest>>
      BY <1>1, <1>6 DEF files
    <2>2. QED
      BY <1>3, <1>6, <2>1, EndRead
  <1>7. QED
    BY <1>4, <1>5, <1>6 DEF PublishBegin

LEMMA PublishBlobStep ==
    ASSUME PlatformInv, NEW p \in Procs, PublishBlob(p)
    PROVE  PlatformInv'
  <1> DEFINE op == proc[p].op
             me == [proc[p] EXCEPT !.pc = "ref"]
  <1>1. /\ op.kind = "publish" /\ proc[p].pc = "blob"
        /\ UNCHANGED <<record, file, db, rest>>
    BY DEF PublishBlob, At
  <1>2. op.a \in Artifacts \ External /\ op.h \in Hashes
    BY <1>1, CallerFacts, OperationFields
  <1>3. lock = p /\ InStore(proc[p])
    BY <1>1, CallerFacts DEF InStore
  <1>4. /\ record' \in [Artifacts -> RecordType] /\ RecordsKept(record, record')
        /\ RecordShape'
    BY <1>1 DEF PlatformInv, TypesOK, RecordsKept, RecordShape
  <1>5. record[op.a].type = "manifest"
    BY <1>1, CallerFacts DEF CallerOK
  <1>6. blob \in [Hashes -> {"absent", "good", "bad"}] /\ Cardinality(Kept(blob)) <= Budget
    BY DEF PlatformInv, TypesOK
  <1>7. me \in Callers /\ me.pc = "ref" /\ me.op = op
    BY CallerFacts, Moved DEF Places
  <1>8. AloneInStore(p)
    BY <1>3 DEF AloneInStore
  <1>9. CASE /\ blob'[op.h] # "absent" /\ Goto(p, "ref") /\ lock' = lock
             /\ blob' \in [Hashes -> {"absent", "good", "bad"}]
             /\ Cardinality(Kept(blob')) <= Budget
             /\ \A h \in Hashes : blob'[h] = "absent" => blob[h] = "absent"
    <2>1. PublishedBytesExist'
      BY <1>1, <1>4, <1>9 DEF PlatformInv, PublishedBytesExist, RecordShape, Settled
    <2>2. LockMoves(p, me)
      BY <1>1, <1>3, <1>7, <1>9 DEF LockMoves, InStore
    <2>3. CallerOK(me, record', blob')
      BY <1>1, <1>5, <1>7, <1>9 DEF CallerOK
    <2>4. proc' = [proc EXCEPT ![p] = me]
      BY <1>9 DEF Goto, Become
    <2> HIDE DEF me, op
    <2>5. QED
      BY <1>1, <1>4, <1>7, <1>8, <1>9, <2>1, <2>2, <2>3, <2>4, StoreStep
  <1>10. CASE lock' = Nobody /\ Done(p) /\ UNCHANGED blob
    <2>1. PublishedBytesExist'
      BY <1>1, <1>10 DEF PlatformInv, PublishedBytesExist
    <2>2. LockMoves(p, Idle)
      BY <1>3, <1>10, IdleCaller DEF LockMoves
    <2>3. Idle \in Callers /\ CallerOK(Idle, record', blob')
      BY IdleCaller
    <2>4. proc' = [proc EXCEPT ![p] = Idle]
      BY <1>10 DEF Done, Become
    <2>5. blob' \in [Hashes -> {"absent", "good", "bad"}] /\ Cardinality(Kept(blob')) <= Budget
      BY <1>6, <1>10
    <2> HIDE DEF op
    <2>6. QED
      BY <1>1, <1>4, <1>8, <2>1, <2>2, <2>3, <2>4, <2>5, StoreStep
  <1>11. CASE blob[op.h] = "good" /\ Goto(p, "ref") /\ UNCHANGED <<blob, lock>>
    BY <1>2, <1>6, <1>9, <1>11
  <1>12. CASE /\ blob[op.h] = "absent" /\ WithinQuota
              /\ blob' = [blob EXCEPT ![op.h] = "good"]
              /\ Goto(p, "ref") /\ UNCHANGED lock
    <2>1. blob' \in [Hashes -> {"absent", "good", "bad"}] /\ blob'[op.h] = "good"
      BY <1>2, <1>6, <1>12
    <2>2. \A h \in Hashes : blob'[h] = "absent" => blob[h] = "absent"
      BY <1>2, <1>6, <1>12
    <2>3. Kept(blob') = Kept(blob) \cup {op.h}
      BY <1>2, <1>6, <1>12 DEF Kept
    <2>4. Cardinality(Kept(blob)) < Budget
      BY <1>12 DEF WithinQuota, Kept
    <2>5. Cardinality(Kept(blob')) <= Budget
      BY <1>2, <2>3, <2>4, OneMoreBlob
    <2>6. QED
      BY <1>9, <1>12, <2>1, <2>2, <2>5
  <1>13. QED
    BY <1>10, <1>11, <1>12 DEF PublishBlob

LEMMA PublishRefStep ==
    ASSUME PlatformInv, NEW p \in Procs, PublishRef(p)
    PROVE  PlatformInv'
  <1> DEFINE op == proc[p].op
             me == [proc[p] EXCEPT !.pc = "register"]
             ref == Ref(op.h, op.attempt)
  <1>1. /\ op.kind = "publish" /\ proc[p].pc = "ref" /\ lock' = Nobody
        /\ record' = [record EXCEPT ![op.a] = ref]
        /\ proc' = [proc EXCEPT ![p] = me]
        /\ UNCHANGED <<blob, file, db, rest>>
    BY DEF PublishRef, At, Goto, Become
  <1>2. op.a \in Artifacts \ External /\ op.h \in Hashes /\ op.attempt \in Nat
    BY <1>1, CallerFacts, OperationFields
  <1>3. lock = p
    BY <1>1, CallerFacts DEF InStore
  <1>4. record[op.a].type = "manifest" /\ blob[op.h] # "absent"
    BY <1>1, CallerFacts DEF CallerOK
  <1>5. ref \in RecordType /\ ref.type = "ref" /\ ref.hash = op.h
    BY <1>2 DEF Ref, RecordType
  <1>6. me \in Callers /\ me.pc = "register" /\ me.op = op
    BY CallerFacts, Moved DEF Places
  <1>7. LockMoves(p, me) /\ AloneInStore(p)
    BY <1>1, <1>3, <1>6 DEF LockMoves, AloneInStore, InStore
  <1>8. /\ blob' \in [Hashes -> {"absent", "good", "bad"}]
        /\ Cardinality(Kept(blob')) <= Budget
    BY <1>1 DEF PlatformInv, TypesOK
  <1> HIDE DEF me, op, ref
  <1>9. /\ record' \in [Artifacts -> RecordType]
        /\ RecordsKept(record, record')
        /\ RecordShape' /\ PublishedBytesExist'
        /\ record'[op.a] = ref
    BY <1>1, <1>2, <1>4, <1>5, RecordWritten
  <1>10. CallerOK(me, record', blob')
    BY <1>1, <1>5, <1>6, <1>9 DEF CallerOK, Settled
  <1>11. QED
    BY <1>1, <1>6, <1>7, <1>8, <1>9, <1>10, StoreStep

LEMMA HashExternalStep ==
    ASSUME PlatformInv, NEW p \in Procs, HashExternal(p)
    PROVE  PlatformInv'
  <1> DEFINE op == proc[p].op
             me == [proc[p] EXCEPT !.pc = "ref", !.pin = Pin(op.a, file[op.a])]
  <1>1. /\ op.kind = "external" /\ proc[p].pc = "begin"
        /\ UNCHANGED <<files, db, rest>>
    BY DEF HashExternal, At
  <1>2. op.a \in External /\ op.a \in Artifacts /\ file[op.a] \in Hashes \cup {NoHash}
    BY <1>1, CallerFacts, OperationFields, PlatformAssumption DEF PlatformInv, TypesOK
  <1>3. ~InStore(proc[p])
    BY <1>1 DEF InStore
  <1>4. CASE file[op.a] = NoHash /\ Done(p)
    BY <1>1, <1>3, <1>4, EndRead
  <1>5. CASE file[op.a] # NoHash /\ proc' = [proc EXCEPT ![p] = me]
    <2>1. /\ me \in Callers /\ me.pc = "ref" /\ me.op = op
          /\ me.pin.hash = file[op.a]
      BY <1>2, CallerFacts DEF Callers, Pin, Places
    <2>2. ~InStore(me) /\ CallerOK(me, record, blob)
      BY <1>1, <1>2, <1>5, <2>1 DEF InStore, CallerOK
    <2> HIDE DEF me
    <2>3. QED
      BY <1>1, <1>3, <1>5, <2>1, <2>2, ReadStep
  <1>6. QED
    BY <1>4, <1>5 DEF HashExternal, Become

LEMMA ExternalRefStep ==
    ASSUME PlatformInv, NEW p \in Procs, ExternalRef(p)
    PROVE  PlatformInv'
  <1> DEFINE op == proc[p].op
             h == proc[p].pin.hash
             me == [proc[p] EXCEPT !.pc = "register"]
             ref == Ref(h, op.attempt)
  <1>1. /\ op.kind = "external" /\ proc[p].pc = "ref" /\ lock = Nobody
        /\ UNCHANGED <<blob, file, lock, db, rest>>
    BY DEF ExternalRef, At
  <1>2. op.a \in External /\ op.a \in Artifacts /\ op.attempt \in Nat
    BY <1>1, CallerFacts, OperationFields, PlatformAssumption
  <1>3. ~InStore(proc[p])
    BY <1>1 DEF InStore
  <1>4. h \in Hashes
    BY <1>1, CallerFacts DEF CallerOK
  <1>5. ref \in RecordType /\ ref.type = "ref" /\ ref.hash = h
    BY <1>2, <1>4 DEF Ref, RecordType
  <1>6. me \in Callers /\ me.pc = "register" /\ me.op = op
    BY CallerFacts, Moved DEF Places
  <1>7. CASE Republished(op.a, h, op.attempt) /\ Goto(p, "register") /\ UNCHANGED record
    <2>1. ~InStore(me) /\ CallerOK(me, record, blob)
      BY <1>1, <1>6, <1>7 DEF InStore, CallerOK, Republished, Settled
    <2>2. proc' = [proc EXCEPT ![p] = me] /\ UNCHANGED <<files, db, rest>>
      BY <1>1, <1>7 DEF Goto, Become, files
    <2> HIDE DEF me
    <2>3. QED
      BY <1>3, <1>6, <2>1, <2>2, ReadStep
  <1>8. CASE /\ record[op.a].type \in {"none", "manifest"}
             /\ record' = [record EXCEPT ![op.a] = ref] /\ Goto(p, "register")
    <2>1. proc' = [proc EXCEPT ![p] = me]
      BY <1>8 DEF Goto, Become
    <2>2. LockMoves(p, me) /\ AloneInStore(p)
      BY <1>1, <1>3, <1>6 DEF LockMoves, AloneInStore, InStore
    <2>3. /\ blob' \in [Hashes -> {"absent", "good", "bad"}]
          /\ Cardinality(Kept(blob')) <= Budget
      BY <1>1 DEF PlatformInv, TypesOK
    <2> HIDE DEF me, op, ref, h
    <2>4. /\ record' \in [Artifacts -> RecordType]
          /\ RecordsKept(record, record')
          /\ RecordShape' /\ PublishedBytesExist'
          /\ record'[op.a] = ref
      BY <1>1, <1>2, <1>4, <1>5, <1>8, RecordWritten
    <2>5. CallerOK(me, record', blob')
      BY <1>1, <1>5, <1>6, <2>4 DEF CallerOK, Settled
    <2>6. QED
      BY <1>1, <1>6, <2>1, <2>2, <2>3, <2>4, <2>5, StoreStep
  <1>9. CASE Done(p) /\ UNCHANGED record
    <2>1. UNCHANGED <<files, db, rest>>
      BY <1>1, <1>9 DEF files
    <2>2. QED
      BY <1>3, <1>9, <2>1, EndRead
  <1>10. QED
    BY <1>7, <1>8, <1>9 DEF ExternalRef

-----------------------------------------------------------------------------
(* Retention cleanup.                                                      *)

LEMMA CleanupPlanStep ==
    ASSUME PlatformInv, NEW p \in Procs, CleanupPlan(p)
    PROVE  PlatformInv'
  <1>1. /\ proc[p].op.kind = "cleanup" /\ proc[p].pc = "begin"
        /\ UNCHANGED <<files, db, rest>>
    BY DEF CleanupPlan, At
  <1>2. ~InStore(proc[p])
    BY <1>1 DEF InStore
  <1>3. CASE Done(p)
    BY <1>1, <1>2, <1>3, EndRead
  <1>4. ASSUME NEW old \in SUBSET Candidates,
               Become(p, [proc[p] EXCEPT !.pc = "check",
                             !.todo = {Pin(a, Rows[a].hash) : a \in old}])
        PROVE  PlatformInv'
    <2> DEFINE plan == {Pin(a, Rows[a].hash) : a \in old}
               me == [proc[p] EXCEPT !.pc = "check", !.todo = plan]
    <2>1. ASSUME NEW a \in old PROVE Pin(a, Rows[a].hash) \in Pins
      <3>1. a \in Expiring \ External /\ Rows[a].state = "PUBLISHED"
        BY DEF Candidates
      <3>2. a \in Artifacts
        BY <3>1, PlatformAssumption
      <3>3. Rows[a].hash \in Hashes
        BY <3>1, <3>2 DEF PlatformInv, TablesOK, RowsSound, Rows, NoRow
      <3>4. QED
        BY <3>1, <3>2, <3>3 DEF Pin, Pins
    <2>2. plan \in SUBSET Pins
      BY <2>1
    <2>3. /\ me \in Callers /\ me.pc = "check" /\ me.op = proc[p].op
      <3> HIDE DEF plan
      <3>1. QED
        BY <2>2, CallerFacts DEF Callers, Places
    <2>4. ~InStore(me) /\ CallerOK(me, record, blob)
      BY <1>1, <2>3 DEF InStore, CallerOK
    <2>5. proc' = [proc EXCEPT ![p] = me]
      BY <1>4 DEF Become
    <2> HIDE DEF me
    <2>6. QED
      BY <1>1, <1>2, <2>3, <2>4, <2>5, ReadStep
  <1>5. QED
    BY <1>3, <1>4 DEF CleanupPlan

LEMMA CleanupCheckStep ==
    ASSUME PlatformInv, NEW p \in Procs, CleanupCheck(p)
    PROVE  PlatformInv'
  <1>1. /\ proc[p].op.kind = "cleanup" /\ proc[p].pc = "check"
        /\ UNCHANGED <<files, db, rest>>
    BY DEF CleanupCheck, At
  <1>2. ~InStore(proc[p])
    BY <1>1 DEF InStore
  <1>3. CASE Done(p)
    BY <1>1, <1>2, <1>3, EndRead
  <1>4. ASSUME NEW pin \in proc[p].todo, NEW c \in {"delete", "check"},
               proc' = [proc EXCEPT ![p] = [proc[p] EXCEPT
                          !.todo = @ \ {pin}, !.pin = pin, !.pc = c]]
        PROVE  PlatformInv'
    <2> DEFINE me == [proc[p] EXCEPT !.todo = @ \ {pin}, !.pin = pin, !.pc = c]
    <2>1. pin \in Pins
      BY CallerFacts DEF Callers
    <2>2. me \in Callers /\ me.pc = c /\ me.op = proc[p].op /\ me.pin = pin
      BY <2>1, CallerFacts DEF Callers, Pins, Places
    <2>3. ~InStore(me) /\ CallerOK(me, record, blob)
      BY <1>1, <2>1, <2>2 DEF InStore, CallerOK
    <2> HIDE DEF me
    <2>4. QED
      BY <1>1, <1>2, <1>4, <2>2, <2>3, ReadStep DEF me
  <1>5. QED
    BY <1>3, <1>4 DEF CleanupCheck, Become

LEMMA DeleteStep ==
    ASSUME PlatformInv, NEW p \in Procs, Delete(p)
    PROVE  PlatformInv'
  <1> DEFINE pin == proc[p].pin
             a == pin.artifact
             me(c) == [proc[p] EXCEPT !.pc = c]
  <1>1. /\ proc[p].op.kind = "cleanup" /\ proc[p].pc = "delete" /\ lock = Nobody
        /\ UNCHANGED <<blob, file, db, rest>>
    BY DEF Delete, At
  <1>2. pin \in Pins /\ a \in Artifacts /\ a \notin External
    BY <1>1, CallerFacts DEF CallerOK, Pins
  <1>3. ~InStore(proc[p])
    BY <1>1 DEF InStore
  <1>4. CASE /\ record[a].type = "ref" /\ record[a].hash = pin.hash
             /\ record' = [record EXCEPT ![a] = Tombstone(@)]
             /\ lock' = p /\ Goto(p, "unlink")
    <2>1. /\ me("unlink") \in Callers /\ me("unlink").pc = "unlink"
          /\ me("unlink").op = proc[p].op /\ me("unlink").pin = pin
      BY CallerFacts, Moved DEF Places
    <2>2. proc' = [proc EXCEPT ![p] = me("unlink")]
      BY <1>4 DEF Goto, Become
    <2>3. LockMoves(p, me("unlink")) /\ AloneInStore(p)
      BY <1>1, <1>4, <2>1 DEF LockMoves, AloneInStore, InStore
    <2>4. record \in [Artifacts -> RecordType]
      BY DEF PlatformInv, TypesOK
    <2>5. /\ record'[a] = Tombstone(record[a])
          /\ \A b \in Artifacts \ {a} : record'[b] = record[b]
      BY <1>2, <1>4, <2>4
    <2>6. /\ Tombstone(record[a]) \in RecordType
          /\ Tombstone(record[a]).type = "tombstone"
          /\ Tombstone(record[a]).hash = record[a].hash
      BY <1>2, <2>4 DEF Tombstone, RecordType
    <2>7. record' \in [Artifacts -> RecordType]
      BY <1>2, <1>4, <2>4, <2>6
    <2>8. RecordsKept(record, record')
      BY <2>5, <2>6 DEF RecordsKept, Settled, Deleted
    <2>9. RecordShape'
      BY <1>2, <1>4, <2>5, <2>6 DEF PlatformInv, RecordShape, Pins
    <2>10. PublishedBytesExist'
      BY <1>1, <2>5, <2>6 DEF PlatformInv, PublishedBytesExist
    <2>11. /\ blob' \in [Hashes -> {"absent", "good", "bad"}]
           /\ Cardinality(Kept(blob')) <= Budget
      BY <1>1 DEF PlatformInv, TypesOK
    <2>12. CallerOK(me("unlink"), record', blob')
      BY <1>1, <1>2, <1>4, <2>1, <2>5, <2>6 DEF CallerOK, Deleted
    <2> HIDE DEF me, a, pin
    <2>13. QED
      BY <1>1, <2>1, <2>2, <2>3, <2>7, <2>8, <2>9, <2>10, <2>11, <2>12, StoreStep
  <1>5. CASE Goto(p, "check") /\ UNCHANGED <<record, lock>>
    <2>1. /\ me("check") \in Callers /\ me("check").pc = "check"
          /\ me("check").op = proc[p].op
      BY CallerFacts, Moved DEF Places
    <2>2. ~InStore(me("check")) /\ CallerOK(me("check"), record, blob)
      BY <1>1, <2>1 DEF InStore, CallerOK
    <2>3. proc' = [proc EXCEPT ![p] = me("check")] /\ UNCHANGED <<files, db, rest>>
      BY <1>1, <1>5 DEF Goto, Become, files
    <2> HIDE DEF me
    <2>4. QED
      BY <1>3, <2>1, <2>2, <2>3, ReadStep
  <1>6. QED
    BY <1>4, <1>5 DEF Delete

\* The blob goes only if no reference needs it, and nobody is about to write one.
LEMMA UnlinkStep ==
    ASSUME PlatformInv, NEW p \in Procs, Unlink(p)
    PROVE  PlatformInv'
  <1> DEFINE pin == proc[p].pin
             a == pin.artifact
             me == [proc[p] EXCEPT !.pc = "mark"]
  <1>1. /\ proc[p].op.kind = "cleanup" /\ proc[p].pc = "unlink" /\ lock' = Nobody
        /\ proc' = [proc EXCEPT ![p] = me]
        /\ UNCHANGED <<record, file, db, rest>>
    BY DEF Unlink, At, Goto, Become
  <1>2. /\ pin \in Pins /\ a \in Artifacts /\ pin.hash \in Hashes
        /\ Deleted(record[a]) /\ record[a].hash = pin.hash
    BY <1>1, CallerFacts DEF CallerOK, Pins
  <1>3. lock = p
    BY <1>1, CallerFacts DEF InStore
  <1>4. /\ me \in Callers /\ me.pc = "mark" /\ me.op = proc[p].op /\ me.pin = pin
    BY CallerFacts, Moved DEF Places
  <1>5. LockMoves(p, me) /\ AloneInStore(p)
    BY <1>1, <1>3, <1>4 DEF LockMoves, AloneInStore, InStore
  <1>6. /\ record' \in [Artifacts -> RecordType] /\ RecordsKept(record, record')
        /\ RecordShape'
    BY <1>1 DEF PlatformInv, TypesOK, RecordsKept, RecordShape
  <1>7. blob \in [Hashes -> {"absent", "good", "bad"}]
    BY DEF PlatformInv, TypesOK
  <1>8. \/ blob' = blob
        \/ ~Shared(a) /\ blob' = [blob EXCEPT ![pin.hash] = "absent"]
    BY DEF Unlink
  <1>9. blob' \in [Hashes -> {"absent", "good", "bad"}]
    BY <1>2, <1>7, <1>8
  <1>10. Cardinality(Kept(blob')) <= Budget
    <2>1. Kept(blob') \subseteq Kept(blob)
      BY <1>2, <1>7, <1>8 DEF Kept
    <2>2. QED
      BY <2>1, FewerBlobs DEF PlatformInv
  <1>11. PublishedBytesExist'
    <2> SUFFICES ASSUME NEW b \in Artifacts \ External, record[b].type = "ref"
                 PROVE  blob'[record[b].hash] # "absent"
      BY <1>1 DEF PublishedBytesExist
    <2>1. blob[record[b].hash] # "absent" /\ record[b].hash \in Hashes
      BY DEF PlatformInv, PublishedBytesExist, RecordShape, Settled
    <2>2. b # a
      BY <1>2 DEF Deleted
    <2>3. CASE ~Shared(a) /\ blob' = [blob EXCEPT ![pin.hash] = "absent"]
      <3>1. record[b].hash # pin.hash
        BY <1>2, <2>2, <2>3 DEF Shared
      <3>2. QED
        BY <1>7, <2>1, <2>3, <3>1
    <2>4. QED
      BY <1>8, <2>1, <2>3
  <1>12. CallerOK(me, record', blob')
    BY <1>1, <1>2, <1>4 DEF CallerOK
  <1> HIDE DEF me, a, pin
  <1>13. QED
    BY <1>1, <1>4, <1>5, <1>6, <1>9, <1>10, <1>11, <1>12, StoreStep

-----------------------------------------------------------------------------
(* The tables.                                                             *)

\* The tables have their types.
LEMMA DatabaseFields ==
    ASSUME NEW d \in Database
    PROVE  /\ d.rows \in [Artifacts -> [state : {"ABSENT", "PUBLISHED", "TOMBSTONED"},
                                        hash : Hashes \cup {NoHash}, attempt : Nat]]
           /\ d.deps \subseteq Artifacts \X Artifacts \X Hashes
           /\ d.cache \in [Keys -> [state : {"ABSENT", "ACTIVE", "INVALIDATED"},
                                    artifact : Artifacts \cup {Nobody},
                                    hash : Hashes \cup {NoHash}]]
           /\ d.gate \subseteq [artifact : Artifacts, hash : Hashes]
           /\ d.staged \subseteq [artifact : Artifacts, hash : Hashes]
  BY DEF Database

\* A row put in for a settled record, with the record's hash.
LEMMA RowInserted ==
    ASSUME PlatformInv, NEW a \in Artifacts, NEW h \in Hashes, NEW n \in Nat,
           Settled(record[a]), record[a].hash = h,
           Rows[a] = NoRow \/ Rows[a] = Row(h, n)
    PROVE  LET d == [db EXCEPT !.rows = Inserted(a, h, n)] IN
           /\ d \in Database /\ TablesOK(d, record)
  <1> DEFINE d == [db EXCEPT !.rows = Inserted(a, h, n)]
  <1>1. db \in Database
    BY DEF PlatformInv, TypesOK
  <1>2. /\ d.deps = db.deps /\ d.cache = db.cache /\ d.gate = db.gate
        /\ d.staged = db.staged /\ d.rows = [db.rows EXCEPT ![a] = Row(h, n)]
    BY <1>1 DEF Database, Inserted, Rows
  <1>3. Row(h, n) \in [state : {"ABSENT", "PUBLISHED", "TOMBSTONED"},
                       hash : Hashes \cup {NoHash}, attempt : Nat]
        /\ Row(h, n).hash = h /\ Row(h, n).state = "PUBLISHED"
    BY DEF Row
  <1>4. /\ d.rows[a] = Row(h, n)
        /\ \A b \in Artifacts \ {a} : d.rows[b] = db.rows[b]
    BY <1>1, <1>2, DatabaseFields
  <1>5. d \in Database
    <2>1. d.rows \in [Artifacts -> [state : {"ABSENT", "PUBLISHED", "TOMBSTONED"},
                                    hash : Hashes \cup {NoHash}, attempt : Nat]]
      <3> DEFINE RowType == [state : {"ABSENT", "PUBLISHED", "TOMBSTONED"},
                             hash : Hashes \cup {NoHash}, attempt : Nat]
      <3>1. db.rows \in [Artifacts -> RowType] /\ Row(h, n) \in RowType
        BY <1>1, <1>3, DatabaseFields
      <3>2. d.rows = [db.rows EXCEPT ![a] = Row(h, n)]
        BY <1>2
      <3> HIDE DEF RowType, d
      <3>3. d.rows \in [Artifacts -> RowType]
        BY <3>1, <3>2
      <3>4. QED
        BY <3>3 DEF RowType
    <2>2. d = [db EXCEPT !.rows = d.rows]
      BY <1>1 DEF Database
    <2> HIDE DEF d
    <2>3. QED
      BY <1>1, <2>1, <2>2 DEF Database
  <1>6. TablesOK(db, record)
    BY DEF PlatformInv
  <1> HIDE DEF d
  <1>7. RowsSound(d)
    BY <1>3, <1>4, <1>6 DEF TablesOK, RowsSound
  <1>8. PinsSound(d, record)
    BY <1>2, <1>3, <1>4, <1>6 DEF TablesOK, PinsSound, Names
  <1>9. TombstonesSound(d, record)
    BY <1>3, <1>4, <1>6 DEF TablesOK, TombstonesSound
  <1>10. QED
    BY <1>5, <1>7, <1>8, <1>9 DEF TablesOK, d

\* A row that is there has the hash of a settled record.
LEMMA RowOfSettled ==
    ASSUME NEW d \in Database, TablesOK(d, record), NEW a \in Artifacts,
           d.rows[a] # NoRow
    PROVE  /\ d.rows[a].hash \in Hashes
           /\ record[a].hash = d.rows[a].hash /\ Settled(record[a])
  <1>1. d.rows[a].hash \in Hashes
    BY DEF TablesOK, RowsSound
  <1>2. Names(d, a, d.rows[a].hash)
    BY DEF Names
  <1>3. QED
    BY <1>1, <1>2 DEF TablesOK, PinsSound

\* Dependencies on settled records.
LEMMA DependenciesAdded ==
    ASSUME NEW d \in Database, TablesOK(d, record),
           NEW D \in SUBSET (Artifacts \X Artifacts \X Hashes),
           \A x, a \in Artifacts, h \in Hashes :
              <<x, a, h>> \in D => record[a].hash = h /\ Settled(record[a])
    PROVE  LET e == [d EXCEPT !.deps = @ \cup D] IN
           e \in Database /\ TablesOK(e, record)
  <1> DEFINE e == [d EXCEPT !.deps = @ \cup D]
  <1>1. /\ e.deps = d.deps \cup D /\ e.rows = d.rows /\ e.cache = d.cache
        /\ e.gate = d.gate /\ e.staged = d.staged /\ e \in Database
    BY DEF Database
  <1> HIDE DEF e
  <1>2. PinsSound(e, record)
    BY <1>1 DEF TablesOK, PinsSound, Names
  <1>3. RowsSound(e) /\ TombstonesSound(e, record)
    BY <1>1 DEF TablesOK, RowsSound, TombstonesSound
  <1>4. QED
    BY <1>1, <1>2, <1>3 DEF TablesOK, e

LEMMA RegisterStep ==
    ASSUME PlatformInv, NEW p \in Procs, Register(p)
    PROVE  PlatformInv'
  <1> DEFINE op == proc[p].op
             h == record[op.a].hash
             d == [db EXCEPT !.rows = Inserted(op.a, h, op.attempt)]
             D == {<<op.a, up, Rows[up].hash>> : up \in op.needs}
  <1>1. /\ op.kind \in {"publish", "external"} /\ proc[p].pc = "register"
        /\ Done(p) /\ UNCHANGED <<files, rest>>
    BY DEF Register
  <1>2. op.a \in Artifacts /\ op.attempt \in Nat /\ op.needs \subseteq Artifacts
    BY <1>1, CallerFacts, OperationFields, PlatformAssumption
  <1>3. ~InStore(proc[p])
    BY <1>1 DEF InStore
  <1>4. Settled(record[op.a]) /\ h \in Hashes
    BY <1>1, <1>2, CallerFacts DEF CallerOK, PlatformInv, RecordShape
  <1>5. db \in Database /\ TablesOK(db, record)
    BY DEF PlatformInv, TypesOK
  <1>6. CASE /\ Insertable(op.a, h, op.attempt)
             /\ \A up \in op.needs : Rows[up] # NoRow
             /\ db' = [db EXCEPT !.rows = Inserted(op.a, h, op.attempt),
                                 !.deps = @ \cup D]
    <2>1. d \in Database /\ TablesOK(d, record)
      <3> HIDE DEF op, h
      <3>1. record[op.a].hash = h
        BY DEF h
      <3>2. QED
        BY <1>2, <1>4, <1>6, <3>1, RowInserted DEF Insertable
    <2>2. ASSUME NEW up \in op.needs
          PROVE  /\ Rows[up].hash \in Hashes
                 /\ record[up].hash = Rows[up].hash /\ Settled(record[up])
      BY <1>2, <1>5, <1>6, RowOfSettled DEF Rows
    <2>3. D \in SUBSET (Artifacts \X Artifacts \X Hashes)
      BY <1>2, <2>2
    <2>4. \A x, a \in Artifacts, k \in Hashes :
             <<x, a, k>> \in D => record[a].hash = k /\ Settled(record[a])
      BY <2>2
    <2>5. db' = [d EXCEPT !.deps = @ \cup D]
      BY <1>5, <1>6 DEF Database
    <2> HIDE DEF d, D
    <2>6. db' \in Database /\ TablesOK(db', record)
      BY <2>1, <2>3, <2>4, <2>5, DependenciesAdded
    <2>7. QED
      BY <1>1, <1>3, <2>6, EndWrite
  <1>7. CASE UNCHANGED db
    BY <1>1, <1>3, <1>5, <1>7, EndWrite
  <1>8. QED
    BY <1>6, <1>7 DEF Register

\* The row of a deleted artifact says so.
LEMMA MarkTombstonedStep ==
    ASSUME PlatformInv, NEW p \in Procs, MarkTombstoned(p)
    PROVE  PlatformInv'
  <1> DEFINE a == proc[p].pin.artifact
             me == [proc[p] EXCEPT !.pc = "check"]
             d == [db EXCEPT !.rows[a].state = "TOMBSTONED"]
  <1>1. /\ proc[p].op.kind = "cleanup" /\ proc[p].pc = "mark"
        /\ proc' = [proc EXCEPT ![p] = me] /\ UNCHANGED <<files, rest>>
    BY DEF MarkTombstoned, At, Goto, Become
  <1>2. a \in Artifacts /\ Deleted(record[a])
    BY <1>1, CallerFacts DEF CallerOK, Pins
  <1>3. me \in Callers /\ me.pc = "check" /\ me.op = proc[p].op
    BY CallerFacts, Moved DEF Places
  <1>4. ~InStore(proc[p]) /\ ~InStore(me) /\ CallerOK(me, record, blob)
    BY <1>1, <1>3 DEF InStore, CallerOK
  <1>5. db \in Database /\ TablesOK(db, record)
    BY DEF PlatformInv, TypesOK
  <1>6. Rows[a].state = "PUBLISHED" => d \in Database /\ TablesOK(d, record)
    <2> SUFFICES ASSUME Rows[a].state = "PUBLISHED"
                 PROVE  d \in Database /\ TablesOK(d, record)
      OBVIOUS
    <2> DEFINE row == [db.rows[a] EXCEPT !.state = "TOMBSTONED"]
    <2>1. /\ d.deps = db.deps /\ d.cache = db.cache /\ d.gate = db.gate
          /\ d.staged = db.staged /\ d.rows = [db.rows EXCEPT ![a] = row]
      BY <1>5 DEF Database
    <2>2. /\ row \in [state : {"ABSENT", "PUBLISHED", "TOMBSTONED"},
                      hash : Hashes \cup {NoHash}, attempt : Nat]
          /\ row.hash = db.rows[a].hash /\ row.state = "TOMBSTONED"
      BY <1>2, <1>5, DatabaseFields
    <2>3. db.rows[a].hash \in Hashes
      BY <1>2, <1>5 DEF TablesOK, RowsSound, Rows, NoRow
    <2> HIDE DEF row
    <2>4. d.rows[a] = row /\ \A b \in Artifacts \ {a} : d.rows[b] = db.rows[b]
      BY <1>2, <1>5, <2>1, DatabaseFields
    <2>5. d \in Database
      <3>1. d.rows \in [Artifacts -> [state : {"ABSENT", "PUBLISHED", "TOMBSTONED"},
                                      hash : Hashes \cup {NoHash}, attempt : Nat]]
        BY <1>2, <1>5, <2>1, <2>2, DatabaseFields
      <3>2. d = [db EXCEPT !.rows = d.rows]
        BY <1>5 DEF Database
      <3> HIDE DEF d
      <3>3. QED
        BY <1>5, <3>1, <3>2 DEF Database
    <2> HIDE DEF d, a
    <2>6. RowsSound(d)
      BY <1>5, <2>2, <2>3, <2>4 DEF TablesOK, RowsSound
    <2>7. PinsSound(d, record)
      BY <1>2, <1>5, <2>1, <2>2, <2>4 DEF TablesOK, PinsSound, Names
    <2>8. TombstonesSound(d, record)
      BY <1>2, <1>5, <2>4 DEF TablesOK, TombstonesSound
    <2>9. QED
      BY <2>5, <2>6, <2>7, <2>8 DEF TablesOK
  <1>7. db' \in Database /\ TablesOK(db', record)
    BY <1>5, <1>6 DEF MarkTombstoned
  <1> HIDE DEF me, d, a
  <1>8. QED
    BY <1>1, <1>3, <1>4, <1>7, TableStep

\* A cache entry that names the hash of a settled record, or no hash.
LEMMA CacheWritten ==
    ASSUME PlatformInv, NEW k \in Keys,
           NEW entry \in [state : {"ABSENT", "ACTIVE", "INVALIDATED"},
                          artifact : Artifacts \cup {Nobody},
                          hash : Hashes \cup {NoHash}],
           entry.artifact \in Artifacts /\ entry.hash \in Hashes =>
              /\ record[entry.artifact].hash = entry.hash
              /\ Settled(record[entry.artifact])
    PROVE  LET d == [db EXCEPT !.cache[k] = entry] IN
           d \in Database /\ TablesOK(d, record)
  <1> DEFINE d == [db EXCEPT !.cache[k] = entry]
  <1>1. db \in Database /\ TablesOK(db, record)
    BY DEF PlatformInv, TypesOK
  <1>2. /\ d.deps = db.deps /\ d.rows = db.rows /\ d.gate = db.gate
        /\ d.staged = db.staged /\ d.cache = [db.cache EXCEPT ![k] = entry]
    BY <1>1 DEF Database
  <1>3. d.cache[k] = entry /\ \A j \in Keys \ {k} : d.cache[j] = db.cache[j]
    BY <1>1, <1>2, DatabaseFields
  <1>4. d \in Database
    <2>1. d.cache \in [Keys -> [state : {"ABSENT", "ACTIVE", "INVALIDATED"},
                                artifact : Artifacts \cup {Nobody},
                                hash : Hashes \cup {NoHash}]]
      BY <1>1, <1>2, DatabaseFields
    <2>2. d = [db EXCEPT !.cache = d.cache]
      BY <1>1 DEF Database
    <2> HIDE DEF d
    <2>3. QED
      BY <1>1, <2>1, <2>2 DEF Database
  <1> HIDE DEF d
  <1>5. PinsSound(d, record)
    BY <1>1, <1>2, <1>3 DEF TablesOK, PinsSound, Names
  <1>6. RowsSound(d) /\ TombstonesSound(d, record)
    BY <1>1, <1>2 DEF TablesOK, RowsSound, TombstonesSound
  <1>7. QED
    BY <1>4, <1>5, <1>6 DEF TablesOK, d

LEMMA RecordCacheEntryStep ==
    ASSUME PlatformInv, NEW p \in Procs, RecordCacheEntry(p)
    PROVE  PlatformInv'
  <1> DEFINE op == proc[p].op
             entry == [state |-> "ACTIVE", artifact |-> op.a, hash |-> Rows[op.a].hash]
  <1>1. /\ op.kind = "cache_put" /\ proc[p].pc = "begin"
        /\ Done(p) /\ UNCHANGED <<files, rest>>
    BY DEF RecordCacheEntry, At
  <1>2. op.k \in Keys /\ op.a \in Artifacts
    BY <1>1, CallerFacts, OperationFields
  <1>3. ~InStore(proc[p])
    BY <1>1 DEF InStore
  <1>4. db \in Database /\ TablesOK(db, record)
    BY DEF PlatformInv, TypesOK
  <1>5. CASE Rows[op.a] # NoRow /\ db' = [db EXCEPT !.cache[op.k] = entry]
    <2>1. /\ Rows[op.a].hash \in Hashes
          /\ record[op.a].hash = Rows[op.a].hash /\ Settled(record[op.a])
      BY <1>2, <1>4, <1>5, RowOfSettled DEF Rows
    <2>2. /\ entry \in [state : {"ABSENT", "ACTIVE", "INVALIDATED"},
                        artifact : Artifacts \cup {Nobody}, hash : Hashes \cup {NoHash}]
          /\ entry.artifact = op.a /\ entry.hash = Rows[op.a].hash
      BY <1>2, <2>1
    <2> HIDE DEF entry, op
    <2>3. db' \in Database /\ TablesOK(db', record)
      BY <1>2, <1>5, <2>1, <2>2, CacheWritten
    <2>4. QED
      BY <1>1, <1>3, <2>3, EndWrite DEF op
  <1>6. CASE db' = db
    BY <1>1, <1>3, <1>4, <1>6, EndWrite
  <1>7. QED
    BY <1>5, <1>6 DEF RecordCacheEntry

LEMMA ResolveCacheStep ==
    ASSUME PlatformInv, NEW p \in Procs, ResolveCache(p)
    PROVE  PlatformInv'
  <1> DEFINE me == [proc[p] EXCEPT !.pc = "invalidate"]
  <1>1. /\ proc[p].op.kind = "cache_get" /\ proc[p].pc = "begin"
        /\ UNCHANGED <<files, db, rest>>
    BY DEF ResolveCache, At
  <1>2. ~InStore(proc[p])
    BY <1>1 DEF InStore
  <1>3. CASE Goto(p, "invalidate")
    <2>1. me \in Callers /\ me.pc = "invalidate" /\ me.op = proc[p].op
      BY CallerFacts, Moved DEF Places
    <2>2. ~InStore(me) /\ CallerOK(me, record, blob)
      BY <1>1, <2>1 DEF InStore, CallerOK
    <2>3. proc' = [proc EXCEPT ![p] = me]
      BY <1>3 DEF Goto, Become
    <2> HIDE DEF me
    <2>4. QED
      BY <1>1, <1>2, <2>1, <2>2, <2>3, ReadStep
  <1>4. CASE Done(p)
    BY <1>1, <1>2, <1>4, EndRead
  <1>5. QED
    BY <1>3, <1>4 DEF ResolveCache

LEMMA InvalidateStep ==
    ASSUME PlatformInv, NEW p \in Procs, InvalidateCacheEntry(p)
    PROVE  PlatformInv'
  <1> DEFINE k == proc[p].op.k
             entry == [db.cache[k] EXCEPT !.state = "INVALIDATED"]
  <1>1. /\ proc[p].op.kind = "cache_get" /\ proc[p].pc = "invalidate"
        /\ Done(p) /\ UNCHANGED <<files, rest>>
        /\ db' = [db EXCEPT !.cache[k].state = "INVALIDATED"]
    BY DEF InvalidateCacheEntry, At
  <1>2. k \in Keys
    BY <1>1, CallerFacts, OperationFields
  <1>3. ~InStore(proc[p])
    BY <1>1 DEF InStore
  <1>4. db \in Database /\ TablesOK(db, record)
    BY DEF PlatformInv, TypesOK
  <1>5. /\ entry \in [state : {"ABSENT", "ACTIVE", "INVALIDATED"},
                      artifact : Artifacts \cup {Nobody}, hash : Hashes \cup {NoHash}]
        /\ entry.artifact = db.cache[k].artifact /\ entry.hash = db.cache[k].hash
    BY <1>2, <1>4, DatabaseFields
  <1>6. db' = [db EXCEPT !.cache[k] = entry]
    BY <1>1, <1>2, <1>4
  <1>7. entry.artifact \in Artifacts /\ entry.hash \in Hashes =>
           /\ record[entry.artifact].hash = entry.hash
           /\ Settled(record[entry.artifact])
    <2> HIDE DEF entry, k
    <2>1. QED
      BY <1>2, <1>4, <1>5 DEF TablesOK, PinsSound, Names
  <1> HIDE DEF entry, k
  <1>8. db' \in Database /\ TablesOK(db', record)
    BY <1>2, <1>5, <1>6, <1>7, CacheWritten
  <1>9. QED
    BY <1>1, <1>3, <1>8, EndWrite

-----------------------------------------------------------------------------
(* Gate evidence and staged datasets.                                      *)

\* Evidence that pins a settled record.
LEMMA PinAdded ==
    ASSUME PlatformInv, NEW a \in Artifacts, NEW h \in Hashes,
           record[a].hash = h, Settled(record[a])
    PROVE  /\ [db EXCEPT !.gate = {Pin(a, h)}] \in Database
           /\ TablesOK([db EXCEPT !.gate = {Pin(a, h)}], record)
           /\ [db EXCEPT !.staged = @ \cup {Pin(a, h)}] \in Database
           /\ TablesOK([db EXCEPT !.staged = @ \cup {Pin(a, h)}], record)
  <1> DEFINE d == [db EXCEPT !.gate = {Pin(a, h)}]
             e == [db EXCEPT !.staged = @ \cup {Pin(a, h)}]
  <1>1. db \in Database /\ TablesOK(db, record)
    BY DEF PlatformInv, TypesOK
  <1>2. Pin(a, h) \in [artifact : Artifacts, hash : Hashes]
    BY DEF Pin
  <1>3. /\ d \in Database /\ d.deps = db.deps /\ d.rows = db.rows
        /\ d.cache = db.cache /\ d.staged = db.staged /\ d.gate = {Pin(a, h)}
    BY <1>1, <1>2 DEF Database
  <1>4. /\ e \in Database /\ e.deps = db.deps /\ e.rows = db.rows
        /\ e.cache = db.cache /\ e.gate = db.gate
        /\ e.staged = db.staged \cup {Pin(a, h)}
    BY <1>1, <1>2 DEF Database
  <1>5. \A b, j : Pin(b, j) = Pin(a, h) => b = a /\ j = h
    BY DEF Pin
  <1> HIDE DEF d, e
  <1>6. PinsSound(d, record)
    BY <1>1, <1>3, <1>5 DEF TablesOK, PinsSound, Names
  <1>7. PinsSound(e, record)
    BY <1>1, <1>4, <1>5 DEF TablesOK, PinsSound, Names
  <1>8. /\ RowsSound(d) /\ TombstonesSound(d, record)
        /\ RowsSound(e) /\ TombstonesSound(e, record)
    BY <1>1, <1>3, <1>4 DEF TablesOK, RowsSound, TombstonesSound
  <1>9. QED
    BY <1>3, <1>4, <1>6, <1>7, <1>8 DEF TablesOK, d, e

\* A registered artifact is settled, with the hash of its row.
LEMMA RegisteredSettled ==
    ASSUME PlatformInv, NEW a \in Artifacts, Registered(a)
    PROVE  /\ Rows[a].hash \in Hashes /\ record[a].hash = Rows[a].hash
           /\ Settled(record[a])
  <1>1. Rows[a] # NoRow
    BY DEF Registered, NoRow
  <1>2. QED
    BY <1>1, RowOfSettled DEF PlatformInv, TypesOK, Rows

LEMMA RecordFromReportStep ==
    ASSUME PlatformInv, NEW p \in Procs, RecordFromReport(p)
    PROVE  PlatformInv'
  <1> DEFINE a == proc[p].op.a
             me == [proc[p] EXCEPT !.pc = "record", !.pin = Pin(a, Rows[a].hash)]
  <1>1. /\ proc[p].op.kind = "gate" /\ proc[p].pc = "begin"
        /\ UNCHANGED <<files, db, rest>>
    BY DEF RecordFromReport, At
  <1>2. a \in Artifacts
    BY <1>1, CallerFacts, OperationFields
  <1>3. ~InStore(proc[p])
    BY <1>1 DEF InStore
  <1>4. CASE Registered(a) /\ proc' = [proc EXCEPT ![p] = me]
    <2>1. Rows[a].hash \in Hashes
      BY <1>2, <1>4, RegisteredSettled
    <2>2. /\ me \in Callers /\ me.pc = "record" /\ me.op = proc[p].op
          /\ me.pin \in [artifact : Artifacts, hash : Hashes]
      BY <1>2, <2>1, CallerFacts DEF Callers, Pin, Places
    <2>3. ~InStore(me) /\ CallerOK(me, record, blob)
      BY <1>1, <2>2 DEF InStore, CallerOK
    <2> HIDE DEF me
    <2>4. QED
      BY <1>1, <1>3, <1>4, <2>2, <2>3, ReadStep
  <1>5. CASE Done(p)
    BY <1>1, <1>3, <1>5, EndRead
  <1>6. QED
    BY <1>4, <1>5 DEF RecordFromReport, Become

LEMMA RecordGateEvidenceStep ==
    ASSUME PlatformInv, NEW p \in Procs, RecordGateEvidence(p)
    PROVE  PlatformInv'
  <1> DEFINE pin == proc[p].pin
             a == pin.artifact
  <1>1. /\ proc[p].op.kind = "gate" /\ proc[p].pc = "record"
        /\ Done(p) /\ UNCHANGED <<files, rest>>
    BY DEF RecordGateEvidence, At
  <1>2. pin \in [artifact : Artifacts, hash : Hashes]
    BY <1>1, CallerFacts DEF CallerOK
  <1>3. a \in Artifacts /\ pin = Pin(a, pin.hash)
    BY <1>2 DEF Pin
  <1>4. ~InStore(proc[p])
    BY <1>1 DEF InStore
  <1>5. CASE Registered(a) /\ Rows[a].hash = pin.hash /\ db' = [db EXCEPT !.gate = {pin}]
    <2>1. pin.hash \in Hashes /\ record[a].hash = pin.hash /\ Settled(record[a])
      BY <1>3, <1>5, RegisteredSettled
    <2> HIDE DEF pin, a
    <2>2. db' \in Database /\ TablesOK(db', record)
      BY <1>3, <1>5, <2>1, PinAdded
    <2>3. QED
      BY <1>1, <1>4, <2>2, EndWrite
  <1>6. CASE db' = db
    BY <1>1, <1>4, <1>6, EndWrite DEF PlatformInv, TypesOK
  <1>7. QED
    BY <1>5, <1>6 DEF RecordGateEvidence

LEMMA StagePartStep ==
    ASSUME PlatformInv, NEW p \in Procs, StagePart(p)
    PROVE  PlatformInv'
  <1> DEFINE op == proc[p].op
             me == [proc[p] EXCEPT !.pc = "manifest"]
  <1>1. /\ op.kind = "stage" /\ proc[p].pc = "begin" /\ UNCHANGED <<files, rest>>
    BY DEF StagePart, At
  <1>2. op.a \in Artifacts /\ op.h \in Hashes /\ op.attempt \in Nat
    BY <1>1, CallerFacts, OperationFields
  <1>3. ~InStore(proc[p])
    BY <1>1 DEF InStore
  <1>4. CASE /\ record[op.a] = Ref(op.h, op.attempt)
             /\ Rows[op.a] \in {NoRow, Row(op.h, op.attempt)}
             /\ db' = [db EXCEPT !.rows = Inserted(op.a, op.h, op.attempt)]
             /\ Goto(p, "manifest")
    <2>1. Settled(record[op.a]) /\ record[op.a].hash = op.h
      BY <1>4 DEF Settled, Ref
    <2>2. me \in Callers /\ me.pc = "manifest" /\ me.op = proc[p].op
      BY CallerFacts, Moved DEF Places
    <2>3. ~InStore(me) /\ CallerOK(me, record, blob)
      BY <1>1, <2>2 DEF InStore, CallerOK
    <2>4. proc' = [proc EXCEPT ![p] = me]
      BY <1>4 DEF Goto, Become
    <2> HIDE DEF me, op
    <2>5. db' \in Database /\ TablesOK(db', record)
      BY <1>2, <1>4, <2>1, RowInserted
    <2>6. QED
      BY <1>1, <1>3, <2>2, <2>3, <2>4, <2>5, TableStep
  <1>5. CASE Done(p) /\ UNCHANGED db
    BY <1>1, <1>3, <1>5, EndRead
  <1>6. QED
    BY <1>4, <1>5 DEF StagePart

LEMMA RecordStagedDatasetStep ==
    ASSUME PlatformInv, NEW p \in Procs, RecordStagedDataset(p)
    PROVE  PlatformInv'
  <1> DEFINE op == proc[p].op
  <1>1. /\ op.kind = "stage" /\ proc[p].pc = "manifest"
        /\ Done(p) /\ UNCHANGED <<files, rest>>
    BY DEF RecordStagedDataset, At
  <1>2. op.a \in Artifacts /\ op.h \in Hashes
    BY <1>1, CallerFacts, OperationFields
  <1>3. ~InStore(proc[p])
    BY <1>1 DEF InStore
  <1>4. CASE /\ Rows[op.a] = Row(op.h, op.attempt)
             /\ db' = [db EXCEPT !.staged = @ \cup {Pin(op.a, op.h)}]
    <2>1. db.rows[op.a] # NoRow /\ db.rows[op.a].hash = op.h
      BY <1>4 DEF Rows, Row, NoRow
    <2>2. record[op.a].hash = op.h /\ Settled(record[op.a])
      BY <1>2, <2>1, RowOfSettled DEF PlatformInv, TypesOK
    <2> HIDE DEF op
    <2>3. db' \in Database /\ TablesOK(db', record)
      BY <1>2, <1>4, <2>2, PinAdded
    <2>4. QED
      BY <1>1, <1>3, <2>3, EndWrite
  <1>5. CASE db' = db
    BY <1>1, <1>3, <1>5, EndWrite DEF PlatformInv, TypesOK
  <1>6. QED
    BY <1>4, <1>5 DEF RecordStagedDataset

-----------------------------------------------------------------------------
(* The environment.                                                        *)

LEMMA StopStep ==
    ASSUME PlatformInv, NEW p \in Procs, Stop(p)
    PROVE  PlatformInv'
  <1>1. /\ proc' = [proc EXCEPT ![p] = Idle]
        /\ UNCHANGED <<ops, record, blob, file, db, backup, active>>
    BY DEF Stop, Done, Become
  <1>2. LockMoves(p, Idle)
    BY IdleCaller, CallerFacts DEF Stop, LockMoves
  <1>3. AloneInStore(p) /\ RecordsKept(record, record') /\ RecordShape'
        /\ PublishedBytesExist'
    BY <1>1 DEF AloneInStore, RecordsKept, PlatformInv, RecordShape, PublishedBytesExist
  <1>4. /\ record' \in [Artifacts -> RecordType]
        /\ blob' \in [Hashes -> {"absent", "good", "bad"}]
        /\ Cardinality(Kept(blob')) <= Budget
        /\ db' \in Database /\ TablesOK(db', record')
    BY <1>1 DEF PlatformInv, TypesOK
  <1>5. Idle \in Callers /\ CallerOK(Idle, record', blob')
    BY IdleCaller
  <1>6. QED
    BY <1>1, <1>2, <1>3, <1>4, <1>5, CallerStep

\* A backup is as sound as the tables, and so are the restored tables,
\* because the records it names have only moved on since.
LEMMA TablesMoveStep ==
    ASSUME PlatformInv, Backup \/ Restore \/ RunRestsOrResumes
    PROVE  PlatformInv'
  <1>1. /\ UNCHANGED <<ops, record, blob, file, lock, proc>>
        /\ db' \in {db, backup} /\ backup' \in {db, backup}
    BY DEF Backup, Restore, RunRestsOrResumes, files
  <1>2. TypesOK'
    BY <1>1 DEF PlatformInv, TypesOK
  <1>3. LockOK' /\ RecordShape' /\ PublishedBytesExist'
    BY <1>1 DEF PlatformInv, LockOK, RecordShape, PublishedBytesExist
  <1>4. TablesOK(db', record') /\ TablesOK(backup', record')
    BY <1>1 DEF PlatformInv
  <1>5. \A p \in Procs : CallerOK(proc'[p], record', blob')
    BY <1>1 DEF PlatformInv
  <1>6. Cardinality(Kept(blob')) <= Budget
    BY <1>1 DEF PlatformInv
  <1>7. QED
    BY <1>2, <1>3, <1>4, <1>5, <1>6 DEF PlatformInv

LEMMA RotStep ==
    ASSUME PlatformInv, NEW h \in Hashes, Rot(h)
    PROVE  PlatformInv'
  <1>1. /\ blob[h] = "good" /\ blob' = [blob EXCEPT ![h] = "bad"]
        /\ UNCHANGED <<ops, record, file, lock, db, backup, proc>>
    BY DEF Rot
  <1>2. /\ blob' \in [Hashes -> {"absent", "good", "bad"}]
        /\ \A j \in Hashes : blob'[j] = "absent" <=> blob[j] = "absent"
    BY <1>1 DEF PlatformInv, TypesOK
  <1>3. Kept(blob') = Kept(blob)
    BY <1>2 DEF Kept
  <1>4. TypesOK' /\ LockOK' /\ RecordShape'
    BY <1>1, <1>2 DEF PlatformInv, TypesOK, LockOK, RecordShape
  <1>5. PublishedBytesExist'
    BY <1>1, <1>2 DEF PlatformInv, PublishedBytesExist, RecordShape, Settled
  <1>6. RecordsKept(record, record)
    BY DEF RecordsKept
  <1>7. ASSUME NEW p \in Procs PROVE CallerOK(proc[p], record, blob')
    BY <1>2, <1>6, CallerFacts, CallerStable
  <1>8. QED
    BY <1>1, <1>3, <1>4, <1>5, <1>7 DEF PlatformInv

LEMMA FileChangesStep ==
    ASSUME PlatformInv, NEW a \in External, NEW h \in Hashes \cup {NoHash},
           FileChanges(a, h)
    PROVE  PlatformInv'
  <1>1. /\ file' = [file EXCEPT ![a] = h]
        /\ UNCHANGED <<ops, record, blob, lock, db, backup, proc>>
    BY DEF FileChanges
  <1>2. TypesOK' /\ LockOK' /\ RecordShape' /\ PublishedBytesExist'
    BY <1>1 DEF PlatformInv, TypesOK, LockOK, RecordShape, PublishedBytesExist
  <1>3. QED
    BY <1>1, <1>2 DEF PlatformInv

-----------------------------------------------------------------------------
(* The theorems.                                                           *)

LEMMA PlatformInitially ==
    ASSUME PlatformInit
    PROVE  PlatformInv
  <1>1. /\ record = [a \in Artifacts |-> NoRecord] /\ NoRecord \in RecordType
        /\ ~Settled(NoRecord) /\ NoRecord.type # "ref" /\ NoRow.hash \notin Hashes
        /\ NoRow.state = "ABSENT" /\ NoEntry.hash \notin Hashes
    BY PlatformAssumption DEF PlatformInit, NoRecord, RecordType, Settled, NoRow, NoEntry
  <1>2. /\ Empty.rows = [a \in Artifacts |-> NoRow] /\ Empty.deps = {}
        /\ Empty.cache = [k \in Keys |-> NoEntry] /\ Empty.gate = {}
        /\ Empty.staged = {}
    BY DEF Empty
  <1>3. Empty \in Database
    <2>1. NoRow \in [state : {"ABSENT", "PUBLISHED", "TOMBSTONED"},
                     hash : Hashes \cup {NoHash}, attempt : Nat]
      BY DEF NoRow
    <2>2. NoEntry \in [state : {"ABSENT", "ACTIVE", "INVALIDATED"},
                       artifact : Artifacts \cup {Nobody}, hash : Hashes \cup {NoHash}]
      BY DEF NoEntry
    <2>3. QED
      BY <2>1, <2>2 DEF Empty, Database
  <1>4. TablesOK(Empty, record)
    BY <1>1, <1>2 DEF TablesOK, RowsSound, PinsSound, TombstonesSound, Names
  <1>5. TypesOK
    BY <1>1, <1>3, IdleCaller DEF PlatformInit, TypesOK
  <1>6. LockOK
    BY IdleCaller, PlatformAssumption DEF PlatformInit, LockOK
  <1>7. Cardinality(Kept(blob)) <= Budget
    <2>1. Kept(blob) = {}
      BY DEF Kept, PlatformInit
    <2>2. QED
      BY <2>1, FS_EmptySet, PlatformAssumption
  <1>8. RecordShape /\ PublishedBytesExist
    BY <1>1 DEF RecordShape, PublishedBytesExist
  <1>9. \A p \in Procs : CallerOK(proc[p], record, blob)
    BY IdleCaller DEF PlatformInit
  <1>10. QED
    BY <1>4, <1>5, <1>6, <1>7, <1>8, <1>9 DEF PlatformInv, PlatformInit

LEMMA PlatformStep ==
    ASSUME PlatformInv, [PlatformNext]_platformVars
    PROVE  PlatformInv'
  <1>1. ASSUME NEW p \in Procs, Step(p) PROVE PlatformInv'
    BY <1>1, PublishBeginStep, PublishBlobStep, PublishRefStep, HashExternalStep,
       ExternalRefStep, RegisterStep, CleanupPlanStep, CleanupCheckStep,
       DeleteStep, UnlinkStep, MarkTombstonedStep, RecordCacheEntryStep,
       ResolveCacheStep, InvalidateStep, RecordFromReportStep,
       RecordGateEvidenceStep, StagePartStep, RecordStagedDatasetStep DEF Step
  <1>2. CASE UNCHANGED platformVars
    BY <1>2 DEF platformVars, PlatformInv, TypesOK, LockOK, RecordShape, PublishedBytesExist
  <1>3. QED
    BY <1>1, <1>2, CallStep, StopStep, TablesMoveStep, RotStep, FileChangesStep
       DEF PlatformNext

LEMMA PlatformInvariant == PlatformSpec => []PlatformInv
  <1>1. PlatformInit => PlatformInv
    BY PlatformInitially
  <1>2. PlatformInv /\ [PlatformNext]_platformVars => PlatformInv'
    BY PlatformStep
  <1>3. QED
    BY <1>1, <1>2, PTL DEF PlatformSpec

\* No step of any caller, stopped or not, and no restore takes the hash of a
\* settled record away, or brings a deleted one back.
LEMMA RecordsOnlyMoveOn ==
    ASSUME PlatformInv, [PlatformNext]_platformVars
    PROVE  RecordsKept(record, record')
  <1>1. record \in [Artifacts -> RecordType]
    BY DEF PlatformInv, TypesOK
  <1>2. CASE record' = record
    BY <1>2 DEF RecordsKept
  <1>3. ASSUME NEW a \in Artifacts, NEW ref, record' = [record EXCEPT ![a] = ref],
               record[a].type \in {"none", "manifest"}
        PROVE  RecordsKept(record, record')
    BY <1>1, <1>3 DEF RecordsKept, Settled, Deleted
  <1>4. ASSUME NEW p \in Procs, PublishBegin(p) PROVE RecordsKept(record, record')
    <2>1. proc[p].op.a \in Artifacts
      BY <1>4, CallerFacts, OperationFields DEF PublishBegin, At
    <2>2. QED
      BY <1>2, <1>3, <1>4, <2>1 DEF PublishBegin, Reserve, Reservable
  <1>5. ASSUME NEW p \in Procs, PublishRef(p) PROVE RecordsKept(record, record')
    <2>1. proc[p].op.a \in Artifacts /\ record[proc[p].op.a].type = "manifest"
      BY <1>5, CallerFacts, OperationFields DEF PublishRef, At, CallerOK
    <2>2. QED
      BY <1>3, <1>5, <2>1 DEF PublishRef
  <1>6. ASSUME NEW p \in Procs, ExternalRef(p) PROVE RecordsKept(record, record')
    <2>1. proc[p].op.a \in Artifacts
      BY <1>6, CallerFacts, OperationFields, PlatformAssumption DEF ExternalRef, At
    <2>2. QED
      BY <1>2, <1>3, <1>6, <2>1 DEF ExternalRef
  <1>7. ASSUME NEW p \in Procs, Delete(p) PROVE RecordsKept(record, record')
    <2> DEFINE a == proc[p].pin.artifact
    <2>1. a \in Artifacts
      BY <1>7, CallerFacts DEF Delete, At, CallerOK, Pins
    <2>2. CASE record' = [record EXCEPT ![a] = Tombstone(@)]
      <3>1. /\ Tombstone(record[a]).type = "tombstone"
            /\ Tombstone(record[a]).hash = record[a].hash
        BY <1>1, <2>1 DEF Tombstone, RecordType
      <3>2. QED
        BY <1>1, <2>1, <2>2, <3>1 DEF RecordsKept, Settled, Deleted
    <2>3. QED
      BY <1>2, <1>7, <2>2 DEF Delete
  <1>8. ASSUME NEW p \in Procs, Step(p) PROVE RecordsKept(record, record')
    BY <1>2, <1>4, <1>5, <1>6, <1>7, <1>8
       DEF Step, PublishBlob, HashExternal, Register, CleanupPlan, CleanupCheck,
           Unlink, MarkTombstoned, RecordCacheEntry, ResolveCache,
           InvalidateCacheEntry, RecordFromReport, RecordGateEvidence,
           StagePart, RecordStagedDataset, files
  <1>9. QED
    BY <1>2, <1>8 DEF PlatformNext, Call, Stop, Backup, Restore, RunRestsOrResumes, Rot,
                      FileChanges, files, platformVars

\* The tables, the blobs and the lock have their types, the blobs stay within
\* the budget, and the lock is held by exactly the caller inside publish or
\* delete.
THEOREM PlatformTypes == PlatformSpec => []PlatformTypeOK
  <1>1. PlatformInv => PlatformTypeOK
    BY DEF PlatformInv, TypesOK, LockOK, PlatformTypeOK, InStore, At, Kept
  <1>2. QED
    BY <1>1, PlatformInvariant, PTL

\* No published reference of LocalArtifactStore loses its blob: neither to
\* the deletion of an artifact with the same content, nor to the quota, nor
\* to a caller that stops between any two steps.
THEOREM BytesExist == PlatformSpec => []PublishedBytesExist
  <1>1. PlatformInv => PublishedBytesExist
    BY DEF PlatformInv
  <1>2. QED
    BY <1>1, PlatformInvariant, PTL

\* Every hash a table or a backup of the tables holds for an artifact is the
\* hash the artifact was published with, after any deletion or restore.
THEOREM Pinning == PlatformSpec => []PinsHold
  <1>1. PlatformInv => PinsHold
    BY DEF PlatformInv, PinsHold, TablesOK, PinsSound, Settled
  <1>2. QED
    BY <1>1, PlatformInvariant, PTL

\* No step makes a deleted artifact consumable again, and a row is TOMBSTONED
\* only for an artifact the store has deleted.
THEOREM Deletion == PlatformSpec => DeletedStaysDeleted
  <1>1. PlatformInv /\ PlatformInv' /\ [PlatformNext]_platformVars =>
           [\A a \in Artifacts :
               /\ Tombstoned(a) => Tombstoned(a)'
               /\ Rows[a]'.state = "TOMBSTONED" => Tombstoned(a)']_platformVars
    BY RecordsOnlyMoveOn
       DEF RecordsKept, Deleted, Tombstoned, Rows, PlatformInv, TablesOK,
           TombstonesSound
  <1>2. QED
    BY <1>1, PlatformInvariant, PTL DEF PlatformSpec, DeletedStaysDeleted

==============================================================================
