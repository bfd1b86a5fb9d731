--------------------------- MODULE SourceSnapshots ---------------------------
(***************************************************************************)
(* File sources: ProductSourceService.import_csv and the source registry,   *)
(* discovery, and FileSourceAdapter.create_bounded_snapshot with the        *)
(* Parquet stager, while other imports replace or remove the file.          *)
(*                                                                          *)
(* A file is [header, rows]: a row is a value, Blank (nothing in any cell)  *)
(* or Torn (not as many cells as the header).  os.replace gives the file a  *)
(* new inode, so an extraction that has opened it goes on reading the       *)
(* version it opened; only the fingerprints look at the path again.         *)
(* A discovery reads the header first and the fingerprint last.             *)
(***************************************************************************)
EXTENDS Integers, Sequences, FiniteSets, SequencesExt, FiniteSetsExt

CONSTANTS
    Blank, Torn, NoFile,
    FileKinds,          \* subset of {"CSV", "PARQUET", "XLSX"}
    Uploads,            \* what clients import: [record, version]
    ExtractionPolicies, \* [chunk, max], max = 0 for no bound
    MaxWrites, MaxAttempts, MaxStagingFaults

\* chunk_size is positive; a file is a header and a sequence of rows.
ASSUME SourceAssumption ==
    /\ \A p \in ExtractionPolicies : p.chunk \in Nat \ {0} /\ p.max \in Nat
    /\ \A u \in Uploads :
          /\ u.record # NoFile /\ u.version # NoFile
          /\ u.version.rows \in Seq(Range(u.version.rows))

VARIABLES
    fileKind, extraction,   \* of the run, fixed
    registered,     \* the registry's record, or NoFile
    managed,        \* the file's current version, or NoFile
    importing,      \* imports between their write and their registration
    catalog,        \* what discovery found, or NoFile
    reading,           \* the extraction in progress
    staged,         \* batch files on disk
    snapshotResult,         \* what the latest attempt returned, or NoFile
    writes, tries, stagingFaults

sourceVars == <<fileKind, extraction, registered, managed, importing, catalog, reading, staged, snapshotResult,
                writes, tries, stagingFaults>>

-----------------------------------------------------------------------------
(* What one pass over an open file yields.                                 *)

\* _rows: a worksheet skips blank rows but counts them; a blank CSV line has
\* no cells and is malformed like any other short row.
Skipped(kind, row) == kind = "XLSX" /\ row = Blank
Malformed(kind, row) == kind = "CSV" /\ row \in {Blank, Torn}
Visible(kind, version) ==
    LET upTo[n \in 0 .. Len(version.rows)] ==
            IF n = 0 THEN <<>>
            ELSE IF Skipped(kind, version.rows[n]) THEN upTo[n - 1] ELSE Append(upTo[n - 1], n)
    IN upTo[Len(version.rows)]

\* create_bounded_snapshot's loop: the row after the last one wanted is read
\* before the bound is looked at, so a malformed row there still fails.
Reach(policy, ordinals) == IF policy.max = 0 THEN Len(ordinals) ELSE Min({policy.max, Len(ordinals)})
ReadRows(policy, ordinals) == IF policy.max = 0 THEN Len(ordinals) ELSE Min({policy.max + 1, Len(ordinals)})
FailsAt(kind, version, policy) ==
    LET ordinals == Visible(kind, version)
    IN {i \in 1 .. ReadRows(policy, ordinals) : Malformed(kind, version.rows[ordinals[i]])}
Observed(kind, version, policy) ==
    LET fails == FailsAt(kind, version, policy)
    IN IF fails = {} THEN Reach(policy, Visible(kind, version)) ELSE Min(fails) - 1

\* stage_rows: a batch starts at its first row's ordinal and counts from there.
Batch(kind, version, first, size, index) ==
    LET ordinals == Visible(kind, version)
    IN [index |-> index, first |-> ordinals[first], last |-> ordinals[first] + size - 1,
        rows |-> [k \in 1 .. size |-> version.rows[ordinals[first + k - 1]]]]
Batches(kind, version, policy) ==
    LET n == Observed(kind, version, policy)
        whole == n \div policy.chunk
        rest == n % policy.chunk
        full == [b \in 1 .. whole |-> Batch(kind, version, (b - 1) * policy.chunk + 1, policy.chunk, b - 1)]
    IN IF rest = 0 \/ FailsAt(kind, version, policy) # {} THEN full
       ELSE Append(full, Batch(kind, version, whole * policy.chunk + 1, rest, whole))

\* batch_id_for: the rest of the name is the same for every attempt of a run.
BatchFile(b) == <<b.index, b.rows>>
BatchFiles(batches) == {BatchFile(b) : b \in Range(batches)}
\* _record_references, record_ref_for_ordinal: file columns declare no key.
References(batches) == UNION {{[batch |-> b.index, ordinal |-> n] : n \in b.first .. b.last} : b \in Range(batches)}
TableStatus(kind, version, policy) ==
    LET n == Observed(kind, version, policy)
    IN IF n = Len(Visible(kind, version)) THEN "FULLY_OBSERVED"
       ELSE IF n > 0 THEN "PARTIALLY_OBSERVED" ELSE "NOT_OBSERVED"

\* BatchReference.validate_ordinals and RowAccounting.validate_counts
BatchValid(b) == b.rows # <<>> /\ b.first <= b.last
BatchRows(batches) == FlattenSeq([b \in DOMAIN batches |-> batches[b].rows])
AccountingValid(r) == r.observed = Len(BatchRows(r.batches))

-----------------------------------------------------------------------------
(* Imports and the registry.                                               *)

\* _validate_csv: column names, and one data row at least; the rows are not
\* looked at further.
HeaderValid(header) == header # <<>> /\ IsInjective(header)
CsvAccepted(version) == HeaderValid(version.header) /\ version.rows # <<>>

\* import_csv up to os.replace: the file is replaced before the registry is
\* asked whether the identity is free.
ImportWrite(u) ==
    /\ fileKind = "CSV" /\ writes < MaxWrites /\ CsvAccepted(u.version)
    /\ managed' = u.version
    /\ importing' = importing \cup {u}
    /\ writes' = writes + 1
    /\ UNCHANGED <<fileKind, extraction, registered, catalog, reading, staged, snapshotResult, tries, stagingFaults>>

\* DurableSourceRegistry.register: an equal record is accepted again.
RegisterAccepts(record) == registered \in {NoFile, record}
ImportRegister(u) ==
    /\ u \in importing
    /\ importing' = importing \ {u}
    /\ \/ RegisterAccepts(u.record) /\ registered' = u.record /\ UNCHANGED managed
       \/ ~RegisterAccepts(u.record) /\ managed' = NoFile /\ UNCHANGED registered
    /\ UNCHANGED <<fileKind, extraction, catalog, reading, staged, snapshotResult, writes, tries, stagingFaults>>

\* register_read_only_source: the owner of the file goes on rewriting it.
OwnerRewrites(u) ==
    /\ fileKind # "CSV" /\ writes < MaxWrites
    /\ managed' = u.version /\ writes' = writes + 1
    /\ UNCHANGED <<fileKind, extraction, registered, importing, catalog, reading, staged, snapshotResult, tries, stagingFaults>>

\* FileSourceAdapter.discover_source: _discover_csv, _discover_parquet or
\* _discover_xlsx, then file_content_fingerprint over the path as it is then.
DiscoverHeader ==
    /\ registered # NoFile /\ managed # NoFile /\ catalog = NoFile
    /\ HeaderValid(managed.header)
    /\ catalog' = [columns |-> managed.header, version |-> NoFile, at |-> writes]
    /\ UNCHANGED <<fileKind, extraction, registered, managed, importing, reading, staged, snapshotResult, writes, tries, stagingFaults>>
DiscoverFingerprint ==
    /\ catalog # NoFile /\ catalog.version = NoFile
    /\ catalog' = IF managed = NoFile THEN NoFile ELSE [catalog EXCEPT !.version = managed, !.at = writes - @]
    /\ UNCHANGED <<fileKind, extraction, registered, managed, importing, reading, staged, snapshotResult, writes, tries, stagingFaults>>

-----------------------------------------------------------------------------
(* One extraction, from the fingerprint before it to the one after it.     *)

NotReading == [phase |-> "idle", version |-> NoFile, batches |-> <<>>, from |-> 0]

\* discard_batches: the files of this attempt's batches, whoever wrote them
Discarded == staged \ BatchFiles(reading.batches)
Ended == reading' = NotReading /\ snapshotResult' = NoFile

BeginSnapshot ==
    /\ reading = NotReading /\ catalog # NoFile /\ catalog.version # NoFile /\ tries < MaxAttempts
    /\ tries' = tries + 1
    /\ snapshotResult' = NoFile
    /\ reading' = IF managed = catalog.version THEN [NotReading EXCEPT !.phase = "verified", !.from = writes] ELSE NotReading
    /\ UNCHANGED <<fileKind, extraction, registered, managed, importing, catalog, staged, writes, stagingFaults>>

\* Every catalogued column is looked up in the header of the file as it is now.
HeaderServes(version) == version # NoFile /\ Range(catalog.columns) \subseteq Range(version.header)
OpenFile ==
    /\ reading.phase = "verified"
    /\ \/ HeaderServes(managed) /\ reading' = [reading EXCEPT !.phase = "open", !.version = managed] /\ UNCHANGED snapshotResult
       \/ ~HeaderServes(managed) /\ Ended
    /\ UNCHANGED <<fileKind, extraction, registered, managed, importing, catalog, staged, writes, tries, stagingFaults>>

Pending == Batches(fileKind, reading.version, extraction)

\* stage_rows: an identical file of an earlier attempt is taken over.
StageBatch ==
    /\ reading.phase = "open" /\ Len(reading.batches) < Len(Pending)
    /\ LET batch == Pending[Len(reading.batches) + 1]
       IN \/ /\ staged' = staged \cup {BatchFile(batch)}
             /\ reading' = [reading EXCEPT !.batches = Append(@, batch)]
             /\ UNCHANGED <<snapshotResult, stagingFaults>>
          \/ /\ stagingFaults < MaxStagingFaults
             /\ stagingFaults' = stagingFaults + 1
             /\ staged' = Discarded /\ Ended
    /\ UNCHANGED <<fileKind, extraction, registered, managed, importing, catalog, writes, tries>>

ReadFails ==
    /\ reading.phase = "open" /\ Len(reading.batches) = Len(Pending)
    /\ FailsAt(fileKind, reading.version, extraction) # {}
    /\ staged' = Discarded /\ Ended
    /\ UNCHANGED <<fileKind, extraction, registered, managed, importing, catalog, writes, tries, stagingFaults>>

\* the fingerprint taken again; a missing file is an OSError the handler does
\* not catch, and the batches stay.
\* Mutant: the file verified before the extraction is not verified again.
FileUnchangedOnceVerified == reading.version # NoFile
FileUnchanged == managed = catalog.version
Returned ==
    [version |-> reading.version, batches |-> reading.batches, rewrites |-> writes - reading.from,
     observed |-> Observed(fileKind, reading.version, extraction),
     references |-> References(reading.batches), table |-> TableStatus(fileKind, reading.version, extraction)]
FinishSnapshot ==
    /\ reading.phase = "open" /\ Len(reading.batches) = Len(Pending)
    /\ FailsAt(fileKind, reading.version, extraction) = {}
    /\ \/ FileUnchanged /\ snapshotResult' = Returned /\ reading' = NotReading /\ UNCHANGED <<staged, stagingFaults>>
       \/ ~FileUnchanged /\ managed # NoFile /\ staged' = Discarded /\ Ended /\ UNCHANGED stagingFaults
       \/ ~FileUnchanged /\ managed = NoFile /\ Ended /\ UNCHANGED <<staged, stagingFaults>>
       \/ \* write_catalog or write_manifest fails after the batches are complete
          /\ FileUnchanged /\ stagingFaults < MaxStagingFaults /\ stagingFaults' = stagingFaults + 1
          /\ Ended /\ UNCHANGED staged
    /\ UNCHANGED <<fileKind, extraction, registered, managed, importing, catalog, writes, tries>>

\* The worker stops; the next attempt of the run finds the files it left.
SnapshotCrash ==
    /\ reading # NotReading /\ tries < MaxAttempts
    /\ Ended
    /\ UNCHANGED <<fileKind, extraction, registered, managed, importing, catalog, staged, writes, tries, stagingFaults>>

-----------------------------------------------------------------------------
SourceInit ==
    /\ fileKind \in FileKinds /\ extraction \in ExtractionPolicies
    /\ registered = NoFile /\ managed = NoFile /\ importing = {} /\ catalog = NoFile
    /\ reading = NotReading /\ staged = {} /\ snapshotResult = NoFile
    /\ writes = 0 /\ tries = 0 /\ stagingFaults = 0
SourceIdle == SourceInit /\ fileKind = "CSV" /\ extraction = CHOOSE p \in ExtractionPolicies : TRUE

\* register_read_only_source before the run starts
RegisterReadOnly(u) ==
    /\ fileKind # "CSV" /\ RegisterAccepts(u.record) /\ registered = NoFile
    /\ registered' = u.record /\ managed' = u.version
    /\ UNCHANGED <<fileKind, extraction, importing, catalog, reading, staged, snapshotResult, writes, tries, stagingFaults>>

SourceNext ==
    \/ \E u \in Uploads : ImportWrite(u) \/ ImportRegister(u) \/ OwnerRewrites(u) \/ RegisterReadOnly(u)
    \/ DiscoverHeader \/ DiscoverFingerprint \/ BeginSnapshot \/ OpenFile \/ StageBatch \/ ReadFails \/ FinishSnapshot \/ SnapshotCrash

SourceSpec == SourceInit /\ [][SourceNext]_sourceVars

-----------------------------------------------------------------------------
\* The rows a snapshot should hold: those of one version of the file that have
\* something in them, each in its place among them, up to the bound.
Filled(kind, version) == {i \in DOMAIN version.rows : ~Skipped(kind, version.rows[i])}
RankIn(filled, i) == Cardinality({j \in filled : j <= i})
HoldsFilled(rows, kind, version, policy) ==
    LET filled == Filled(kind, version)
        count == Cardinality(filled)
    IN /\ Len(rows) = IF policy.max = 0 \/ count <= policy.max THEN count ELSE policy.max
       /\ \A i \in filled : RankIn(filled, i) <= Len(rows) => rows[RankIn(filled, i)] = version.rows[i]

\* A snapshot that was returned holds, in order and once each, the rows of the
\* version of the file that discovery fingerprinted (or of a single other one,
\* if the file was replaced twice meanwhile: the two fingerprints cannot tell),
\* in that version's columns unless the file was replaced between discovery's
\* reading of the header and its fingerprint; its batch files are on disk, no two rows share a reference, and it claims to
\* have seen the whole table only if it did; whatever was imported, refused,
\* removed, left over from a crash or discarded in between
\* (FileSourceAdapter.create_bounded_snapshot, SourceFaithfulParquetStager).
SnapshotIsFaithful ==
    snapshotResult # NoFile =>
        /\ HoldsFilled(BatchRows(snapshotResult.batches), fileKind, snapshotResult.version, extraction)
        /\ (snapshotResult.rewrites < 2 => snapshotResult.version = catalog.version)
        /\ (catalog.at = 0 /\ snapshotResult.rewrites < 2 => catalog.columns = snapshotResult.version.header)
        /\ Range(catalog.columns) \subseteq Range(snapshotResult.version.header)
        /\ BatchFiles(snapshotResult.batches) \subseteq staged
        /\ Cardinality(snapshotResult.references) = snapshotResult.observed
        /\ Cardinality({r.ordinal : r \in snapshotResult.references}) = snapshotResult.observed
        /\ snapshotResult.table = "FULLY_OBSERVED"
               <=> Cardinality(Filled(fileKind, snapshotResult.version)) = snapshotResult.observed
        /\ \A b \in Range(snapshotResult.batches) : BatchValid(b)
        /\ AccountingValid(snapshotResult)
=============================================================================
