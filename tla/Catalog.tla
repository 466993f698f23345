------------------------------ MODULE Catalog ------------------------------
(***************************************************************************)
(* The metadata catalog of mesa-ducklake: the tables mesa.snapshots and    *)
(* mesa.pending_pushes (the write-ahead log of pushes) and the statements  *)
(* the library runs on them.  Every statement autocommits, so each is one  *)
(* atomic operator here; what the library strings together from them is    *)
(* module WriteProtocol.                                                   *)
(*                                                                         *)
(* A table is a set of total functions on the snapshot ids; a row is       *)
(* absent when its parquet_file is "none" (mesa.snapshots) or its id is    *)
(* not in wal (mesa.pending_pushes).  Actor, note, timestamp, last_error   *)
(* and the paths carry no control and are left out.                        *)
(***************************************************************************)
EXTENDS Naturals, FiniteSets

CONSTANTS
    Projects,       \* the registered projects
    NoProject,      \* project of an id that never had a row
    MaxSnapshots    \* bound on the ids the BIGSERIAL sequence hands out

ASSUME MaxSnapshotsAssumption == MaxSnapshots \in Nat
ASSUME NoProjectAssumption == NoProject \notin Projects

SnapshotIds == 1..MaxSnapshots

NULL == 0           \* SQL NULL in a column of snapshot ids

VARIABLES
    nextId,         \* next value of the snapshot_id sequence
    parquetFile,    \* [SnapshotIds -> FileNames]
    projectOf,      \* [SnapshotIds -> Projects or NoProject], project_id
    parent,         \* [SnapshotIds -> SnapshotIds or NULL], parent_snapshot
    wal,            \* ids with a row in mesa.pending_pushes
    createdAt,      \* the row's created_at; kept when the row is deleted
    attempts,       \* the row's attempts; kept when the row is deleted
    clock           \* orders created_at and the mtimes of cached files

snapshotTable == <<nextId, parquetFile, projectOf, parent>>
walTable      == <<wal, createdAt, attempts>>

(* The sentinels of the parquet_file column.  "named" stands for           *)
(* snapshot_<id>.parquet, the only other value the library writes.         *)
PARQUET_FILE_PENDING == "pending"
PARQUET_FILE_FAILED  == "failed"
FileNames == {"none", PARQUET_FILE_PENDING, PARQUET_FILE_FAILED, "named"}

CatalogTypeOK ==
    /\ nextId \in 1..(MaxSnapshots + 1)
    /\ parquetFile \in [SnapshotIds -> FileNames]
    /\ projectOf \in [SnapshotIds -> Projects \cup {NoProject}]
    /\ parent \in [SnapshotIds -> SnapshotIds \cup {NULL}]
    /\ wal \subseteq SnapshotIds
    /\ createdAt \in [SnapshotIds -> Nat]
    /\ attempts \in [SnapshotIds -> Nat]
    /\ clock \in Nat

CatalogInit ==
    /\ nextId = 1
    /\ parquetFile = [id \in SnapshotIds |-> "none"]
    /\ projectOf = [id \in SnapshotIds |-> NoProject]
    /\ parent = [id \in SnapshotIds |-> NULL]
    /\ wal = {}
    /\ createdAt = [id \in SnapshotIds |-> 0]
    /\ attempts = [id \in SnapshotIds |-> 0]
    /\ clock = 1

SnapshotExists(id) == parquetFile[id] # "none"

-----------------------------------------------------------------------------
(* mesa.snapshots *)

(* Mutant: include_pending=True in the parent query.                       *)
CommittedOfWithPending(p) ==
    {id \in SnapshotIds : SnapshotExists(id) /\ projectOf[id] = p}

CommittedOf(p) ==
    {id \in SnapshotIds : /\ SnapshotExists(id)
                          /\ projectOf[id] = p
                          /\ parquetFile[id] # PARQUET_FILE_PENDING}

(* latest is what SELECT ... ORDER BY snapshot_id DESC LIMIT 1 returns.    *)
IsLatestSnapshot(p, latest) ==
    IF CommittedOf(p) = {}
      THEN latest = NULL
      ELSE latest \in CommittedOf(p) /\ \A id \in CommittedOf(p) : id <= latest

(* SELECT ... ORDER BY snapshot_id DESC LIMIT limit, as a set.             *)
ListSnapshots(p, limit) ==
    {id \in CommittedOf(p) :
       Cardinality({newer \in CommittedOf(p) : newer > id}) < limit}

(* INSERT with parquet_file = 'pending'; the id comes from the sequence.   *)
CreateSnapshotRow(p, parentId) ==
    /\ nextId \in SnapshotIds
    /\ nextId' = nextId + 1
    /\ parquetFile' = [parquetFile EXCEPT ![nextId] = PARQUET_FILE_PENDING]
    /\ projectOf' = [projectOf EXCEPT ![nextId] = p]
    /\ parent' = [parent EXCEPT ![nextId] = parentId]

(* UPDATE ... WHERE snapshot_id = id: whatever the column held before.     *)
UpdateSnapshotParquetFile(id, name) ==
    /\ SnapshotExists(id)
    /\ parquetFile' = [parquetFile EXCEPT ![id] = name]
    /\ UNCHANGED <<nextId, projectOf, parent>>

(* DELETE; the foreign key of mesa.pending_pushes cascades.                *)
DeleteSnapshotRow(id) ==
    /\ parquetFile' = [parquetFile EXCEPT ![id] = "none"]
    /\ wal' = wal \ {id}
    /\ UNCHANGED <<nextId, projectOf, parent, createdAt, attempts>>

-----------------------------------------------------------------------------
(* mesa.pending_pushes *)

(* INSERT ... ON CONFLICT (snapshot_id) DO NOTHING.                        *)
InsertPendingPush(id) ==
    /\ wal' = wal \cup {id}
    /\ createdAt' = [createdAt EXCEPT ![id] = IF id \in wal THEN @ ELSE clock]
    /\ attempts' = [attempts EXCEPT ![id] = IF id \in wal THEN @ ELSE 0]
    /\ clock' = clock + 1

DeletePendingPush(id) ==
    /\ wal' = wal \ {id}
    /\ UNCHANGED <<createdAt, attempts>>

(* Mutant: only last_error is recorded.                                    *)
BumpPendingPushAttemptLost(id) ==
    /\ id \in SnapshotIds
    /\ UNCHANGED <<wal, createdAt, attempts>>

(* UPDATE ... SET attempts = attempts + 1: a deleted row stays deleted.    *)
BumpPendingPushAttempt(id) ==
    /\ attempts' = [attempts EXCEPT ![id] = IF id \in wal THEN @ + 1 ELSE @]
    /\ UNCHANGED <<wal, createdAt>>

OlderRows(id, rows) ==
    {other \in rows : createdAt[other] < createdAt[id]}

(* SELECT ... ORDER BY created_at, snapshot_id LIMIT limit, as a set.      *)
ListPendingPushes(limit) ==
    {id \in wal : Cardinality(OlderRows(id, wal)) < limit}
=============================================================================
