--------------------------- MODULE CatalogRestore ---------------------------
(***************************************************************************)
(* Backups of the catalog beside the write path: deploy/backup-pg.sh dumps *)
(* the catalog into the zone every day, and after the loss of the machine  *)
(* an operator restores the last dump (docs/deploy/backup.md).  The zone   *)
(* does not go back in time with the catalog: the sequence hands out ids   *)
(* again whose Parquet objects are there already.                          *)
(*                                                                         *)
(* Two rows with the same id are told apart by the number of restores that *)
(* came before, and so are two files that hold the changes of such rows.   *)
(***************************************************************************)
EXTENDS WriteProtocol

CONSTANTS
    MaxRestores,    \* bound on the restores
    CachesLost      \* was the machine lost, or only its database?

ASSUME RestoreAssumption == MaxRestores \in Nat /\ CachesLost \in BOOLEAN

VARIABLES
    dump,        \* the last dump in the zone
    restores,    \* restores so far
    rowOf,       \* [SnapshotIds -> restores when the row was inserted]
    fileOf,      \* [Hosts -> [SnapshotIds -> rowOf of the row a file is of]]
    objectOf     \* [SnapshotIds -> rowOf of the row an object is of]

originVars == <<rowOf, fileOf, objectOf>>
restoreVars == <<vars, dump, restores, originVars>>

Eras == 0..MaxRestores

Tables == [nextId |-> nextId, parquetFile |-> parquetFile,
           projectOf |-> projectOf, parent |-> parent, wal |-> wal,
           createdAt |-> createdAt, attempts |-> attempts, rowOf |-> rowOf]

RestoreInit ==
    /\ Init
    /\ rowOf = [id \in SnapshotIds |-> 0]
    /\ fileOf = [h \in Hosts |-> [id \in SnapshotIds |-> 0]]
    /\ objectOf = [id \in SnapshotIds |-> 0]
    /\ dump = Tables
    /\ restores = 0

-----------------------------------------------------------------------------
(* The write path, and whose changes the rows, files and objects hold      *)

InsertsRow(w) ==
    /\ CreateSnapshot(w)
    /\ rowOf' = [rowOf EXCEPT ![nextId] = restores]
    /\ UNCHANGED <<fileOf, objectOf>>

WritesFile(w) ==
    /\ BeginCopy(w) \/ EndCopy(w)
    /\ fileOf' = IF mtime' = mtime THEN fileOf
                 ELSE [fileOf EXCEPT ![HostOf[w]][current[w]] = rowOf[current[w]]]
    /\ UNCHANGED <<rowOf, objectOf>>

(* Mutant: push takes an object that is there for the one it would put.    *)
PutsObjectUnlessThere(p) ==
    \/ /\ pc[p] = "put"
       /\ irods[current[p]] = "whole"
       /\ Goto(p, "flip")
       /\ UNCHANGED <<catalogVars, current, callVars, cache, mtime, irods,
                      originVars>>
    \/ /\ pc[p] = "put"
       /\ irods[current[p]] # "whole"
       /\ PutStored(p) \/ PutReplyLost(p)
       /\ objectOf' = [objectOf EXCEPT ![current[p]] = fileOf[HostOf[p]][current[p]]]
       /\ UNCHANGED <<rowOf, fileOf>>

PutsObject(p) ==
    /\ PutStored(p) \/ PutReplyLost(p)
    /\ objectOf' = [objectOf EXCEPT ![current[p]] = fileOf[HostOf[p]][current[p]]]
    /\ UNCHANGED <<rowOf, fileOf>>

(* The checksum also differs when the object is of another row.            *)
ComparesChecksums(p) ==
    /\ VerifyPasses(p)
    /\ ZoneChecksums => objectOf[current[p]] = fileOf[HostOf[p]][current[p]]
    /\ UNCHANGED originVars

OtherWriterStep(w) ==
    /\ \/ ReadParent(w) \/ LogPush(w) \/ CopyFails(w) \/ Rollback(w)
       \/ EvictIfOver(w)
    /\ UNCHANGED originVars

OtherPushStep(p) ==
    /\ \/ PutRejected(p) \/ VerifyRaises(p) \/ FlipToNamed(p) \/ DrainWal(p)
       \/ Abandon(p)
    /\ UNCHANGED originVars

ProtocolStep ==
    /\ \/ \E w \in Writers : InsertsRow(w) \/ WritesFile(w) \/ OtherWriterStep(w)
       \/ \E p \in Processes : PutsObject(p) \/ ComparesChecksums(p) \/ OtherPushStep(p)
       \/ \E r \in Recoverers : RecovererStep(r) /\ UNCHANGED originVars
    /\ UNCHANGED <<dump, restores>>

-----------------------------------------------------------------------------
(* Backup and restore                                                      *)

(* Mutant: the log of pushes is left out of the dump.                      *)
BackupWithoutLog ==
    /\ dump' = [Tables EXCEPT !.wal = {}]
    /\ UNCHANGED <<vars, restores, originVars>>

(* pg_dump sees one state of the catalog, and iput replaces the dump.  A   *)
(* backup that fails leaves the dump before.  The script keeps the dumps   *)
(* of several days; restoring an older one is a behaviour in which the     *)
(* later backups were not taken.                                           *)
Backup ==
    /\ dump' = Tables
    /\ UNCHANGED <<vars, restores, originVars>>

(* Mutant: the database was not empty, newer rows are still there.         *)
LoadDumpOverRows ==
    /\ nextId' = dump.nextId
    /\ parquetFile' = [id \in SnapshotIds |->
                         IF id < dump.nextId THEN dump.parquetFile[id]
                                             ELSE parquetFile[id]]
    /\ projectOf' = dump.projectOf
    /\ parent' = dump.parent
    /\ wal' = dump.wal
    /\ createdAt' = dump.createdAt
    /\ attempts' = dump.attempts
    /\ rowOf' = dump.rowOf
    /\ clock' = clock

LoadDump ==
    /\ nextId' = dump.nextId
    /\ parquetFile' = dump.parquetFile
    /\ projectOf' = dump.projectOf
    /\ parent' = dump.parent
    /\ wal' = dump.wal
    /\ createdAt' = dump.createdAt
    /\ attempts' = dump.attempts
    /\ rowOf' = dump.rowOf
    /\ clock' = clock

AllCallsEnd ==
    /\ pc' = [p \in Processes |-> "idle"]
    /\ current' = [p \in Processes |-> NULL]
    /\ readParent' = [w \in Writers |-> NULL]
    /\ target' = [w \in Writers |-> NoProject]
    /\ batch' = [r \in Recoverers |-> {}]
    /\ listed' = [r \in Recoverers |-> [id \in SnapshotIds |-> 0]]

(* The service is stopped and the last dump becomes the catalog; a machine *)
(* that was lost took its cache with it.                                   *)
Restore ==
    /\ restores < MaxRestores
    /\ LoadDump
    /\ AllCallsEnd
    /\ cache' = IF CachesLost
                THEN [h \in Hosts |-> [id \in SnapshotIds |-> "absent"]]
                ELSE cache
    /\ restores' = restores + 1
    /\ UNCHANGED <<mtime, irods, dump, fileOf, objectOf>>

RestoreNext == ProtocolStep \/ Backup \/ Restore

RestoreSpec == RestoreInit /\ [][RestoreNext]_restoreVars

-----------------------------------------------------------------------------
RestoreTypeOK ==
    /\ TypeOK
    /\ restores \in Eras
    /\ rowOf \in [SnapshotIds -> Eras]
    /\ fileOf \in [Hosts -> [SnapshotIds -> Eras]]
    /\ objectOf \in [SnapshotIds -> Eras]
    /\ dump.nextId \in 1..nextId
    /\ dump.wal \subseteq SnapshotIds

(* If caches are lost with the catalog, a committed snapshot has its own   *)
(* whole Parquet in the zone, and not the one of a snapshot that had its   *)
(* id before a restore (client.py:311-341, irods_sync.py:359).             *)
CommittedHoldsItsChanges ==
    \A id \in SnapshotIds :
       Pushed(id) /\ parquetFile[id] = "named" =>
          irods[id] = "whole" /\ objectOf[id] = rowOf[id]

(* Whatever happens after a backup, restores included, what was committed  *)
(* in the dump can be restored: its objects stay in the zone as they were  *)
(* (docs/deploy/backup.md:20-22, 109-160).                                 *)
DumpedCommitsAreKept ==
    \A id \in SnapshotIds :
       dump.createdAt[id] # 0 /\ dump.parquetFile[id] = "named" =>
          irods[id] = "whole" /\ objectOf[id] = dump.rowOf[id]

(* Only a restore takes an outcome back: pushes that it brings back end    *)
(* once, and what recovery finds settled in the restored catalog stays so  *)
(* (irods_sync.py:339-348, docs/deploy/backup.md:154-156).                 *)
OutcomesLastUntilRestore ==
    [][restores' = restores =>
          \A id \in SnapshotIds :
             parquetFile[id] \in {"named", PARQUET_FILE_FAILED} =>
                parquetFile'[id] = parquetFile[id]]_restoreVars
=============================================================================
