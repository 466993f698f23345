-------------------------- MODULE RestoreInvariants --------------------------
(***************************************************************************)
(* The inductive invariants behind the theorems about CatalogRestore.      *)
(* RestoreCore needs no hypothesis; RestoreInv adds what holds when        *)
(* recovery runs alone, COPY is atomic, the zone reports checksums and     *)
(* the caches are lost with the catalog.                                   *)
(***************************************************************************)
EXTENDS RestoreRefinement, WriteInvariants

DumpTypes ==
    [nextId      : 1..(MaxSnapshots + 1),
     parquetFile : [SnapshotIds -> FileNames],
     projectOf   : [SnapshotIds -> Projects \cup {NoProject}],
     parent      : [SnapshotIds -> SnapshotIds \cup {NULL}],
     wal         : SUBSET SnapshotIds,
     createdAt   : [SnapshotIds -> Nat],
     attempts    : [SnapshotIds -> Nat],
     rowOf       : [SnapshotIds -> Eras]]

(* What CoreInv says of the tables alone, of tables d that nobody uses.    *)
RowsLogged(d) ==
    \A id \in SnapshotIds :
       /\ id >= d.nextId => d.parquetFile[id] = "none" /\ d.createdAt[id] = 0
       /\ id \in d.wal => d.createdAt[id] # 0
       /\ d.createdAt[id] = 0 => d.attempts[id] = 0
       /\ d.createdAt[id] # 0 =>
             /\ d.parquetFile[id] # "none"
             /\ d.parquetFile[id] = PARQUET_FILE_PENDING => id \in d.wal
       /\ d.parquetFile[id] = PARQUET_FILE_FAILED => d.attempts[id] >= MaxAttempts

RowsHang(d) ==
    \A id \in SnapshotIds :
       d.parquetFile[id] # "none" /\ d.parent[id] # NULL =>
          /\ d.parent[id] < id
          /\ d.parquetFile[d.parent[id]] \in {"named", PARQUET_FILE_FAILED}
          /\ d.projectOf[d.parent[id]] = d.projectOf[id]

RestoreCore ==
    /\ CoreInv
    /\ RestoreTypeOK
    /\ dump \in DumpTypes
    /\ RowsLogged(dump)
    /\ RowsHang(dump)

-----------------------------------------------------------------------------
MtimesPast ==
    \A h \in Hosts, id \in SnapshotIds : mtime[h][id] < clock

(* No file lies in wait for a snapshot that has yet to get its id.         *)
FilesAreOfRows ==
    \A h \in Hosts, id \in SnapshotIds :
       cache[h][id] # "absent" => id < nextId /\ fileOf[h][id] = rowOf[id]

(* Whose checksum matched is about to commit its own changes.              *)
FlipsHoldTheirChanges ==
    \A p \in Pushers :
       pc[p] = "flip" => objectOf[current[p]] = rowOf[current[p]]

(* What was committed when the dump was made is still the same row, and    *)
(* still committed.                                                        *)
DumpIsPast ==
    \A id \in SnapshotIds :
       dump.createdAt[id] # 0 /\ dump.parquetFile[id] = "named" =>
          /\ Pushed(id)
          /\ parquetFile[id] = "named"
          /\ rowOf[id] = dump.rowOf[id]

(* What holds although the caches may outlive the catalog.                 *)
NoTornFiles ==
    \A h \in Hosts, id \in SnapshotIds : cache[h][id] # "partial"

OutcomeInv ==
    /\ RestoreCore
    /\ ExclusiveInv
    /\ NoTornFiles
    /\ DumpIsPast

RestoreInv ==
    /\ RestoreCore
    /\ ExclusiveInv
    /\ MtimesPast
    /\ FilesAreOfRows
    /\ FlipsHoldTheirChanges
    /\ CommittedHoldsItsChanges
    /\ DumpIsPast

-----------------------------------------------------------------------------
(* Rows, files and objects are of this era or of one before, and the dump  *)
(* as well.                                                                *)
OriginsPast ==
    /\ \A id \in SnapshotIds : /\ rowOf[id] <= restores
                               /\ objectOf[id] <= restores
                               /\ dump.rowOf[id] <= restores
    /\ \A h \in Hosts, id \in SnapshotIds : fileOf[h][id] <= restores

(* An object put since the last restore is of a push in the log's memory;  *)
(* a row about to be logged was inserted since then.                       *)
ObjectsArePushed ==
    \A id \in SnapshotIds :
       irods[id] # "absent" /\ objectOf[id] = restores => Pushed(id)

RowsToLogAreNew ==
    \A w \in SyncWriters : pc[w] = "log" => rowOf[current[w]] = restores

RestorableInv ==
    /\ RestoreInv
    /\ OriginsPast
    /\ ObjectsArePushed
    /\ RowsToLogAreNew
=============================================================================
