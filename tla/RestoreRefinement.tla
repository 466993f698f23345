-------------------------- MODULE RestoreRefinement --------------------------
(***************************************************************************)
(* Backups beside the write path implement RestorableLedger.  The kept     *)
(* copy is the dump, read as the catalog is; the data of a snapshot are    *)
(* durable when its object is whole and holds the changes of its own row.  *)
(***************************************************************************)
EXTENDS CatalogRestore

(* What the rows of the tables d say of every snapshot.                    *)
RowStatus(d, id) ==
    CASE d.parquetFile[id] = "named"              -> "committed"
      [] d.parquetFile[id] = PARQUET_FILE_FAILED  -> "failed"
      [] d.parquetFile[id] = PARQUET_FILE_PENDING -> "inflight"
      [] d.parquetFile[id] = "none" -> IF id < d.nextId THEN "discarded" ELSE "unborn"

StatusIn(d) == [id \in SnapshotIds |-> RowStatus(d, id)]

SharedIn(d) == {id \in SnapshotIds : d.createdAt[id] # 0}

HoldsOwnChanges(id) == irods[id] = "whole" /\ objectOf[id] = rowOf[id]

Restorable == INSTANCE RestorableLedger WITH
    status   <- StatusIn(Tables),
    owner    <- projectOf,
    previous <- parent,
    shared   <- SharedIn(Tables),
    durable  <- {id \in SharedIn(Tables) : HoldsOwnChanges(id)},
    kept     <- [status   |-> StatusIn(dump),
                 owner    |-> dump.projectOf,
                 previous |-> dump.parent,
                 shared   |-> SharedIn(dump)]

(* A restore takes the catalog back to what it was and loses the data of   *)
(* no snapshot committed then, although later snapshots took the ids and   *)
(* the object paths of lost ones (docs/deploy/backup.md:20-22, 109-160).   *)
ImplementsRestorableLedger == Restorable!RestorableSpec
=============================================================================
