-------------------------- MODULE WriteRefinement --------------------------
(***************************************************************************)
(* The write protocol implements SnapshotLedger.  A snapshot's status is   *)
(* what its catalog row says; a row that is gone was discarded.            *)
(***************************************************************************)
EXTENDS WriteProtocol

LedgerStatus(id) ==
    CASE parquetFile[id] = "named"              -> "committed"
      [] parquetFile[id] = PARQUET_FILE_FAILED  -> "failed"
      [] parquetFile[id] = PARQUET_FILE_PENDING -> "inflight"
      [] parquetFile[id] = "none" -> IF id < nextId THEN "discarded" ELSE "unborn"

Ledger == INSTANCE SnapshotLedger WITH
    status   <- [id \in SnapshotIds |-> LedgerStatus(id)],
    owner    <- projectOf,
    previous <- parent,
    shared   <- {id \in SnapshotIds : Pushed(id)},
    durable  <- {id \in SnapshotIds : irods[id] = "whole"}

(* Every behaviour of the write path and of recovery, crashes included, is *)
(* a behaviour of the ledger (client.py:258-279, irods_sync.py:296-320).   *)
ImplementsLedger == Ledger!LedgerSpec
=============================================================================
