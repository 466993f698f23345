-------------------------- MODULE WriteInvariants --------------------------
(***************************************************************************)
(* The inductive invariants behind the theorems about WriteProtocol.       *)
(* CoreInv holds whatever overlaps; ExclusiveInv adds what holds when      *)
(* recovery has the system to itself, COPY is atomic and the zone          *)
(* reports checksums.                                                      *)
(***************************************************************************)
EXTENDS WriteRefinement

Settled(id) == parquetFile[id] \in {"named", PARQUET_FILE_FAILED}

(* Ids not handed out yet have no trace in the catalog.                    *)
UnusedIds ==
    \A id \in SnapshotIds :
       id >= nextId => parquetFile[id] = "none" /\ createdAt[id] = 0

(* A logged snapshot keeps its row for ever and counts its attempts.       *)
LoggedRows ==
    /\ clock > 0
    /\ \A id \in wal : Pushed(id)
    /\ \A id \in SnapshotIds :
          /\ Pushed(id) => SnapshotExists(id)
          /\ ~Pushed(id) => attempts[id] = 0
          /\ Pushed(id) /\ parquetFile[id] = PARQUET_FILE_PENDING => id \in wal

(* Writers that have an id, and what the catalog knows of it.              *)
HasId(w) == pc[w] \notin {"idle", "create"}

LocalRow(w) ==
    HasId(w) => /\ ~Pushed(current[w])
                /\ pc[w] \in {"copy", "copying", "rollback", "flip", "evict"}
                /\ IF pc[w] = "evict"
                     THEN Settled(current[w])
                     ELSE parquetFile[current[w]] = PARQUET_FILE_PENDING

SyncRow(w) ==
    /\ pc[w] # "rollback"
    /\ pc[w] = "log" => /\ ~Pushed(current[w])
                        /\ parquetFile[current[w]] = PARQUET_FILE_PENDING
    /\ HasId(w) /\ pc[w] # "log" => Pushed(current[w])
    /\ pc[w] = "drain" => Settled(current[w])

WriterIds ==
    /\ \A w \in Writers : HasId(w) => current[w] \in SnapshotIds
    /\ \A w, v \in Writers :
          HasId(w) /\ HasId(v) /\ w # v => current[w] # current[v]
    /\ \A w \in LocalWriters : LocalRow(w)
    /\ \A w \in SyncWriters : SyncRow(w)

(* The parent a writer read is settled and older than the id it will get.  *)
ParentsRead ==
    \A w \in Writers :
       pc[w] = "create" =>
          /\ target[w] \in Projects
          /\ readParent[w] # NULL =>
                /\ readParent[w] < nextId
                /\ Settled(readParent[w])
                /\ projectOf[readParent[w]] = target[w]

(* Recoverers handle logged snapshots only, with attempts that were true.  *)
RecovererRows ==
    \A r \in Recoverers :
       /\ \A id \in batch[r] : Pushed(id)
       /\ \A id \in SnapshotIds : listed[r][id] <= attempts[id]
       /\ pc[r] \notin {"idle", "scan"} =>
             current[r] \in SnapshotIds /\ Pushed(current[r])
       /\ pc[r] = "giveup" => listed[r][current[r]] >= MaxAttempts
       /\ pc[r] = "drain" => Settled(current[r])

CoreInv ==
    /\ TypeOK
    /\ UnusedIds
    /\ LoggedRows
    /\ WriterIds
    /\ ParentsRead
    /\ RecovererRows
    /\ ParentIsSettled
    /\ GaveUpOnlyAfterAttempts

-----------------------------------------------------------------------------
(* The recoveries that may still record a failure of a push: those whose   *)
(* list shows attempts left and that have the row to come or in hand.      *)
MayBump(r, id) ==
    /\ listed[r][id] < MaxAttempts
    /\ \/ id \in batch[r]
       \/ current[r] = id /\ pc[r] \in {"look", "put", "verify", "bump"}

LateRecoverers(id) == {r \in Recoverers : MayBump(r, id)}

(* A row in hand has left the list, and is pushed with attempts left only. *)
RowsInHand ==
    \A r \in Recoverers :
       /\ pc[r] \notin {"idle", "scan"} => current[r] \notin batch[r]
       /\ pc[r] \in {"put", "verify", "bump"} => listed[r][current[r]] < MaxAttempts

(* Once a push has used up its attempts, no new recovery is late for it,   *)
(* and each of those that are pays for its failure by being late no more.  *)
OvershootIsPaid ==
    \A id \in SnapshotIds :
       attempts[id] # 0 /\ attempts[id] >= MaxAttempts =>
          attempts[id] + Cardinality(LateRecoverers(id))
             < MaxAttempts + Cardinality(Recoverers)

BoundedInv ==
    /\ CoreInv
    /\ RowsInHand
    /\ OvershootIsPaid

-----------------------------------------------------------------------------
(* The hypotheses under which a committed snapshot is durable for good.    *)
Exclusive == ~OverlapAllowed /\ AtomicCopy /\ ZoneChecksums

RecoveryAlone ==
    \A r \in Recoverers : pc[r] # "idle" => AllOthersIdle(r)

(* Only a pull leaves a file cut short, and nobody pushes what was pulled. *)
TornFilesSettled ==
    \A h \in Hosts, id \in SnapshotIds : cache[h][id] = "partial" => Settled(id)

(* Who is about to push, verify, commit or give up a snapshot holds it     *)
(* pending, and nobody but that process can settle it.                     *)
PushesPending ==
    /\ \A p \in Pushers :
          /\ pc[p] \in {"log", "copy", "copying", "put", "verify", "flip", "giveup"}
                => parquetFile[current[p]] = PARQUET_FILE_PENDING
          /\ pc[p] = "flip" => irods[current[p]] = "whole"

ExclusiveInv ==
    /\ CoreInv
    /\ RecoveryAlone
    /\ TornFilesSettled
    /\ PushesPending
    /\ CommittedIsDurable
=============================================================================
