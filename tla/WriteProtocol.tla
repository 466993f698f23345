--------------------------- MODULE WriteProtocol ---------------------------
(***************************************************************************)
(* The push-before-commit write path of mesa-ducklake and its crash        *)
(* recovery: DuckLakeClient.record_changes run by concurrent writers, and  *)
(* irods_sync.recover_pending_pushes run by recoverers, over one shared    *)
(* catalog, one iRODS zone and one local cache directory per host.         *)
(*                                                                         *)
(* A process is a call in progress; pc names the statement it runs next.   *)
(* Between two statements any other process may run, and a call may end    *)
(* early (Abandon): the process is killed, or a statement raises and the   *)
(* exception leaves the call.                                              *)
(***************************************************************************)
EXTENDS Catalog

CONSTANTS
    SyncWriters,     \* callers of record_changes with an iRODS session
    LocalWriters,    \* callers without one (local-only mode)
    Recoverers,      \* callers of recover_pending_pushes
    Hosts,           \* machines, each with a cache directory
    HostOf,          \* [Processes -> Hosts]
    MaxAttempts,     \* DEFAULT_MAX_ATTEMPTS
    DrainLimit,      \* limit: rows one recovery run lists
    CacheCap,        \* cache cap in files of one size; 0 disables eviction
    AtomicCopy,      \* COPY shows the Parquet at its path only when complete
    ZoneChecksums,   \* the zone reports a checksum for every object
    OverlapAllowed   \* recovery may run while other calls are in progress

Writers   == SyncWriters \cup LocalWriters
Pushers   == SyncWriters \cup Recoverers
Processes == Writers \cup Recoverers

ASSUME ProcessesAssumption ==
    /\ SyncWriters \cap LocalWriters = {}
    /\ Recoverers \cap Writers = {}
ASSUME HostOfAssumption == HostOf \in [Processes -> Hosts]
ASSUME LimitsAssumption ==
    /\ MaxAttempts \in Nat
    /\ DrainLimit \in Nat
    /\ CacheCap \in Nat
ASSUME SwitchesAssumption ==
    /\ AtomicCopy \in BOOLEAN
    /\ ZoneChecksums \in BOOLEAN
    /\ OverlapAllowed \in BOOLEAN

VARIABLES
    pc,          \* [Processes -> Steps]
    current,     \* [Processes -> id in hand, or NULL]
    readParent,  \* [Writers -> parent pointer read, not yet written]
    target,      \* [Writers -> project of the call]
    batch,       \* [Recoverers -> rows still to visit of the list they read]
    listed,      \* [Recoverers -> attempts, as it was when the list was read]
    cache,       \* [Hosts -> [SnapshotIds -> FileStates]]
    mtime,       \* [Hosts -> [SnapshotIds -> st_mtime of the cached file]]
    irods        \* [SnapshotIds -> ObjectStates]

catalogVars == <<nextId, parquetFile, projectOf, parent,
                 wal, createdAt, attempts, clock>>
callVars    == <<readParent, target, batch, listed>>
vars        == <<nextId, parquetFile, projectOf, parent,
                 wal, createdAt, attempts, clock,
                 pc, current, readParent, target, batch, listed,
                 cache, mtime, irods>>

(* "partial" is a Parquet cut short by a crash in COPY, or its upload;     *)
(* "corrupt" is an object whose bytes are not those that were sent.        *)
FileStates   == {"absent", "partial", "whole"}
ObjectStates == FileStates \cup {"corrupt"}

WriterSteps == {"idle", "create", "log", "copy", "copying", "rollback",
                "put", "verify", "flip", "drain", "evict"}
RecovererSteps == {"idle", "scan", "look", "giveup",
                   "put", "verify", "bump", "flip", "drain"}

TypeOK ==
    /\ CatalogTypeOK
    /\ pc \in [Processes -> WriterSteps \cup RecovererSteps]
    /\ \A w \in Writers : pc[w] \in WriterSteps
    /\ \A r \in Recoverers : pc[r] \in RecovererSteps
    /\ current \in [Processes -> SnapshotIds \cup {NULL}]
    /\ \A p \in Processes :
          pc[p] \notin {"idle", "create", "scan"} => current[p] # NULL
    /\ readParent \in [Writers -> SnapshotIds \cup {NULL}]
    /\ target \in [Writers -> Projects \cup {NoProject}]
    /\ batch \in [Recoverers -> SUBSET SnapshotIds]
    /\ listed \in [Recoverers -> [SnapshotIds -> Nat]]
    /\ cache \in [Hosts -> [SnapshotIds -> FileStates]]
    /\ mtime \in [Hosts -> [SnapshotIds -> Nat]]
    /\ irods \in [SnapshotIds -> ObjectStates]

Init ==
    /\ CatalogInit
    /\ pc = [p \in Processes |-> "idle"]
    /\ current = [p \in Processes |-> NULL]
    /\ readParent = [w \in Writers |-> NULL]
    /\ target = [w \in Writers |-> NoProject]
    /\ batch = [r \in Recoverers |-> {}]
    /\ listed = [r \in Recoverers |-> [id \in SnapshotIds |-> 0]]
    /\ cache = [h \in Hosts |-> [id \in SnapshotIds |-> "absent"]]
    /\ mtime = [h \in Hosts |-> [id \in SnapshotIds |-> 0]]
    /\ irods = [id \in SnapshotIds |-> "absent"]

Goto(p, step) == pc' = [pc EXCEPT ![p] = step]

(* The call ends, in whatever way, and forgets its local variables.        *)
EndCall(p) ==
    /\ pc' = [pc EXCEPT ![p] = "idle"]
    /\ current' = [current EXCEPT ![p] = NULL]
    /\ readParent' = [w \in Writers |-> IF w = p THEN NULL ELSE readParent[w]]
    /\ target' = [w \in Writers |-> IF w = p THEN NoProject ELSE target[w]]
    /\ batch' = [r \in Recoverers |-> IF r = p THEN {} ELSE batch[r]]
    /\ listed' = [r \in Recoverers |->
                    IF r = p THEN [id \in SnapshotIds |-> 0] ELSE listed[r]]

LocalFile(p) == cache[HostOf[p]][current[p]]

RecoveryRunning == \E r \in Recoverers : pc[r] # "idle"
AllOthersIdle(p) == \A q \in Processes \ {p} : pc[q] = "idle"

-----------------------------------------------------------------------------
(* record_changes, up to the push *)

(* get_project, then parent = latest_snapshot_id(project_id).  The bound   *)
(* keeps an id for each call that has not allocated its own yet.           *)
ReadParent(w) ==
    /\ pc[w] = "idle"
    /\ OverlapAllowed \/ ~RecoveryRunning
    /\ nextId + Cardinality({v \in Writers : pc[v] = "create"}) <= MaxSnapshots
    /\ \E p \in Projects, latest \in SnapshotIds \cup {NULL} :
          /\ IsLatestSnapshot(p, latest)
          /\ target' = [target EXCEPT ![w] = p]
          /\ readParent' = [readParent EXCEPT ![w] = latest]
    /\ Goto(w, "create")
    /\ UNCHANGED <<catalogVars, current, batch, listed, cache, mtime, irods>>

CreateSnapshot(w) ==
    /\ pc[w] = "create"
    /\ CreateSnapshotRow(target[w], readParent[w])
    /\ current' = [current EXCEPT ![w] = nextId]
    /\ Goto(w, IF w \in SyncWriters THEN "log" ELSE "copy")
    /\ UNCHANGED <<walTable, clock, callVars, cache, mtime, irods>>

LogPush(w) ==
    /\ pc[w] = "log"
    /\ InsertPendingPush(current[w])
    /\ Goto(w, "copy")
    /\ UNCHANGED <<snapshotTable, current, callVars, cache, mtime, irods>>

StoreLocalFile(w, content) ==
    /\ cache' = [cache EXCEPT ![HostOf[w]][current[w]] = content]
    /\ mtime' = [mtime EXCEPT ![HostOf[w]][current[w]] = clock]
    /\ clock' = clock + 1

(* LakeStore.write_changes: DuckDB opens the file at its final path ...    *)
BeginCopy(w) ==
    /\ pc[w] = "copy"
    /\ IF AtomicCopy THEN UNCHANGED <<cache, mtime, clock>>
                     ELSE StoreLocalFile(w, "partial")
    /\ Goto(w, "copying")
    /\ UNCHANGED <<snapshotTable, walTable, current, callVars, irods>>

(* ... and completes it, unless it was unlinked meanwhile: then the rows   *)
(* go to an inode without a name and nothing appears at the path.          *)
EndCopy(w) ==
    /\ pc[w] = "copying"
    /\ IF AtomicCopy \/ LocalFile(w) = "partial"
         THEN StoreLocalFile(w, "whole")
         ELSE UNCHANGED <<cache, mtime, clock>>
    /\ Goto(w, IF w \in SyncWriters THEN "put" ELSE "flip")
    /\ UNCHANGED <<snapshotTable, walTable, current, callVars, irods>>

(* The write raises.  With a session the exception leaves record_changes   *)
(* (Abandon); without one the handler deletes the snapshot row.            *)
CopyFails(w) ==
    /\ w \in LocalWriters
    /\ pc[w] \in {"copy", "copying"}
    /\ Goto(w, "rollback")
    /\ UNCHANGED <<catalogVars, current, callVars, cache, mtime, irods>>

Rollback(w) ==
    /\ pc[w] = "rollback"
    /\ DeleteSnapshotRow(current[w])
    /\ EndCall(w)
    /\ UNCHANGED <<clock, cache, mtime, irods>>

-----------------------------------------------------------------------------
(* irods_sync.push and the commit point, shared by writers and recoverers  *)

(* Mutant: record_changes handles a failed push as recovery does.          *)
PushRaisesCaught(p) ==
    /\ Goto(p, "bump")
    /\ UNCHANGED <<current, callVars>>

(* push raises: record_changes does not catch it, recovery bumps attempts. *)
PushRaises(p) ==
    IF p \in Recoverers
      THEN /\ Goto(p, "bump")
           /\ UNCHANGED <<current, callVars>>
      ELSE EndCall(p)

(* The request never reaches the zone, or there is no local file to send.  *)
PutRejected(p) ==
    /\ pc[p] = "put"
    /\ PushRaises(p)
    /\ UNCHANGED <<catalogVars, cache, mtime, irods>>

(* data_objects.put overwrites the object; the transfer may damage it.     *)
StoreObject(p) ==
    /\ LocalFile(p) # "absent"
    /\ \E stored \in {LocalFile(p), "corrupt"} :
          irods' = [irods EXCEPT ![current[p]] = stored]
    /\ UNCHANGED <<catalogVars, cache, mtime>>

PutStored(p) ==
    /\ pc[p] = "put"
    /\ StoreObject(p)
    /\ Goto(p, "verify")
    /\ UNCHANGED <<current, callVars>>

(* The object changed but the client saw an error (a lost reply).          *)
PutReplyLost(p) ==
    /\ pc[p] = "put"
    /\ StoreObject(p)
    /\ PushRaises(p)

(* Mutant: push returns without comparing checksums.                       *)
ChecksumMatchesUnread(p) == p \in Pushers

(* _checksum_matches hashes the local file as it is now; without a         *)
(* checksum from the zone it does not even open it.                        *)
ChecksumMatches(p) ==
    ZoneChecksums => /\ irods[current[p]] = LocalFile(p)
                     /\ LocalFile(p) # "absent"

VerifyPasses(p) ==
    /\ pc[p] = "verify"
    /\ ChecksumMatches(p)
    /\ Goto(p, "flip")
    /\ UNCHANGED <<catalogVars, current, callVars, cache, mtime, irods>>

(* A mismatch, or the object could not be fetched for the comparison.      *)
VerifyRaises(p) ==
    /\ pc[p] = "verify"
    /\ PushRaises(p)
    /\ UNCHANGED <<catalogVars, cache, mtime, irods>>

(* The commit point.                                                       *)
FlipToNamed(p) ==
    /\ pc[p] = "flip"
    /\ UpdateSnapshotParquetFile(current[p], "named")
    /\ Goto(p, IF p \in LocalWriters THEN "evict" ELSE "drain")
    /\ UNCHANGED <<walTable, clock, current, callVars, cache, mtime, irods>>

(* delete_pending_push; a recoverer goes on to its next row.               *)
DrainWal(p) ==
    /\ pc[p] = "drain"
    /\ DeletePendingPush(current[p])
    /\ Goto(p, IF p \in Recoverers THEN "scan" ELSE "evict")
    /\ UNCHANGED <<snapshotTable, clock, current, callVars, cache, mtime, irods>>

-----------------------------------------------------------------------------
(* record_changes, after the commit *)

CachedOn(h) == {id \in SnapshotIds : cache[h][id] # "absent"}

(* evict_if_over: the oldest files beyond the cap, whatever the catalog    *)
(* says of their snapshots.                                                *)
EvictedFrom(h) ==
    IF CacheCap = 0
      THEN {}
      ELSE {id \in CachedOn(h) :
              Cardinality({other \in CachedOn(h) : mtime[h][other] > mtime[h][id]})
                >= CacheCap}

EvictIfOver(w) ==
    /\ pc[w] = "evict"
    /\ cache' = [cache EXCEPT ![HostOf[w]] =
                   [id \in SnapshotIds |->
                      IF id \in EvictedFrom(HostOf[w]) THEN "absent" ELSE @[id]]]
    /\ EndCall(w)
    /\ UNCHANGED <<catalogVars, mtime, irods>>

-----------------------------------------------------------------------------
(* recover_pending_pushes *)

(* The rows, with their attempts, are read once for the whole run.         *)
ListWal(r) ==
    /\ pc[r] = "idle"
    /\ OverlapAllowed \/ AllOthersIdle(r)
    /\ wal # {}
    /\ batch' = [batch EXCEPT ![r] = ListPendingPushes(DrainLimit)]
    /\ listed' = [listed EXCEPT ![r] = attempts]
    /\ Goto(r, "scan")
    /\ UNCHANGED <<catalogVars, current, readParent, target, cache, mtime, irods>>

(* for row in pending: the oldest row left.                                *)
NextRow(r) ==
    /\ pc[r] = "scan"
    /\ \E id \in batch[r] :
          /\ OlderRows(id, batch[r]) = {}
          /\ current' = [current EXCEPT ![r] = id]
          /\ batch' = [batch EXCEPT ![r] = @ \ {id}]
    /\ Goto(r, "look")
    /\ UNCHANGED <<catalogVars, readParent, target, listed, cache, mtime, irods>>

(* Mutant: the row whose attempts are exhausted is dropped unmarked.       *)
LookAtSnapshotDropsExhausted(r) ==
    /\ pc[r] = "look"
    /\ Goto(r, IF \/ parquetFile[current[r]] # PARQUET_FILE_PENDING
                  \/ listed[r][current[r]] >= MaxAttempts
               THEN "drain" ELSE "put")
    /\ UNCHANGED <<catalogVars, current, callVars, cache, mtime, irods>>

(* Mutant: gives up one attempt early.                                     *)
LookAtSnapshotGivesUpEarly(r) ==
    /\ pc[r] = "look"
    /\ Goto(r, IF parquetFile[current[r]] # PARQUET_FILE_PENDING THEN "drain"
               ELSE IF listed[r][current[r]] + 1 >= MaxAttempts THEN "giveup"
               ELSE "put")
    /\ UNCHANGED <<catalogVars, current, callVars, cache, mtime, irods>>

(* Mutant: one attempt more than max_attempts allows.                      *)
LookAtSnapshotGivesUpLate(r) ==
    /\ pc[r] = "look"
    /\ Goto(r, IF parquetFile[current[r]] # PARQUET_FILE_PENDING THEN "drain"
               ELSE IF listed[r][current[r]] > MaxAttempts THEN "giveup"
               ELSE "put")
    /\ UNCHANGED <<catalogVars, current, callVars, cache, mtime, irods>>

(* Mutant: does not ask whether the snapshot was committed meanwhile.      *)
LookAtSnapshotBlindly(r) ==
    /\ pc[r] = "look"
    /\ Goto(r, IF listed[r][current[r]] >= MaxAttempts THEN "giveup" ELSE "put")
    /\ UNCHANGED <<catalogVars, current, callVars, cache, mtime, irods>>

(* get_snapshot, and the branch taken on what it returned: the row may     *)
(* change before the recoverer acts on the branch.                         *)
LookAtSnapshot(r) ==
    /\ pc[r] = "look"
    /\ Goto(r, IF parquetFile[current[r]] # PARQUET_FILE_PENDING THEN "drain"
               ELSE IF listed[r][current[r]] >= MaxAttempts THEN "giveup"
               ELSE "put")
    /\ UNCHANGED <<catalogVars, current, callVars, cache, mtime, irods>>

GiveUp(r) ==
    /\ pc[r] = "giveup"
    /\ UpdateSnapshotParquetFile(current[r], PARQUET_FILE_FAILED)
    /\ Goto(r, "drain")
    /\ UNCHANGED <<walTable, clock, current, callVars, cache, mtime, irods>>

BumpAttempt(r) ==
    /\ pc[r] = "bump"
    /\ BumpPendingPushAttempt(current[r])
    /\ Goto(r, "scan")
    /\ UNCHANGED <<snapshotTable, clock, current, callVars, cache, mtime, irods>>

EndRecovery(r) ==
    /\ pc[r] = "scan"
    /\ batch[r] = {}
    /\ EndCall(r)
    /\ UNCHANGED <<catalogVars, cache, mtime, irods>>

-----------------------------------------------------------------------------
(* The process dies, or the statement it runs raises, whether or not the   *)
(* statement took effect.  The catalog, the zone and the cache survive.    *)
Abandon(p) ==
    /\ pc[p] # "idle"
    /\ EndCall(p)
    /\ UNCHANGED <<catalogVars, cache, mtime, irods>>

PushStep(p) ==
    \/ PutRejected(p)
    \/ PutStored(p)
    \/ PutReplyLost(p)
    \/ VerifyPasses(p)
    \/ VerifyRaises(p)
    \/ FlipToNamed(p)
    \/ DrainWal(p)

WriterStep(w) ==
    \/ ReadParent(w)
    \/ CreateSnapshot(w)
    \/ LogPush(w)
    \/ BeginCopy(w)
    \/ EndCopy(w)
    \/ CopyFails(w)
    \/ Rollback(w)
    \/ EvictIfOver(w)

RecovererStep(r) ==
    \/ ListWal(r)
    \/ NextRow(r)
    \/ LookAtSnapshot(r)
    \/ GiveUp(r)
    \/ BumpAttempt(r)
    \/ EndRecovery(r)

Next ==
    \/ \E w \in Writers : WriterStep(w)
    \/ \E r \in Recoverers : RecovererStep(r)
    \/ \E p \in Processes : PushStep(p) \/ Abandon(p)

Spec == Init /\ [][Next]_vars

(* Calls that started end (no statement blocks for ever), and recovery is  *)
(* run again and again ("on service start, after an iRODS outage",         *)
(* docs/user/cli.md:199).  Strong fairness per statement says only that    *)
(* not every run of recovery dies at that same statement.  Nothing is      *)
(* assumed of the pushes: every one of them may be rejected.               *)
WriterEnds(w) ==
    \/ CreateSnapshot(w) \/ LogPush(w) \/ BeginCopy(w) \/ EndCopy(w)
    \/ Rollback(w) \/ EvictIfOver(w) \/ PushStep(w) \/ Abandon(w)

PutReturns(r) == PutRejected(r) \/ PutStored(r) \/ PutReplyLost(r)
VerifyReturns(r) == VerifyPasses(r) \/ VerifyRaises(r)

Fairness ==
    /\ \A w \in Writers : WF_vars(WriterEnds(w))
    /\ \A r \in Recoverers :
          /\ SF_vars(ListWal(r))
          /\ SF_vars(NextRow(r))
          /\ SF_vars(LookAtSnapshot(r))
          /\ SF_vars(GiveUp(r))
          /\ SF_vars(PutReturns(r))
          /\ SF_vars(VerifyReturns(r))
          /\ SF_vars(BumpAttempt(r))
          /\ SF_vars(FlipToNamed(r))
          /\ SF_vars(DrainWal(r))
          /\ WF_vars(EndRecovery(r))

FairSpec == Spec /\ Fairness
-----------------------------------------------------------------------------
(* What the protocol promises *)

Pushed(id) == createdAt[id] # 0     \* the snapshot took the WAL path

(* A parent pointer names an older snapshot of the same project whose row  *)
(* is there and no longer pending: a writer that dies, rolls back or is    *)
(* recovered later never leaves a pointer dangling (client.py:289-292).    *)
ParentIsSettled ==
    \A id \in SnapshotIds :
       SnapshotExists(id) /\ parent[id] # NULL =>
          /\ parent[id] < id
          /\ parquetFile[parent[id]] \in {"named", PARQUET_FILE_FAILED}
          /\ projectOf[parent[id]] = projectOf[id]

(* A snapshot on the WAL path is either settled or still has the WAL row   *)
(* recovery finds it by, and every WAL row has its snapshot: no order of   *)
(* crashes strands a push (architecture.md:151-153).                       *)
InFlightPushIsLogged ==
    /\ \A id \in SnapshotIds :
          Pushed(id) /\ parquetFile[id] = PARQUET_FILE_PENDING => id \in wal
    /\ \A id \in wal : SnapshotExists(id)

(* Recovery writes 'failed' only after max_attempts recorded failures of   *)
(* that very push, although it judges by attempts listed at its start      *)
(* (irods_sync.py:345).                                                    *)
GaveUpOnlyAfterAttempts ==
    \A id \in SnapshotIds :
       parquetFile[id] = PARQUET_FILE_FAILED => attempts[id] >= MaxAttempts

(* A push is not retried without end: attempts judged by an old list       *)
(* overshoot max_attempts by at most one for each other recovery that was  *)
(* under way, however the runs overlap (irods_sync.py:323-345).            *)
AttemptsAreBounded ==
    \A id \in SnapshotIds :
       attempts[id] # 0 => attempts[id] < MaxAttempts + Cardinality(Recoverers)

(* Push before commit: a committed snapshot of the WAL path has its whole  *)
(* Parquet in iRODS, whoever committed it and whatever crashed before.     *)
CommittedIsDurable ==
    \A id \in SnapshotIds :
       Pushed(id) /\ parquetFile[id] = "named" => irods[id] = "whole"

(* A committed filename is never changed (docs/dev/schema.md:90-91).       *)
CommittedNameIsFinal ==
    [][\A id \in SnapshotIds :
          parquetFile[id] = "named" => parquetFile'[id] = "named"]_vars

(* The outcome of a snapshot is final: once recovery or its writer wrote a *)
(* name or 'failed', no crash, retry or later run of recovery turns one    *)
(* into the other (irods_sync.py:339-357, docs/dev/schema.md:90-91).       *)
SettledIsFinal ==
    [][\A id \in SnapshotIds :
          parquetFile[id] \in {"named", PARQUET_FILE_FAILED} =>
             parquetFile'[id] = parquetFile[id]]_vars

(* Every logged push is settled and leaves the log, even when each push    *)
(* fails and a run lists a single row: the head of the queue cannot stall  *)
(* the rows behind it for ever (irods_sync.py:345-357).                    *)
PendingPushesDrain ==
    \A id \in SnapshotIds :
       id \in wal ~> /\ id \notin wal
                     /\ parquetFile[id] \in {"named", PARQUET_FILE_FAILED}
=============================================================================
