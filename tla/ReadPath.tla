------------------------------ MODULE ReadPath ------------------------------
(***************************************************************************)
(* The read calls of DuckLakeClient (get_avus_as_of, get_history, diff)    *)
(* beside the write path: list the committed snapshots, pull what the      *)
(* local cache lacks from the zone, then query whatever Parquet files the  *)
(* project's cache directory holds.  The three calls differ only in the    *)
(* query, which is left out: an answer is the set of snapshots it is       *)
(* computed from.                                                          *)
(***************************************************************************)
EXTENDS WriteProtocol

CONSTANTS
    SyncReaders,     \* callers of a read with an iRODS session
    LocalReaders,    \* callers without one: they read the cache as it is
    ReaderHostOf,    \* [Readers -> Hosts]
    ReadLimit,       \* _ENSURE_CACHED_LIMIT
    PullsMayFail     \* a pull of an object that is there may raise

Readers == SyncReaders \cup LocalReaders

ASSUME ReadersAssumption ==
    /\ SyncReaders \cap LocalReaders = {}
    /\ ReaderHostOf \in [Readers -> Hosts]
    /\ ReadLimit \in Nat
    /\ PullsMayFail \in BOOLEAN

VARIABLE
    call    \* [Readers -> the locals of a read, with two history fields:
            \*  promised, the snapshots committed when the read began, and
            \*  disturbed, whether a pull failed or a file was evicted since]

readVars == <<nextId, parquetFile, projectOf, parent,
              wal, createdAt, attempts, clock,
              pc, current, readParent, target, batch, listed,
              cache, mtime, irods, call>>

NoRead == [phase |-> "idle", project |-> NoProject, wanted |-> {},
           files |-> {}, promised |-> {}, disturbed |-> FALSE]

ReadInit == Init /\ call = [r \in Readers |-> NoRead]

ReaderFile(r, id) == cache[ReaderHostOf[r]][id]

NamedOf(p) ==
    {id \in SnapshotIds : projectOf[id] = p /\ parquetFile[id] = "named"}

(* Mutant: file names made from the ids of all rows of the project.        *)
WantedOfEveryRow(p) ==
    {id \in SnapshotIds : SnapshotExists(id) /\ projectOf[id] = p}

(* The file names ensure_cached does not skip as sentinels.                *)
WantedOf(p) ==
    {id \in ListSnapshots(p, ReadLimit) :
       parquetFile[id] \notin {PARQUET_FILE_PENDING, PARQUET_FILE_FAILED}}

BeginRead(r) ==
    /\ call[r].phase = "idle"
    /\ \E p \in Projects :
          call' = [call EXCEPT ![r] =
                     [NoRead EXCEPT !.phase = IF r \in SyncReaders THEN "ensure"
                                                                   ELSE "open",
                                    !.project = p,
                                    !.wanted = IF r \in SyncReaders THEN WantedOf(p)
                                                                    ELSE {},
                                    !.promised = NamedOf(p)]]
    /\ UNCHANGED vars

(* ensure_cached visits the names newest first.                            *)
IsNextWanted(r, id) ==
    /\ call[r].phase = "ensure"
    /\ id \in call[r].wanted
    /\ \A other \in call[r].wanted : other <= id

(* Mutant: break where the loop continues.                                 *)
SkipCachedStops(r) ==
    \E id \in SnapshotIds :
       /\ IsNextWanted(r, id)
       /\ ReaderFile(r, id) # "absent"
       /\ call' = [call EXCEPT ![r].wanted = {}]
       /\ UNCHANGED vars

SkipCached(r) ==
    \E id \in SnapshotIds :
       /\ IsNextWanted(r, id)
       /\ ReaderFile(r, id) # "absent"
       /\ call' = [call EXCEPT ![r].wanted = @ \ {id}]
       /\ UNCHANGED vars

StorePulledFile(r, id, content) ==
    /\ cache' = [cache EXCEPT ![ReaderHostOf[r]][id] = content]
    /\ mtime' = [mtime EXCEPT ![ReaderHostOf[r]][id] = clock]
    /\ clock' = clock + 1
    /\ UNCHANGED <<snapshotTable, walTable, pc, current, callVars, irods>>

(* The download goes straight to the final name.                           *)
BeginPull(r) ==
    \E id \in SnapshotIds :
       /\ IsNextWanted(r, id)
       /\ ReaderFile(r, id) = "absent"
       /\ irods[id] # "absent"
       /\ StorePulledFile(r, id, "partial")
       /\ call' = [call EXCEPT ![r].phase = "pulling"]

PulledId(r) == CHOOSE id \in call[r].wanted :
                  \A other \in call[r].wanted : other <= id

(* A file evicted during the download is completed without a name; a       *)
(* damaged object is as unreadable as one cut short.                       *)
EndPull(r) ==
    /\ call[r].phase = "pulling"
    /\ IF ReaderFile(r, PulledId(r)) = "absent"
         THEN UNCHANGED vars
         ELSE StorePulledFile(r, PulledId(r),
                IF irods[PulledId(r)] = "whole" THEN "whole" ELSE "partial")
    /\ call' = [call EXCEPT ![r].phase = "ensure",
                            ![r].wanted = @ \ {PulledId(r)}]

(* pull raises and ends ensure_cached; the caller only logs it.  What was  *)
(* downloaded so far stays.                                                *)
PullMissing(r) ==
    \E id \in SnapshotIds :
       /\ IsNextWanted(r, id)
       /\ ReaderFile(r, id) = "absent"
       /\ irods[id] = "absent"
       /\ call' = [call EXCEPT ![r].phase = "open"]
       /\ UNCHANGED vars

PullFails(r) ==
    /\ PullsMayFail
    /\ \/ call[r].phase = "pulling"
       \/ \E id \in SnapshotIds : IsNextWanted(r, id) /\ ReaderFile(r, id) = "absent"
    /\ call' = [call EXCEPT ![r].phase = "open", ![r].disturbed = TRUE]
    /\ UNCHANGED vars

(* The view is created over the files that are in the directory now.       *)
OpenLake(r) ==
    /\ \/ call[r].phase = "open"
       \/ call[r].phase = "ensure" /\ call[r].wanted = {}
    /\ call' = [call EXCEPT ![r].phase = "query",
                            ![r].files = {id \in SnapshotIds :
                               /\ projectOf[id] = call[r].project
                               /\ ReaderFile(r, id) # "absent"}]
    /\ UNCHANGED vars

(* The query raises when a file of the view is cut short or gone.          *)
QueryLake(r) ==
    /\ call[r].phase = "query"
    /\ call' = [call EXCEPT ![r] =
                  IF \A id \in call[r].files : ReaderFile(r, id) = "whole"
                    THEN [@ EXCEPT !.phase = "answered", !.wanted = {}]
                    ELSE NoRead]
    /\ UNCHANGED vars

(* The call returns, or the process dies at any earlier point.             *)
EndRead(r) ==
    /\ call[r].phase # "idle"
    /\ call' = [call EXCEPT ![r] = NoRead]
    /\ UNCHANGED vars

ReaderStep(r) ==
    \/ BeginRead(r)
    \/ SkipCached(r)
    \/ BeginPull(r)
    \/ EndPull(r)
    \/ PullMissing(r)
    \/ PullFails(r)
    \/ OpenLake(r)
    \/ QueryLake(r)
    \/ EndRead(r)

FileVanishes(h) ==
    \E id \in SnapshotIds : cache[h][id] # "absent" /\ cache'[h][id] = "absent"

(* A step of the write path; readers under way may lose files to it.       *)
WriteStep ==
    /\ Next
    /\ call' = [r \in Readers |->
                  IF call[r].phase # "idle" /\ FileVanishes(ReaderHostOf[r])
                    THEN [call[r] EXCEPT !.disturbed = TRUE]
                    ELSE call[r]]

ReadNext ==
    \/ WriteStep
    \/ \E r \in Readers : ReaderStep(r)

ReadSpec == ReadInit /\ [][ReadNext]_readVars

-----------------------------------------------------------------------------
(* What a read promises *)

Answered(r) == call[r].phase = "answered"

(* A read with a session answers from every snapshot committed when it     *)
(* began, whichever were cached, evicted, failed or in flight, unless a    *)
(* pull failed or a file was evicted meanwhile or a snapshot was recorded  *)
(* without a session (client.py:179-202).                                  *)
AnswerIsComplete ==
    \A r \in SyncReaders :
       /\ Answered(r)
       /\ ~call[r].disturbed
       /\ \A id \in call[r].promised : Pushed(id)
       => call[r].promised \subseteq call[r].files

WriteHosts == {HostOf[p] : p \in Processes}

(* A host that only reads never answers from a snapshot that is not        *)
(* settled: nothing in flight reaches its cache (irods_sync.py:264-281).   *)
RemoteAnswerIsSettled ==
    \A r \in Readers :
       Answered(r) /\ ReaderHostOf[r] \notin WriteHosts =>
          \A id \in call[r].files :
             parquetFile[id] \in {"named", PARQUET_FILE_FAILED}
=============================================================================
