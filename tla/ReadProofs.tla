----------------------------- MODULE ReadProofs -----------------------------
(***************************************************************************)
(* Proofs about ReadPath, for every set of readers, writers, recoverers,   *)
(* hosts and projects.                                                     *)
(***************************************************************************)
EXTENDS ReadInvariants, WriteProofs, FiniteSetTheorems

USE DEF PARQUET_FILE_PENDING, PARQUET_FILE_FAILED, NULL

-----------------------------------------------------------------------------
(* What the write path does to the state that reads use                    *)

(* The steps of the write path that change a cache act on the cache of the *)
(* host they run on.                                                       *)
LEMMA WritesStayHome ==
    ASSUME TypeOK, [Next]_vars, NEW h \in Hosts, h \notin WriteHosts
    PROVE  cache'[h] = cache[h]
<1> USE ProcessSets, HostOfAssumption DEF WriteHosts
<1>0. cache \in [Hosts -> [SnapshotIds -> FileStates]]
  BY DEF TypeOK
<1>1. ASSUME NEW w \in Writers, BeginCopy(w) \/ EndCopy(w) \/ EvictIfOver(w)
      PROVE  cache'[h] = cache[h]
  <2>0. HostOf[w] # h
    OBVIOUS
  <2>1. CASE BeginCopy(w) \/ EndCopy(w)
    BY <1>0, <2>0, <2>1 DEF BeginCopy, EndCopy, StoreLocalFile
  <2>2. CASE EvictIfOver(w)
    BY <1>0, <2>0, <2>2 DEF EvictIfOver
  <2> QED BY <1>1, <2>1, <2>2
<1> QED BY <1>1, CacheEffects

(* Once an object is in the zone, nothing removes it.                      *)
LEMMA ObjectsStay ==
    ASSUME TypeOK, [Next]_vars, NEW id \in SnapshotIds, irods[id] # "absent"
    PROVE  irods'[id] # "absent"
<1> SUFFICES ASSUME NEW p \in Processes, PutStored(p) \/ PutReplyLost(p)
             PROVE  irods'[id] # "absent"
  BY OnlyPutsStore
<1> QED BY DEF PutStored, PutReplyLost, StoreObject, TypeOK

(* Whoever is about to compare checksums or to commit has put the object.  *)
LEMMA PutsPrecedeFlipsKept ==
    ASSUME CoreInv, PutsPrecedeFlips, [Next]_vars
    PROVE  PutsPrecedeFlips'
<1> USE ProcessSets
<1>0. TypeOK
  BY DEF CoreInv
<1>1. ASSUME NEW p \in Pushers, pc'[p] \in {"verify", "flip"}
      PROVE  irods'[current'[p]] # "absent"
  <2>0. /\ pc[p] \in {"put", "verify", "flip"} => current[p] \in SnapshotIds
        /\ pc[p] = "verify" => irods[current[p]] # "absent"
        /\ p \in Writers => p \in SyncWriters
    BY ActorsHoldRows DEF CoreInv, WriterIds, RecovererRows, HasId, Pushers,
       Writers, PutsPrecedeFlips
  <2>1. CASE SameCall(p)
    BY <1>0, <1>1, <2>0, <2>1, ObjectsStay DEF SameCall, PutsPrecedeFlips
  <2>2. CASE PutStored(p)
    BY <1>0, <2>0, <2>2 DEF PutStored, StoreObject, callVars, TypeOK
  <2>3. CASE VerifyPasses(p)
    BY <2>0, <2>3 DEF VerifyPasses
  <2>4. pc \in [Processes -> WriterSteps \cup RecovererSteps]
    BY <1>0 DEF TypeOK
  <2>5. ~CallEnded(p)
    BY <1>1 DEF CallEnded
  <2>6. ~FlipToNamed(p) /\ ~DrainWal(p)
    BY <1>1, <2>4 DEF FlipToNamed, DrainWal, Goto
  <2>7. p \in Writers => ~WriterMove(p)
    BY <1>1, <2>0, <2>4
       DEF WriterMove, ReadParent, CreateSnapshot, LogPush, BeginCopy, EndCopy,
           CopyFails, Goto
  <2>8. ~RecovererMove(p)
    BY <1>1, <2>4
       DEF RecovererMove, ListWal, NextRow, LookAtSnapshot, GiveUp, BumpAttempt,
           PushFailed, Goto
  <2> QED BY <1>0, <2>1, <2>2, <2>3, <2>5, <2>6, <2>7, <2>8, CallEffects DEF PushMove
<1>2. ASSUME NEW id \in SnapshotIds, Pushed(id)', parquetFile'[id] = "named"
      PROVE  irods'[id] # "absent"
  <2>1. CASE parquetFile[id] = "named"
    BY <1>0, <1>2, <2>1, LoggedBeforeSettled, ObjectsStay DEF PutsPrecedeFlips, Settled
  <2>2. CASE parquetFile[id] # "named"
    <3>1. PICK p \in Processes : FlipToNamed(p) /\ current[p] = id
      BY <1>2, <2>2, OnlyFlipsCommit
    <3>2. Pushed(id)
      BY <1>2, <3>1 DEF FlipToNamed, walTable, Pushed
    <3>3. p \in Pushers
      BY <3>1, <3>2 DEF FlipToNamed, CoreInv, WriterIds, LocalRow, HasId, Processes,
         Writers, Pushers
    <3> QED BY <3>1, <3>3 DEF FlipToNamed, PutsPrecedeFlips
  <2> QED BY <2>1, <2>2
<1> QED BY <1>1, <1>2 DEF PutsPrecedeFlips, Pushed
-----------------------------------------------------------------------------
(* What reads do to the state of the write path *)

(* A pull writes one file of the reader's host and moves the clock; that   *)
(* disturbs nothing the catalog's invariants speak of.                     *)
LEMMA PullsKeepCore ==
    ASSUME CoreInv, NEW r \in Readers, NEW id \in SnapshotIds,
           NEW content \in FileStates, StorePulledFile(r, id, content)
    PROVE  /\ CoreInv'
           /\ \A h \in Hosts, i \in SnapshotIds :
                 cache'[h][i] = IF h = ReaderHostOf[r] /\ i = id THEN content
                                                                ELSE cache[h][i]
<1> USE ReadersAssumption DEF StorePulledFile, snapshotTable, walTable, callVars
<1>1. /\ TypeOK
      /\ ReaderHostOf[r] \in Hosts
      /\ cache \in [Hosts -> [SnapshotIds -> FileStates]]
      /\ mtime \in [Hosts -> [SnapshotIds -> Nat]]
      /\ clock \in Nat /\ clock > 0
  BY DEF CoreInv, TypeOK, CatalogTypeOK, LoggedRows
<1>2. /\ cache' \in [Hosts -> [SnapshotIds -> FileStates]]
      /\ \A h \in Hosts, i \in SnapshotIds :
            cache'[h][i] = IF h = ReaderHostOf[r] /\ i = id THEN content
                                                           ELSE cache[h][i]
  BY <1>1
<1>3. mtime' \in [Hosts -> [SnapshotIds -> Nat]]
  BY <1>1
<1>4. clock' \in Nat /\ clock' > 0
  BY <1>1
<1>5. TypeOK'
  BY <1>1, <1>2, <1>3, <1>4 DEF TypeOK, CatalogTypeOK
<1>6. UNCHANGED <<nextId, parquetFile, projectOf, parent, wal, createdAt, attempts,
                  pc, current, readParent, target, batch, listed, irods>>
  OBVIOUS
<1>7. UnusedIds' /\ LoggedRows' /\ ParentIsSettled' /\ GaveUpOnlyAfterAttempts'
  BY <1>4, <1>6 DEF CoreInv, UnusedIds, LoggedRows, Pushed, SnapshotExists,
     ParentIsSettled, GaveUpOnlyAfterAttempts
<1>8. WriterIds' /\ ParentsRead' /\ RecovererRows'
  BY <1>6 DEF CoreInv, WriterIds, LocalRow, SyncRow, HasId, ParentsRead,
     RecovererRows, Settled, Pushed
<1> QED BY <1>2, <1>5, <1>7, <1>8 DEF CoreInv

(* The steps of a read, by what they change.                               *)
LEMMA ReaderEffects ==
    ASSUME ReadInv, NEW r \in Readers, ReaderStep(r)
    PROVE  \/ UNCHANGED vars
           \/ \E id \in call[r].wanted, content \in {"partial", "whole"} :
                 StorePulledFile(r, id, content)
<1> USE DEF ReadInv, CallInv, CallTypeOK
<1>1. CASE BeginPull(r)
  BY <1>1 DEF BeginPull, IsNextWanted
<1>2. CASE EndPull(r)
  <2>1. PulledId(r) \in call[r].wanted
    BY <1>2 DEF EndPull, PullUnderWay, PulledId
  <2> QED BY <1>2, <2>1 DEF EndPull
<1>3. CASE BeginRead(r) \/ SkipCached(r) \/ PullMissing(r) \/ PullFails(r)
  BY <1>3 DEF BeginRead, SkipCached, PullMissing, PullFails
<1>4. CASE OpenLake(r) \/ QueryLake(r) \/ EndRead(r)
  BY <1>4 DEF OpenLake, QueryLake, EndRead
<1> QED BY <1>1, <1>2, <1>3, <1>4 DEF ReaderStep

(* No file disappears because of a read.                                   *)
LEMMA ReadsKeepShared ==
    ASSUME ReadInv, NEW r \in Readers, ReaderStep(r)
    PROVE  /\ CoreInv' /\ PutsPrecedeFlips' /\ RemoteFilesSettled'
           /\ UNCHANGED <<nextId, parquetFile, projectOf, createdAt, irods>>
           /\ \A h \in Hosts, id \in SnapshotIds :
                 cache[h][id] # "absent" => cache'[h][id] # "absent"
<1>1. CASE UNCHANGED vars
  <2>1. CoreInv'
    BY <1>1, CoreInvStep DEF ReadInv
  <2> QED BY <1>1, <2>1 DEF ReadInv, vars, PutsPrecedeFlips, RemoteFilesSettled,
             Settled, Pushed
<1>2. ASSUME NEW id \in call[r].wanted, NEW content \in {"partial", "whole"},
             StorePulledFile(r, id, content)
      PROVE  /\ CoreInv' /\ PutsPrecedeFlips' /\ RemoteFilesSettled'
             /\ UNCHANGED <<nextId, parquetFile, projectOf, createdAt, irods>>
             /\ \A h \in Hosts, i \in SnapshotIds :
                   cache[h][i] # "absent" => cache'[h][i] # "absent"
  <2>1. id \in SnapshotIds /\ Settled(id) /\ content \in FileStates
    BY <1>2 DEF ReadInv, CallInv, PromisesKept, CallTypeOK, FileStates
  <2>2. UNCHANGED <<nextId, parquetFile, projectOf, createdAt, irods, pc, current>>
    BY <1>2 DEF StorePulledFile, snapshotTable, walTable
  <2>3. /\ CoreInv'
        /\ \A h \in Hosts, i \in SnapshotIds :
              cache'[h][i] = IF h = ReaderHostOf[r] /\ i = id THEN content
                                                             ELSE cache[h][i]
    BY <1>2, <2>1, PullsKeepCore DEF ReadInv
  <2>4. RemoteFilesSettled'
    BY <2>1, <2>2, <2>3 DEF ReadInv, RemoteFilesSettled, Settled, WriteHosts
  <2>5. PutsPrecedeFlips'
    BY <2>2 DEF ReadInv, PutsPrecedeFlips, Pushed
  <2> QED BY <2>2, <2>3, <2>4, <2>5
<1> QED BY <1>1, <1>2, ReaderEffects
-----------------------------------------------------------------------------
(* Calls that wait while others move *)

(* What every step leaves to a read under way.                             *)
SharedKept ==
    \A id \in SnapshotIds :
       /\ Settled(id) => /\ Settled(id)'
                         /\ projectOf'[id] = projectOf[id]
                         /\ Pushed(id)' <=> Pushed(id)
       /\ irods[id] # "absent" => irods'[id] # "absent"

LEMMA WritesKeepShared ==
    ASSUME ReadInv, [Next]_vars
    PROVE  /\ CoreInv' /\ PutsPrecedeFlips' /\ RemoteFilesSettled'
           /\ SharedKept
<1>0. CoreInv /\ TypeOK /\ PutsPrecedeFlips /\ RemoteFilesSettled
  BY DEF ReadInv, CoreInv
<1>1. CoreInv'
  BY <1>0, CoreInvStep
<1>2. SharedKept
  <2>1. \A id \in SnapshotIds : Settled(id) => id # nextId
    BY <1>0 DEF CoreInv, UnusedIds, Settled, TypeOK, CatalogTypeOK
  <2> QED BY <1>0, <2>1, StepKeepsRows, LoggedBeforeSettled, ObjectsStay
          DEF SharedKept, RowsAreKept
<1>3. RemoteFilesSettled'
  <2>1. ASSUME NEW h \in Hosts, h \notin WriteHosts, NEW id \in SnapshotIds,
               cache'[h][id] # "absent"
        PROVE  Settled(id)'
    <3>1. cache'[h] = cache[h]
      BY <1>0, <2>1, WritesStayHome
    <3> QED BY <1>0, <1>2, <2>1, <3>1 DEF RemoteFilesSettled, SharedKept
  <2> QED BY <2>1 DEF RemoteFilesSettled, WriteHosts, Settled
<1> QED BY <1>0, <1>1, <1>2, <1>3, PutsPrecedeFlipsKept

(* A call that is left alone loses no file, or is not under way, or is     *)
(* marked as disturbed.                                                    *)
CallWaits(r) ==
    \/ /\ call'[r] = call[r]
       /\ call[r].phase # "idle" =>
             \A id \in SnapshotIds :
                ReaderFile(r, id) # "absent" => ReaderFile(r, id)' # "absent"
    \/ call'[r] = [call[r] EXCEPT !.disturbed = TRUE]

LEMMA WaitingCallsKept ==
    ASSUME CallTypeOK, SharedKept, NEW r \in Readers, CallInv(r), CallWaits(r)
    PROVE  CallInv(r)' /\ (CallComplete(r) => CallComplete(r)')
<1>1. /\ call'[r].phase = call[r].phase
      /\ call'[r].project = call[r].project
      /\ call'[r].wanted = call[r].wanted
      /\ call'[r].files = call[r].files
      /\ call'[r].promised = call[r].promised
  BY DEF CallWaits, CallTypeOK
<1>2. /\ call[r].wanted \subseteq SnapshotIds
      /\ call[r].promised \subseteq SnapshotIds
      /\ call[r].files \subseteq SnapshotIds
  BY DEF CallTypeOK
<1>3. ASSUME ~call'[r].disturbed
      PROVE  /\ ~call[r].disturbed
             /\ call[r].phase # "idle" =>
                   \A id \in SnapshotIds :
                      ReaderFile(r, id) # "absent" => ReaderFile(r, id)' # "absent"
  BY <1>3 DEF CallWaits, CallTypeOK
<1>4. PromisesKept(r)'
  BY <1>1, <1>2 DEF CallInv, PromisesKept, SharedKept, Settled, Pushed
<1>5. FilesSettled(r)'
  BY <1>1, <1>2 DEF CallInv, FilesSettled, SharedKept, Settled, WriteHosts
<1>6. PullUnderWay(r)'
  BY <1>1, <1>2, <1>3 DEF CallInv, PullUnderWay, ReaderFile
<1>7. ASSUME CallComplete(r), Undisturbed(r)', NEW id \in call[r].promised
      PROVE  PromiseOnItsWay(r, id)'
  <2>1. Undisturbed(r)
    BY <1>1, <1>2, <1>3, <1>7
       DEF Undisturbed, CallInv, PromisesKept, SharedKept, Pushed, Settled
  <2>2. PromiseOnItsWay(r, id)
    BY <1>7, <2>1 DEF CallComplete
  <2> QED BY <1>1, <1>2, <1>3, <1>7, <2>2 DEF PromiseOnItsWay, Undisturbed, ReaderFile
<1> QED BY <1>1, <1>4, <1>5, <1>6, <1>7 DEF CallInv, CallComplete

(* The write path makes every read wait.                                   *)
LEMMA WritersMakeCallsWait ==
    ASSUME TypeOK, CallTypeOK, WriteStep, NEW r \in Readers
    PROVE  CallWaits(r)
<1>1. ReaderHostOf[r] \in Hosts
  BY ReadersAssumption
<1>2. CASE call[r].phase # "idle" /\ FileVanishes(ReaderHostOf[r])
  BY <1>2 DEF WriteStep, CallWaits
<1>3. CASE ~(call[r].phase # "idle" /\ FileVanishes(ReaderHostOf[r]))
  BY <1>3 DEF WriteStep, CallWaits, FileVanishes, ReaderFile
<1> QED BY <1>2, <1>3

(* So does another reader.                                                 *)
LEMMA ReadersMakeOthersWait ==
    ASSUME ReadInv, NEW q \in Readers, ReaderStep(q), NEW r \in Readers, r # q
    PROVE  CallWaits(r)
<1>1. call'[r] = call[r]
  BY DEF ReadInv, CallTypeOK, ReaderStep, BeginRead, SkipCached, BeginPull, EndPull,
     PullMissing, PullFails, OpenLake, QueryLake, EndRead
<1>2. ReaderHostOf[r] \in Hosts
  BY ReadersAssumption
<1> QED BY <1>1, <1>2, ReadsKeepShared DEF CallWaits, ReaderFile
-----------------------------------------------------------------------------
(* The steps of a read of its own                                          *)

(* The limit of the listing is not reached.                                *)
LEMMA ListingIsWhole ==
    ASSUME TypeOK, ReadLimit >= MaxSnapshots, NEW p \in Projects
    PROVE  ListSnapshots(p, ReadLimit) = CommittedOf(p)
<1> SUFFICES ASSUME NEW id \in CommittedOf(p)
             PROVE  Cardinality({newer \in CommittedOf(p) : newer > id}) < ReadLimit
  BY DEF ListSnapshots
<1> DEFINE Newer == {newer \in CommittedOf(p) : newer > id}
<1>1. id \in 1..MaxSnapshots /\ MaxSnapshots \in Nat
  BY MaxSnapshotsAssumption DEF CommittedOf, SnapshotIds
<1>2. Newer \subseteq (id + 1)..MaxSnapshots
  BY <1>1 DEF CommittedOf, SnapshotIds
<1>3. /\ IsFiniteSet((id + 1)..MaxSnapshots)
      /\ Cardinality((id + 1)..MaxSnapshots) <= MaxSnapshots - 1
  <2>1. id + 1 \in Int /\ MaxSnapshots \in Int
    BY <1>1
  <2>2. /\ IsFiniteSet((id + 1)..MaxSnapshots)
        /\ Cardinality((id + 1)..MaxSnapshots) =
             IF id + 1 > MaxSnapshots THEN 0 ELSE MaxSnapshots - (id + 1) + 1
    BY ONLY <2>1, FS_Interval
  <2> QED BY <1>1, <2>2
<1>4. Cardinality(Newer) <= Cardinality((id + 1)..MaxSnapshots) /\ IsFiniteSet(Newer)
  BY <1>2, <1>3, FS_Subset
<1>5. Cardinality(Newer) \in Nat /\ Cardinality((id + 1)..MaxSnapshots) \in Nat
  BY <1>3, <1>4, FS_CardinalityType
<1> QED BY <1>1, <1>3, <1>4, <1>5, ReadersAssumption

(* What a listing leads to is committed, and all of it if the limit is not *)
(* reached.                                                                *)
LEMMA WantedIsNamed ==
    ASSUME TypeOK, NEW p \in Projects
    PROVE  /\ WantedOf(p) \subseteq NamedOf(p)
           /\ ReadLimit >= MaxSnapshots => WantedOf(p) = NamedOf(p)
<1>1. parquetFile \in [SnapshotIds -> FileNames]
  BY DEF TypeOK, CatalogTypeOK
<1>2. WantedOf(p) \subseteq NamedOf(p)
  BY <1>1 DEF WantedOf, NamedOf, ListSnapshots, CommittedOf, SnapshotExists, FileNames
<1>3. ASSUME ReadLimit >= MaxSnapshots PROVE NamedOf(p) \subseteq WantedOf(p)
  BY <1>1, <1>3, ListingIsWhole
     DEF WantedOf, NamedOf, CommittedOf, SnapshotExists, FileNames
<1> QED BY <1>2, <1>3

LEMMA CallTypesKept ==
    ASSUME CallTypeOK, TypeOK, ReadNext \/ UNCHANGED readVars
    PROVE  CallTypeOK'
<1> USE DEF CallTypeOK, Phases
<1>0. NoRead \in [phase : Phases, project : Projects \cup {NoProject},
                  wanted : SUBSET SnapshotIds, files : SUBSET SnapshotIds,
                  promised : SUBSET SnapshotIds, disturbed : BOOLEAN]
  BY DEF NoRead
<1>1. CASE WriteStep
  BY <1>1 DEF WriteStep
<1>2. ASSUME NEW r \in Readers, ReaderStep(r) PROVE CallTypeOK'
  <2>1. CASE BeginRead(r)
    <3>1. PICK p \in Projects :
             call' = [call EXCEPT ![r] =
                     [NoRead EXCEPT !.phase = IF r \in SyncReaders THEN "ensure"
                                                                   ELSE "open",
                                    !.project = p,
                                    !.wanted = IF r \in SyncReaders THEN WantedOf(p)
                                                                    ELSE {},
                                    !.promised = NamedOf(p)]]
      BY <2>1 DEF BeginRead
    <3>2. WantedOf(p) \subseteq SnapshotIds /\ NamedOf(p) \subseteq SnapshotIds
      BY DEF WantedOf, NamedOf, ListSnapshots, CommittedOf
    <3> QED BY <1>0, <3>1, <3>2
  <2>2. CASE SkipCached(r) \/ BeginPull(r) \/ EndPull(r)
    BY <2>2 DEF SkipCached, BeginPull, EndPull
  <2>3. CASE PullMissing(r) \/ PullFails(r)
    BY <2>3 DEF PullMissing, PullFails
  <2>4. CASE OpenLake(r)
    <3>1. PICK opened \in SUBSET SnapshotIds :
             call' = [call EXCEPT ![r].phase = "query", ![r].files = opened]
      BY <2>4 DEF OpenLake
    <3> HIDE DEF CallTypeOK
    <3>2. call[r] \in [phase : Phases, project : Projects \cup {NoProject},
                       wanted : SUBSET SnapshotIds, files : SUBSET SnapshotIds,
                       promised : SUBSET SnapshotIds, disturbed : BOOLEAN]
      BY DEF CallTypeOK
    <3>3. [call[r] EXCEPT !.phase = "query", !.files = opened]
            \in [phase : Phases, project : Projects \cup {NoProject},
                wanted : SUBSET SnapshotIds, files : SUBSET SnapshotIds,
                promised : SUBSET SnapshotIds, disturbed : BOOLEAN]
      BY <3>2
    <3>4. call' = [call EXCEPT ![r] = [call[r] EXCEPT !.phase = "query",
                                                      !.files = opened]]
      BY <3>1 DEF CallTypeOK
    <3> QED BY <3>3, <3>4 DEF CallTypeOK
  <2>5. CASE QueryLake(r)
    BY <1>0, <2>5 DEF QueryLake
  <2>6. CASE EndRead(r)
    BY <1>0, <2>6 DEF EndRead
  <2> QED BY <1>2, <2>1, <2>2, <2>3, <2>4, <2>5, <2>6 DEF ReaderStep
<1>3. CASE UNCHANGED readVars
  BY <1>3 DEF readVars
<1> QED BY <1>1, <1>2, <1>3 DEF ReadNext

(* A read that begins promises what is committed and lists it.             *)
LEMMA BeginReadKeeps ==
    ASSUME ReadInv, NEW r \in Readers, BeginRead(r)
    PROVE  /\ CallInv(r)'
           /\ r \in SyncReaders /\ ReadLimit >= MaxSnapshots => CallComplete(r)'
<1>0. TypeOK /\ CallTypeOK /\ PutsPrecedeFlips
  BY DEF ReadInv, CoreInv
<1>1. PICK p \in Projects :
         call' = [call EXCEPT ![r] =
                 [NoRead EXCEPT !.phase = IF r \in SyncReaders THEN "ensure"
                                                               ELSE "open",
                                !.project = p,
                                !.wanted = IF r \in SyncReaders THEN WantedOf(p)
                                                                ELSE {},
                                !.promised = NamedOf(p)]]
  BY DEF BeginRead
<1>2. /\ call'[r].phase = IF r \in SyncReaders THEN "ensure" ELSE "open"
      /\ call'[r].project = p
      /\ call'[r].wanted = IF r \in SyncReaders THEN WantedOf(p) ELSE {}
      /\ call'[r].files = {}
      /\ call'[r].promised = NamedOf(p)
  BY <1>0, <1>1 DEF CallTypeOK, NoRead
<1>3. /\ WantedOf(p) \subseteq NamedOf(p)
      /\ ReadLimit >= MaxSnapshots => WantedOf(p) = NamedOf(p)
  BY <1>0, WantedIsNamed
<1>4. UNCHANGED <<parquetFile, projectOf, createdAt, irods>>
  BY DEF BeginRead, vars
<1>5. PromisesKept(r)'
  BY <1>0, <1>2, <1>3, <1>4
     DEF PromisesKept, NamedOf, Settled, Pushed, PutsPrecedeFlips
<1>6. FilesSettled(r)' /\ PullUnderWay(r)'
  BY <1>2 DEF FilesSettled, PullUnderWay
<1>7. r \in SyncReaders /\ ReadLimit >= MaxSnapshots => CallComplete(r)'
  BY <1>2, <1>3 DEF CallComplete, PromiseOnItsWay
<1> QED BY <1>5, <1>6, <1>7 DEF CallInv

(* Skipping a cached file.                                                 *)
LEMMA SkipCachedKeeps ==
    ASSUME ReadInv, NEW r \in Readers, SkipCached(r)
    PROVE  CallInv(r)' /\ (CallComplete(r) => CallComplete(r)')
<1>0. CallTypeOK /\ CallInv(r)
  BY DEF ReadInv
<1>1. PICK id \in SnapshotIds :
         /\ IsNextWanted(r, id)
         /\ ReaderFile(r, id) # "absent"
         /\ call' = [call EXCEPT ![r].wanted = @ \ {id}]
         /\ UNCHANGED vars
  BY DEF SkipCached
<1>2. /\ call'[r].phase = "ensure" /\ call[r].phase = "ensure"
      /\ call'[r].project = call[r].project
      /\ call'[r].wanted = call[r].wanted \ {id}
      /\ call'[r].files = call[r].files
      /\ call'[r].promised = call[r].promised
      /\ call'[r].disturbed = call[r].disturbed
  BY <1>0, <1>1 DEF CallTypeOK, IsNextWanted
<1>3. UNCHANGED <<parquetFile, projectOf, createdAt, irods, cache>>
  BY <1>1 DEF vars
<1>4. CallInv(r)'
  BY <1>0, <1>2, <1>3 DEF CallInv, PromisesKept, FilesSettled, PullUnderWay, Settled,
     Pushed, WriteHosts
<1>5. ASSUME CallComplete(r) PROVE CallComplete(r)'
  BY <1>1, <1>2, <1>3, <1>5
     DEF CallComplete, Undisturbed, PromiseOnItsWay, Pushed, ReaderFile
<1> QED BY <1>4, <1>5

(* A pull begins, and the name is there from then on.                      *)
LEMMA BeginPullKeeps ==
    ASSUME ReadInv, NEW r \in Readers, BeginPull(r)
    PROVE  CallInv(r)' /\ (CallComplete(r) => CallComplete(r)')
<1>0. CallTypeOK /\ CallInv(r) /\ CoreInv
  BY DEF ReadInv
<1>1. PICK id \in SnapshotIds :
         /\ IsNextWanted(r, id)
         /\ StorePulledFile(r, id, "partial")
         /\ call' = [call EXCEPT ![r].phase = "pulling"]
  BY DEF BeginPull
<1>2. /\ call'[r].phase = "pulling" /\ call[r].phase = "ensure"
      /\ call'[r].project = call[r].project
      /\ call'[r].wanted = call[r].wanted
      /\ call'[r].files = call[r].files
      /\ call'[r].promised = call[r].promised
      /\ call'[r].disturbed = call[r].disturbed
      /\ id \in call[r].wanted
      /\ \A other \in call[r].wanted : other <= id
  BY <1>0, <1>1 DEF CallTypeOK, IsNextWanted
<1>3. UNCHANGED <<parquetFile, projectOf, createdAt, irods>>
  BY <1>1 DEF StorePulledFile, snapshotTable, walTable
<1>4. \A i \in SnapshotIds :
         ReaderFile(r, i)' = IF i = id THEN "partial" ELSE ReaderFile(r, i)
  BY <1>0, <1>1, PullsKeepCore, ReadersAssumption DEF ReaderFile, FileStates
<1>5. CallInv(r)'
  BY <1>0, <1>2, <1>3, <1>4 DEF CallInv, PromisesKept, FilesSettled, PullUnderWay,
     Settled, Pushed, WriteHosts, CallTypeOK
<1>6. ASSUME CallComplete(r) PROVE CallComplete(r)'
  BY <1>0, <1>2, <1>3, <1>4, <1>6
     DEF CallComplete, Undisturbed, PromiseOnItsWay, Pushed, CallTypeOK
<1> QED BY <1>5, <1>6

(* A pull ends; the file is still there unless it was evicted.             *)
LEMMA EndPullKeeps ==
    ASSUME ReadInv, NEW r \in Readers, EndPull(r)
    PROVE  CallInv(r)' /\ (CallComplete(r) => CallComplete(r)')
<1>0. CallTypeOK /\ CallInv(r) /\ CoreInv
  BY DEF ReadInv
<1>1. PICK id \in call[r].wanted :
         /\ \A other \in call[r].wanted : other <= id
         /\ ~call[r].disturbed => ReaderFile(r, id) # "absent"
  BY <1>0 DEF EndPull, CallInv, PullUnderWay
<1>2. id \in SnapshotIds /\ call[r].wanted \subseteq Nat
  BY <1>0, ProcessSets DEF CallTypeOK
<1>3. PulledId(r) = id
  BY <1>1, <1>2 DEF PulledId
<1>4. /\ call'[r].phase = "ensure" /\ call[r].phase = "pulling"
      /\ call'[r].project = call[r].project
      /\ call'[r].wanted = call[r].wanted \ {id}
      /\ call'[r].files = call[r].files
      /\ call'[r].promised = call[r].promised
      /\ call'[r].disturbed = call[r].disturbed
  BY <1>0, <1>3 DEF CallTypeOK, EndPull
<1>5. /\ UNCHANGED <<parquetFile, projectOf, createdAt, irods>>
      /\ \A h \in Hosts, i \in SnapshotIds :
            cache[h][i] # "absent" => cache'[h][i] # "absent"
  BY ReadsKeepShared DEF ReaderStep
<1>6. \A i \in SnapshotIds :
         ReaderFile(r, i) # "absent" => ReaderFile(r, i)' # "absent"
  BY <1>5, ReadersAssumption DEF ReaderFile
<1>7. CallInv(r)'
  BY <1>0, <1>4, <1>5 DEF CallInv, PromisesKept, FilesSettled, PullUnderWay, Settled,
     Pushed, WriteHosts
<1>8. ASSUME CallComplete(r) PROVE CallComplete(r)'
  BY <1>0, <1>1, <1>2, <1>4, <1>5, <1>6, <1>8
     DEF CallComplete, Undisturbed, PromiseOnItsWay, Pushed, CallTypeOK
<1> QED BY <1>7, <1>8

(* A promised snapshot that is missing from the zone was never logged.     *)
LEMMA PullMissingKeeps ==
    ASSUME ReadInv, NEW r \in Readers, PullMissing(r)
    PROVE  CallInv(r)' /\ CallComplete(r)'
<1>0. CallTypeOK /\ CallInv(r)
  BY DEF ReadInv
<1>1. PICK id \in SnapshotIds :
         /\ IsNextWanted(r, id)
         /\ irods[id] = "absent"
         /\ call' = [call EXCEPT ![r].phase = "open"]
         /\ UNCHANGED vars
  BY DEF PullMissing
<1>2. /\ call'[r].phase = "open"
      /\ call'[r].project = call[r].project
      /\ call'[r].wanted = call[r].wanted
      /\ call'[r].files = call[r].files
      /\ call'[r].promised = call[r].promised
  BY <1>0, <1>1 DEF CallTypeOK
<1>3. UNCHANGED <<parquetFile, projectOf, createdAt, irods>>
  BY <1>1 DEF vars
<1>4. id \in call[r].promised /\ ~Pushed(id)
  BY <1>0, <1>1 DEF IsNextWanted, CallInv, PromisesKept
<1>5. CallInv(r)'
  BY <1>0, <1>2, <1>3 DEF CallInv, PromisesKept, FilesSettled, PullUnderWay, Settled,
     Pushed, WriteHosts
<1>6. ~Undisturbed(r)'
  BY <1>2, <1>3, <1>4 DEF Undisturbed, Pushed
<1> QED BY <1>5, <1>6 DEF CallComplete, Undisturbed

(* A pull that fails is a disturbance.                                     *)
LEMMA PullFailsKeeps ==
    ASSUME ReadInv, NEW r \in Readers, PullFails(r)
    PROVE  CallInv(r)' /\ CallComplete(r)'
<1>0. CallTypeOK /\ CallInv(r)
  BY DEF ReadInv
<1>1. /\ call'[r].phase = "open"
      /\ call'[r].project = call[r].project
      /\ call'[r].wanted = call[r].wanted
      /\ call'[r].files = call[r].files
      /\ call'[r].promised = call[r].promised
      /\ call'[r].disturbed
  BY <1>0 DEF CallTypeOK, PullFails
<1>2. UNCHANGED <<parquetFile, projectOf, createdAt, irods>>
  BY DEF PullFails, vars
<1> QED BY <1>0, <1>1, <1>2
        DEF CallInv, PromisesKept, FilesSettled, PullUnderWay, Settled, Pushed,
            WriteHosts, CallComplete, Undisturbed

(* The view takes the files that are there, the promised ones with them;   *)
(* on a host that only reads they are all settled.                         *)
LEMMA OpenLakeKeeps ==
    ASSUME ReadInv, NEW r \in Readers, OpenLake(r)
    PROVE  CallInv(r)' /\ (CallComplete(r) => CallComplete(r)')
<1>0. CallTypeOK /\ CallInv(r) /\ RemoteFilesSettled /\ ReaderHostOf[r] \in Hosts
  BY ReadersAssumption DEF ReadInv
<1>1. /\ call'[r].phase = "query"
      /\ call'[r].project = call[r].project
      /\ call'[r].wanted = call[r].wanted
      /\ call'[r].files = {id \in SnapshotIds : /\ projectOf[id] = call[r].project
                                                /\ ReaderFile(r, id) # "absent"}
      /\ call'[r].promised = call[r].promised
      /\ call'[r].disturbed = call[r].disturbed
  BY <1>0 DEF CallTypeOK, OpenLake
<1>2. UNCHANGED <<parquetFile, projectOf, createdAt, irods>>
  BY DEF OpenLake, vars
<1>3. PromisesKept(r)' /\ PullUnderWay(r)'
  BY <1>0, <1>1, <1>2 DEF CallInv, PromisesKept, PullUnderWay, Settled, Pushed
<1>4. FilesSettled(r)'
  BY <1>0, <1>1, <1>2 DEF RemoteFilesSettled, ReaderFile, FilesSettled, Settled,
     WriteHosts
<1>5. ASSUME CallComplete(r), Undisturbed(r)', NEW id \in call[r].promised
      PROVE  PromiseOnItsWay(r, id)'
  <2>1. PromiseOnItsWay(r, id)
    BY <1>1, <1>2, <1>5 DEF CallComplete, Undisturbed, Pushed
  <2>2. ReaderFile(r, id) # "absent"
    BY <2>1 DEF PromiseOnItsWay, OpenLake
  <2>3. id \in SnapshotIds /\ projectOf[id] = call[r].project
    BY <1>0 DEF CallInv, PromisesKept, CallTypeOK
  <2> QED BY <1>1, <2>2, <2>3 DEF PromiseOnItsWay
<1> QED BY <1>1, <1>3, <1>4, <1>5 DEF CallInv, CallComplete

(* The answer is computed from the files of the view, or there is none.    *)
LEMMA EndsKeep ==
    ASSUME ReadInv, NEW r \in Readers, QueryLake(r) \/ EndRead(r)
    PROVE  CallInv(r)' /\ (CallComplete(r) => CallComplete(r)')
<1>0. CallTypeOK /\ CallInv(r)
  BY DEF ReadInv
<1>1. UNCHANGED <<parquetFile, projectOf, createdAt, irods>>
  BY DEF QueryLake, EndRead, vars
<1>2. CASE call'[r] = NoRead
  BY <1>2 DEF NoRead, CallInv, PromisesKept, FilesSettled, PullUnderWay, CallComplete
<1>3. CASE /\ QueryLake(r)
           /\ call'[r] = [call[r] EXCEPT !.phase = "answered", !.wanted = {}]
  <2>1. /\ call'[r].phase = "answered" /\ call[r].phase = "query"
        /\ call'[r].project = call[r].project
        /\ call'[r].wanted = {}
        /\ call'[r].files = call[r].files
        /\ call'[r].promised = call[r].promised
        /\ call'[r].disturbed = call[r].disturbed
    <3>1. call[r].phase = "query"
      BY <1>3 DEF QueryLake
    <3>2. call[r] \in [phase : Phases, project : Projects \cup {NoProject},
                       wanted : SUBSET SnapshotIds, files : SUBSET SnapshotIds,
                       promised : SUBSET SnapshotIds, disturbed : BOOLEAN]
      BY <1>0 DEF CallTypeOK
    <3> QED BY <1>3, <3>1, <3>2
  <2>2. CallInv(r)'
    BY <1>0, <1>1, <2>1 DEF CallInv, PromisesKept, FilesSettled, PullUnderWay,
       Settled, Pushed, WriteHosts
  <2>3. ASSUME CallComplete(r) PROVE CallComplete(r)'
    BY <1>1, <2>1, <2>3 DEF CallComplete, Undisturbed, PromiseOnItsWay, Pushed
  <2> QED BY <2>2, <2>3
<1>4. \/ call'[r] = NoRead
      \/ /\ QueryLake(r)
         /\ call'[r] = [call[r] EXCEPT !.phase = "answered", !.wanted = {}]
  BY <1>0 DEF CallTypeOK, QueryLake, EndRead
<1> QED BY <1>2, <1>3, <1>4

LEMMA OwnStepsKeep ==
    ASSUME ReadInv, NEW r \in Readers, ReaderStep(r)
    PROVE  /\ CallInv(r)'
           /\ r \in SyncReaders /\ ReadLimit >= MaxSnapshots /\ CallComplete(r)
                 => CallComplete(r)'
BY BeginReadKeeps, SkipCachedKeeps, BeginPullKeeps, EndPullKeeps, PullMissingKeeps,
   PullFailsKeeps, OpenLakeKeeps, EndsKeep DEF ReaderStep

-----------------------------------------------------------------------------
(* The theorems *)

LEMMA ReadInvInit == ReadInit => ReadInv /\ CompleteInv
<1> SUFFICES ASSUME ReadInit PROVE ReadInv /\ CompleteInv
  OBVIOUS
<1>1. CoreInv
  BY CoreInvInit DEF ReadInit
<1>2. CallTypeOK
  BY DEF ReadInit, CallTypeOK, NoRead, Phases
<1>3. PutsPrecedeFlips /\ RemoteFilesSettled
  BY ProcessSets DEF ReadInit, Init, CatalogInit, PutsPrecedeFlips, RemoteFilesSettled
<1>4. ASSUME NEW r \in Readers PROVE CallInv(r) /\ CallComplete(r)
  BY DEF ReadInit, NoRead, CallInv, PromisesKept, FilesSettled, PullUnderWay,
     CallComplete
<1> QED BY <1>1, <1>2, <1>3, <1>4 DEF ReadInv, CompleteInv, Readers

LEMMA ReadInvStep ==
    ASSUME ReadInv, [ReadNext]_readVars
    PROVE  /\ ReadInv'
           /\ ReadLimit >= MaxSnapshots /\ CompleteInv => CompleteInv'
<1>0. /\ CallTypeOK /\ TypeOK
      /\ \A r \in Readers : CallInv(r)
      /\ CallTypeOK'
  BY CallTypesKept DEF ReadInv, CoreInv
<1>1. CASE WriteStep \/ UNCHANGED readVars
  <2>1. [Next]_vars
    BY <1>1 DEF WriteStep, readVars, vars
  <2>2. CoreInv' /\ PutsPrecedeFlips' /\ RemoteFilesSettled' /\ SharedKept
    BY <2>1, WritesKeepShared
  <2>3. ASSUME NEW r \in Readers PROVE CallWaits(r)
    BY <1>0, <1>1, <2>3, WritersMakeCallsWait DEF readVars, CallWaits, ReaderFile
  <2>4. ASSUME NEW r \in Readers
        PROVE  CallInv(r)' /\ (CallComplete(r) => CallComplete(r)')
    BY <1>0, <2>2, <2>3, WaitingCallsKept
  <2> QED BY <1>0, <2>2, <2>4 DEF ReadInv, CompleteInv, Readers
<1>2. ASSUME NEW q \in Readers, ReaderStep(q)
      PROVE  /\ ReadInv'
             /\ ReadLimit >= MaxSnapshots /\ CompleteInv => CompleteInv'
  <2>1. /\ CoreInv' /\ PutsPrecedeFlips' /\ RemoteFilesSettled'
        /\ UNCHANGED <<nextId, parquetFile, projectOf, createdAt, irods>>
    BY <1>2, ReadsKeepShared
  <2>2. SharedKept
    BY <2>1 DEF SharedKept, Settled, Pushed
  <2>3. ASSUME NEW r \in Readers, r # q
        PROVE  CallInv(r)' /\ (CallComplete(r) => CallComplete(r)')
    BY <1>0, <1>2, <2>2, <2>3, ReadersMakeOthersWait, WaitingCallsKept
  <2>4. /\ CallInv(q)'
        /\ q \in SyncReaders /\ ReadLimit >= MaxSnapshots /\ CallComplete(q)
              => CallComplete(q)'
    BY <1>2, OwnStepsKeep
  <2> QED BY <1>0, <2>1, <2>3, <2>4 DEF ReadInv, CompleteInv, Readers
<1> QED BY <1>1, <1>2 DEF ReadNext

(* A host that only reads never answers from a snapshot in flight, with    *)
(* any number of writers, recoveries, evictions and failed pulls.          *)
THEOREM RemoteAnswersAreSettled == ReadSpec => []RemoteAnswerIsSettled
<1>1. ReadInv => RemoteAnswerIsSettled
  BY DEF ReadInv, CallInv, FilesSettled, RemoteAnswerIsSettled, Settled
<1> QED BY <1>1, ReadInvInit, ReadInvStep, PTL DEF ReadSpec

(* A read answers from every snapshot committed when it began, if no pull  *)
(* failed, no file was evicted meanwhile, all were pushed, and there are   *)
(* not more snapshots than the listing of ensure_cached returns.           *)
THEOREM AnswersAreComplete ==
    ASSUME ReadLimit >= MaxSnapshots
    PROVE  ReadSpec => []AnswerIsComplete
<1>1. CompleteInv => AnswerIsComplete
  BY DEF CompleteInv, CallComplete, Undisturbed, PromiseOnItsWay, AnswerIsComplete,
     Answered
<1> QED BY <1>1, ReadInvInit, ReadInvStep, PTL DEF ReadSpec

(* Reads take nothing from what the write path promises unconditionally:   *)
(* no push is stranded although pulls write to the cache pushes read from. *)
THEOREM ReadersStrandNoPush == ReadSpec => []InFlightPushIsLogged
<1>1. ReadInv => InFlightPushIsLogged
  BY DEF ReadInv, CoreInv, LoggedRows, InFlightPushIsLogged, TypeOK, CatalogTypeOK
<1> QED BY <1>1, ReadInvInit, ReadInvStep, PTL DEF ReadSpec

-----------------------------------------------------------------------------
(* Durability, finality and the ledger, with readers on the caches         *)

(* A pull may leave a torn file where a recovery would push it from, but   *)
(* it pulls settled snapshots only, and those are not pushed again.        *)
LEMMA ReadsKeepExclusive ==
    ASSUME ReadInv, ExclusiveInv, NEW r \in Readers, ReaderStep(r)
    PROVE  /\ ExclusiveInv'
           /\ UNCHANGED <<nextId, parquetFile, projectOf, parent, createdAt, irods>>
<1>1. CoreInv'
  BY ReadsKeepShared
<1>2. UNCHANGED <<nextId, parquetFile, projectOf, parent, createdAt, irods, pc, current>>
  BY ReaderEffects DEF vars, StorePulledFile, snapshotTable, walTable
<1>3. RecoveryAlone' /\ PushesPending' /\ CommittedIsDurable'
  BY <1>2 DEF ExclusiveInv, RecoveryAlone, AllOthersIdle, PushesPending,
     CommittedIsDurable, Pushed
<1>4. TornFilesSettled'
  <2>1. CASE UNCHANGED vars
    BY <2>1 DEF ExclusiveInv, TornFilesSettled, Settled, vars
  <2>2. ASSUME NEW id \in call[r].wanted, NEW content \in {"partial", "whole"},
               StorePulledFile(r, id, content)
        PROVE  TornFilesSettled'
    <3>1. CoreInv /\ id \in SnapshotIds /\ Settled(id) /\ content \in FileStates
      BY DEF ReadInv, CallInv, PromisesKept, CallTypeOK, FileStates
    <3>2. \A h \in Hosts, i \in SnapshotIds :
             cache'[h][i] = IF h = ReaderHostOf[r] /\ i = id THEN content
                                                            ELSE cache[h][i]
      BY <2>2, <3>1, PullsKeepCore
    <3> QED BY <1>2, <3>1, <3>2 DEF ExclusiveInv, TornFilesSettled, Settled
  <2> QED BY <2>1, <2>2, ReaderEffects
<1> QED BY <1>1, <1>2, <1>3, <1>4 DEF ExclusiveInv

(* The strengthening of the write path and that of the reads hold together.*)
LEMMA ReadExclusiveStep ==
    ASSUME Exclusive, ReadInv, ExclusiveInv, [ReadNext]_readVars
    PROVE  /\ ReadInv' /\ ExclusiveInv'
           /\ \/ [Next]_vars
              \/ UNCHANGED <<nextId, parquetFile, projectOf, parent, createdAt, irods>>
<1>1. CASE WriteStep \/ UNCHANGED readVars
  <2>1. [Next]_vars
    BY <1>1 DEF WriteStep, readVars, vars
  <2> QED BY <2>1, ExclusiveInvStep, ReadInvStep
<1>2. ASSUME NEW r \in Readers, ReaderStep(r)
      PROVE  /\ ExclusiveInv'
             /\ UNCHANGED <<nextId, parquetFile, projectOf, parent, createdAt, irods>>
  BY <1>2, ReadsKeepExclusive
<1> QED BY <1>1, <1>2, ReadInvStep DEF ReadNext

LEMMA ReadExclusiveHolds ==
    ASSUME Exclusive
    PROVE  ReadSpec => [](ReadInv /\ ExclusiveInv)
<1>1. ReadInit => ReadInv /\ ExclusiveInv
  BY ReadInvInit, ExclusiveInvInit DEF ReadInit
<1>2. ReadInv /\ ExclusiveInv /\ [ReadNext]_readVars => (ReadInv /\ ExclusiveInv)'
  BY ReadExclusiveStep
<1> QED BY <1>1, <1>2, PTL DEF ReadSpec

(* A committed snapshot stays whole in iRODS although readers write to the *)
(* caches that writers and recovery push from, and leave torn files there. *)
THEOREM CommittedStaysDurableBesideReads ==
    ASSUME Exclusive
    PROVE  ReadSpec => []CommittedIsDurable
<1>1. ExclusiveInv => CommittedIsDurable
  BY DEF ExclusiveInv
<1> QED BY <1>1, ReadExclusiveHolds, PTL

(* Readers whose pulls write to the caches pushes read from take back no   *)
(* outcome, and let no recovery take one back.                             *)
THEOREM OutcomesAreFinalBesideReads ==
    ASSUME Exclusive
    PROVE  ReadSpec => SettledIsFinal
<1>1. ReadInv /\ ExclusiveInv /\ [ReadNext]_readVars =>
         [\A id \in SnapshotIds :
             parquetFile[id] \in {"named", PARQUET_FILE_FAILED} =>
                parquetFile'[id] = parquetFile[id]]_vars
  BY ReadExclusiveStep, SettledNamesKept DEF ExclusiveInv, Settled
<1> QED BY <1>1, ReadExclusiveHolds, PTL DEF ReadSpec, SettledIsFinal

(* The write path beside any number of readers still implements the        *)
(* ledger: a read, whatever it pulls, is a stutter of it.                  *)
THEOREM ReadsLeaveTheLedger ==
    ASSUME Exclusive
    PROVE  ReadSpec => ImplementsLedger
<1>1. ReadInit => Ledger!LedgerInit
  BY LedgerInitImplemented DEF ReadInit
<1>2. ReadInv /\ ExclusiveInv /\ [ReadNext]_readVars =>
         [Ledger!LedgerNext]_(Ledger!ledgerVars)
  BY ReadExclusiveStep, LedgerStepImplemented, LedgerRests
<1> QED BY <1>1, <1>2, ReadExclusiveHolds, PTL
        DEF ReadSpec, ImplementsLedger, Ledger!LedgerSpec
=============================================================================
