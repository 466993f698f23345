---------------------------- MODULE RestoreProofs ----------------------------
(***************************************************************************)
(* Proofs about CatalogRestore, for every number of restores and every set *)
(* of writers, recoverers, hosts and projects.                             *)
(***************************************************************************)
EXTENDS RestoreInvariants, WriteProofs

USE DEF PARQUET_FILE_PENDING, PARQUET_FILE_FAILED, NULL

-----------------------------------------------------------------------------
(* Steps of the write path, and what they add to the origins               *)

(* Beside backups and restores the write path only takes its own steps;    *)
(* a row gets an origin when it is inserted, a file when COPY writes it,   *)
(* an object when it is put.                                               *)
LEMMA ProtocolEffects ==
    ASSUME ProtocolStep
    PROVE  /\ Next /\ UNCHANGED <<dump, restores>>
           /\ \/ /\ UNCHANGED originVars
                 /\ UNCHANGED cache \/ \E w \in Writers : EvictIfOver(w)
              \/ \E w \in Writers : InsertsRow(w)
              \/ \E w \in Writers : WritesFile(w)
              \/ \E p \in Processes : PutsObject(p)
<1> DEFINE Quiet == /\ UNCHANGED originVars
                    /\ UNCHANGED cache \/ \E w \in Writers : EvictIfOver(w)
<1>1. ASSUME NEW w \in Writers, InsertsRow(w) \/ WritesFile(w) PROVE Next
  BY <1>1 DEF InsertsRow, WritesFile, Next, WriterStep
<1>2. ASSUME NEW w \in Writers, OtherWriterStep(w) PROVE Next /\ Quiet
  BY <1>2 DEF OtherWriterStep, Next, WriterStep, ReadParent, LogPush, CopyFails, Rollback
<1>3. ASSUME NEW p \in Processes, PutsObject(p) PROVE Next
  BY <1>3 DEF PutsObject, Next, PushStep
<1>4. ASSUME NEW p \in Processes, ComparesChecksums(p) PROVE Next /\ Quiet
  BY <1>4 DEF ComparesChecksums, VerifyPasses, Next, PushStep
<1>5. ASSUME NEW p \in Processes, OtherPushStep(p) PROVE Next /\ Quiet
  BY <1>5 DEF OtherPushStep, PutRejected, VerifyRaises, FlipToNamed, DrainWal, Abandon,
              Next, PushStep
<1>6. ASSUME NEW r \in Recoverers, RecovererStep(r), UNCHANGED originVars
      PROVE  Next /\ Quiet
  BY <1>6 DEF RecovererStep, ListWal, NextRow, LookAtSnapshot, GiveUp, BumpAttempt,
              EndRecovery, Next
<1> QED BY <1>1, <1>2, <1>3, <1>4, <1>5, <1>6 DEF ProtocolStep

(* A put is of an id that was handed out.                                  *)
LEMMA PutsOfLoggedRows ==
    ASSUME CoreInv, NEW p \in Processes, PutsObject(p)
    PROVE  /\ pc[p] = "put" /\ p \in Pushers
           /\ current[p] \in SnapshotIds /\ Pushed(current[p])
<1>1. pc[p] = "put"
  BY DEF PutsObject, PutStored, PutReplyLost
<1> QED BY <1>1, ProcessSets
        DEF CoreInv, WriterIds, LocalRow, SyncRow, RecovererRows, HasId, Processes,
            Writers, Pushers

(* A file is written of an id that was handed out.                         *)
LEMMA FilesOfHeldRows ==
    ASSUME CoreInv, NEW w \in Writers, WritesFile(w)
    PROVE  /\ current[w] \in SnapshotIds /\ SnapshotExists(current[w])
           /\ HostOf[w] \in Hosts
<1>1. HasId(w) /\ pc[w] \in {"copy", "copying"}
  BY DEF WritesFile, BeginCopy, EndCopy, HasId
<1>2. current[w] \in SnapshotIds
  BY <1>1 DEF CoreInv, WriterIds
<1>3. SnapshotExists(current[w])
  <2>1. CASE w \in LocalWriters
    BY <1>1, <2>1 DEF CoreInv, WriterIds, LocalRow, SnapshotExists
  <2>2. CASE w \in SyncWriters
    BY <1>1, <1>2, <2>2 DEF CoreInv, WriterIds, SyncRow, LoggedRows
  <2> QED BY <2>1, <2>2 DEF Writers
<1> QED BY <1>2, <1>3, ProcessSets, HostOfAssumption

-----------------------------------------------------------------------------
(* Tables in a dump                                                        *)

(* The invariants of the running catalog are those of a dump made of it.   *)
LEMMA TablesAreSound ==
    ASSUME CoreInv, rowOf \in [SnapshotIds -> Eras]
    PROVE  Tables \in DumpTypes /\ RowsLogged(Tables) /\ RowsHang(Tables)
<1>1. Tables \in DumpTypes
  BY DEF CoreInv, TypeOK, CatalogTypeOK, Tables, DumpTypes
<1>2. RowsLogged(Tables)
  BY DEF CoreInv, UnusedIds, LoggedRows, Pushed, SnapshotExists,
         GaveUpOnlyAfterAttempts, Tables, RowsLogged
<1>3. RowsHang(Tables)
  BY DEF CoreInv, ParentIsSettled, SnapshotExists, Tables, RowsHang
<1> QED BY <1>1, <1>2, <1>3

(* Conversely a catalog restored from sound tables, with no call under     *)
(* way, satisfies every invariant that the write path relies on.           *)
LEMMA RestoredCatalogIsSound ==
    ASSUME RestoreCore, Restore
    PROVE  CoreInv'
<1> USE DEF LoadDump, AllCallsEnd, RestoreCore
<1>0. /\ nextId' = dump.nextId /\ parquetFile' = dump.parquetFile
      /\ projectOf' = dump.projectOf /\ parent' = dump.parent
      /\ wal' = dump.wal /\ createdAt' = dump.createdAt /\ attempts' = dump.attempts
      /\ clock' = clock /\ irods' = irods /\ mtime' = mtime
      /\ \A p \in Processes : pc'[p] = "idle"
      /\ \A r \in Recoverers : /\ batch'[r] = {}
                               /\ \A id \in SnapshotIds : listed'[r][id] = 0
  BY ProcessSets DEF Restore
<1>1. /\ dump.nextId \in 1..(MaxSnapshots + 1)
      /\ dump.parquetFile \in [SnapshotIds -> FileNames]
      /\ dump.projectOf \in [SnapshotIds -> Projects \cup {NoProject}]
      /\ dump.parent \in [SnapshotIds -> SnapshotIds \cup {NULL}]
      /\ dump.wal \subseteq SnapshotIds
      /\ dump.createdAt \in [SnapshotIds -> Nat]
      /\ dump.attempts \in [SnapshotIds -> Nat]
  BY DEF DumpTypes
<1>2. TypeOK'
  <2>1. CatalogTypeOK'
    BY <1>0, <1>1 DEF CoreInv, TypeOK, CatalogTypeOK
  <2>2. cache' \in [Hosts -> [SnapshotIds -> FileStates]]
    BY DEF Restore, CoreInv, TypeOK, FileStates
  <2>3. /\ pc' \in [Processes -> WriterSteps \cup RecovererSteps]
        /\ \A w \in Writers : pc'[w] \in WriterSteps
        /\ \A r \in Recoverers : pc'[r] \in RecovererSteps
        /\ \A p \in Processes :
              pc'[p] \notin {"idle", "create", "scan"} => current'[p] # NULL
    BY <1>0, ProcessSets DEF Restore, WriterSteps, RecovererSteps
  <2>4. /\ current' \in [Processes -> SnapshotIds \cup {NULL}]
        /\ readParent' \in [Writers -> SnapshotIds \cup {NULL}]
        /\ target' \in [Writers -> Projects \cup {NoProject}]
        /\ batch' \in [Recoverers -> SUBSET SnapshotIds]
        /\ listed' \in [Recoverers -> [SnapshotIds -> Nat]]
    BY DEF Restore
  <2> QED BY <1>0, <2>1, <2>2, <2>3, <2>4 DEF CoreInv, TypeOK
<1>3. UnusedIds' /\ LoggedRows' /\ GaveUpOnlyAfterAttempts'
  BY <1>0, <1>1 DEF CoreInv, UnusedIds, LoggedRows, Pushed, SnapshotExists,
     GaveUpOnlyAfterAttempts, RowsLogged
<1>4. ParentIsSettled'
  BY <1>0 DEF ParentIsSettled, SnapshotExists, RowsHang
<1>5. WriterIds' /\ ParentsRead'
  BY <1>0, ProcessSets DEF WriterIds, LocalRow, SyncRow, HasId, ParentsRead
<1>6. RecovererRows'
  <2>1. \A id \in SnapshotIds : 0 <= attempts'[id]
    BY <1>0, <1>1
  <2>2. \A r \in Recoverers : pc'[r] = "idle"
    BY <1>0, ProcessSets
  <2> QED BY <1>0, <2>1, <2>2 DEF RecovererRows
<1> QED BY <1>2, <1>3, <1>4, <1>5, <1>6 DEF CoreInv

-----------------------------------------------------------------------------
(* What holds whatever overlaps and whatever is lost                       *)

(* Origins are numbers of restores; a dump is of an earlier sequence.      *)
LEMMA RestoreTypesKept ==
    ASSUME RestoreCore, CoreInv', ProtocolStep
    PROVE  RestoreTypeOK'
<1> USE ProcessSets, HostOfAssumption DEF RestoreCore
<1>0. /\ restores \in Eras
      /\ rowOf \in [SnapshotIds -> Eras]
      /\ fileOf \in [Hosts -> [SnapshotIds -> Eras]]
      /\ objectOf \in [SnapshotIds -> Eras]
      /\ dump.nextId \in 1..nextId /\ dump.wal \subseteq SnapshotIds
      /\ UNCHANGED <<dump, restores>>
      /\ TypeOK'
  BY ProtocolEffects DEF RestoreTypeOK, CoreInv
<1>1. dump'.nextId \in 1..nextId'
  <2>1. nextId' \in Nat /\ nextId' >= nextId /\ nextId \in Nat
    BY ProtocolEffects, StepKeepsRows DEF RowsAreKept, CoreInv, TypeOK, CatalogTypeOK
  <2> QED BY <1>0, <2>1
<1>2. /\ rowOf' \in [SnapshotIds -> Eras]
      /\ fileOf' \in [Hosts -> [SnapshotIds -> Eras]]
      /\ objectOf' \in [SnapshotIds -> Eras]
  <2>1. CASE UNCHANGED originVars
    BY <1>0, <2>1 DEF originVars
  <2>2. ASSUME NEW w \in Writers, InsertsRow(w)
        PROVE  rowOf' \in [SnapshotIds -> Eras] /\ UNCHANGED <<fileOf, objectOf>>
    BY <1>0, <2>2 DEF InsertsRow
  <2>3. ASSUME NEW w \in Writers, WritesFile(w)
        PROVE  /\ fileOf' \in [Hosts -> [SnapshotIds -> Eras]]
               /\ UNCHANGED <<rowOf, objectOf>>
    <3>1. rowOf[current[w]] \in Eras
      BY <1>0, <2>3, FilesOfHeldRows
    <3> QED BY <1>0, <2>3, <3>1 DEF WritesFile
  <2>4. ASSUME NEW p \in Processes, PutsObject(p)
        PROVE  /\ objectOf' \in [SnapshotIds -> Eras]
               /\ UNCHANGED <<rowOf, fileOf>>
    <3>1. fileOf[HostOf[p]][current[p]] \in Eras
      <4>1. current[p] \in SnapshotIds /\ HostOf[p] \in Hosts
        BY <2>4, PutsOfLoggedRows
      <4>2. fileOf[HostOf[p]] \in [SnapshotIds -> Eras]
        BY <1>0, <4>1
      <4> QED BY <4>1, <4>2
    <3> QED BY <1>0, <2>4, <3>1 DEF PutsObject
  <2> QED BY <1>0, <2>1, <2>2, <2>3, <2>4, ProtocolEffects
<1> QED BY <1>0, <1>1, <1>2 DEF RestoreTypeOK

LEMMA RestoreCoreInit == RestoreInit => RestoreCore
<1> SUFFICES ASSUME RestoreInit PROVE RestoreCore
  OBVIOUS
<1>1. CoreInv
  BY CoreInvInit DEF RestoreInit
<1>2. /\ restores \in Eras
      /\ rowOf \in [SnapshotIds -> Eras]
      /\ fileOf \in [Hosts -> [SnapshotIds -> Eras]]
      /\ objectOf \in [SnapshotIds -> Eras]
  BY RestoreAssumption DEF RestoreInit, Eras
<1>3. dump.nextId = nextId /\ dump.wal = wal
  BY DEF RestoreInit, Tables
<1>4. RestoreTypeOK
  BY <1>1, <1>2, <1>3 DEF RestoreTypeOK, CoreInv, TypeOK, CatalogTypeOK
<1> QED BY <1>1, <1>2, <1>4, TablesAreSound DEF RestoreCore, RestoreInit

(* The write path keeps the invariant of its tables, a backup copies it to *)
(* the dump, and a restore brings it back.                                 *)
LEMMA RestoreCoreStep ==
    ASSUME RestoreCore, [RestoreNext]_restoreVars
    PROVE  RestoreCore'
<1> USE DEF RestoreCore
<1>1. CASE ProtocolStep
  <2>1. CoreInv' /\ dump' = dump
    BY <1>1, ProtocolEffects, CoreInvStep
  <2>2. RowsLogged(dump)' /\ RowsHang(dump)'
    BY <2>1 DEF RowsLogged, RowsHang
  <2> QED BY <1>1, <2>1, <2>2, RestoreTypesKept
<1>2. CASE Backup
  <2>1. CoreInv'
    BY <1>2, CoreInvStep DEF Backup
  <2>2. dump' = Tables /\ UNCHANGED <<nextId, wal, restores, rowOf, fileOf, objectOf>>
    BY <1>2 DEF Backup, vars, originVars
  <2>3. Tables \in DumpTypes /\ RowsLogged(Tables) /\ RowsHang(Tables)
    BY TablesAreSound DEF RestoreTypeOK
  <2>4. dump' \in DumpTypes /\ RowsLogged(dump)' /\ RowsHang(dump)'
    BY <2>2, <2>3 DEF RowsLogged, RowsHang
  <2>5. dump'.nextId = nextId' /\ dump'.wal = wal'
    BY <2>2 DEF Tables
  <2>6. RestoreTypeOK'
    BY <2>1, <2>2, <2>5 DEF RestoreTypeOK, CoreInv, TypeOK, CatalogTypeOK
  <2> QED BY <2>1, <2>4, <2>6
<1>3. CASE Restore
  <2>1. CoreInv'
    BY <1>3, RestoredCatalogIsSound
  <2>2. /\ restores < MaxRestores /\ restores' = restores + 1
        /\ nextId' = dump.nextId /\ rowOf' = dump.rowOf
        /\ UNCHANGED <<dump, fileOf, objectOf>>
    BY <1>3 DEF Restore, LoadDump
  <2>3. dump.nextId \in Nat \ {0} /\ dump.rowOf \in [SnapshotIds -> Eras]
    BY MaxSnapshotsAssumption DEF DumpTypes
  <2>4. restores' \in Eras
    BY <2>2, RestoreAssumption DEF RestoreTypeOK, Eras
  <2>5. RestoreTypeOK'
    BY <2>1, <2>2, <2>3, <2>4 DEF RestoreTypeOK, CoreInv
  <2>6. RowsLogged(dump)' /\ RowsHang(dump)'
    BY <2>2 DEF RowsLogged, RowsHang
  <2> QED BY <2>1, <2>2, <2>5, <2>6
<1>4. CASE UNCHANGED restoreVars
  <2>1. UNCHANGED <<vars, dump, restores, rowOf, fileOf, objectOf>>
    BY <1>4 DEF restoreVars, originVars
  <2>2. CoreInv'
    BY <2>1, CoreInvStep
  <2>3. RowsLogged(dump)' /\ RowsHang(dump)'
    BY <2>1 DEF RowsLogged, RowsHang
  <2>4. RestoreTypeOK'
    BY <2>1, <2>2 DEF RestoreTypeOK, CoreInv, vars
  <2> QED BY <2>1, <2>2, <2>3, <2>4
<1> QED BY <1>1, <1>2, <1>3, <1>4 DEF RestoreNext

(* The strengthening holds in every reachable state, restored ones too.    *)
THEOREM RestoreCoreInvariant == RestoreSpec => []RestoreCore
BY RestoreCoreInit, RestoreCoreStep, PTL DEF RestoreSpec

THEOREM RestoreTypes == RestoreSpec => []RestoreTypeOK
<1>1. RestoreCore => RestoreTypeOK
  BY DEF RestoreCore
<1> QED BY <1>1, RestoreCoreInvariant, PTL

(* A restored catalog, whichever dump it came from and whatever was under  *)
(* way when the dump was made, has no dangling parent ...                  *)
THEOREM RestoredParentsAreSettled == RestoreSpec => []ParentIsSettled
<1>1. RestoreCore => ParentIsSettled
  BY DEF RestoreCore, CoreInv
<1> QED BY <1>1, RestoreCoreInvariant, PTL

(* ... and every push it shows as pending in its log.                      *)
THEOREM RestoredPushesAreFindable == RestoreSpec => []InFlightPushIsLogged
<1>1. RestoreCore => InFlightPushIsLogged
  BY DEF RestoreCore, CoreInv, LoggedRows, InFlightPushIsLogged, TypeOK, CatalogTypeOK
<1> QED BY <1>1, RestoreCoreInvariant, PTL

-----------------------------------------------------------------------------
(* What holds when the caches are lost with the catalog                    *)

(* The clock of the cached files only goes forward.                        *)
LEMMA MtimesPastKept ==
    ASSUME CoreInv, MtimesPast, [Next]_vars
    PROVE  MtimesPast'
<1> USE ProcessSets, HostOfAssumption
<1>0. /\ clock \in Nat /\ mtime \in [Hosts -> [SnapshotIds -> Nat]]
      /\ \A h \in Hosts, id \in SnapshotIds : mtime[h][id] < clock
  BY DEF CoreInv, TypeOK, CatalogTypeOK, MtimesPast
<1>1. clock' \in {clock, clock + 1}
  BY TableEffects
     DEF CoreInv, CreateSnapshot, LogPush, InsertPendingPush, Rollback, FlipToNamed,
         DrainWal, GiveUp, BumpAttempt
<1>2. ASSUME NEW w \in Writers, BeginCopy(w) \/ EndCopy(w)
      PROVE  MtimesPast'
  <2>1. CASE UNCHANGED mtime
    BY <1>0, <1>1, <2>1 DEF MtimesPast
  <2>2. CASE /\ mtime' = [mtime EXCEPT ![HostOf[w]][current[w]] = clock]
             /\ clock' = clock + 1
    BY <1>0, <2>2 DEF MtimesPast
  <2> QED BY <1>2, <2>1, <2>2 DEF BeginCopy, EndCopy, StoreLocalFile
<1>3. CASE UNCHANGED mtime
  BY <1>0, <1>1, <1>3 DEF MtimesPast
<1> QED BY <1>2, <1>3, CacheEffects DEF EvictIfOver

(* A file in a cache is of the row that has its id: an insertion takes an  *)
(* id without files, and COPY renews the origin of the file it writes.     *)
LEMMA FilesAreOfRowsKept ==
    ASSUME Exclusive, RestoreCore, MtimesPast, FilesAreOfRows, ProtocolStep
    PROVE  FilesAreOfRows'
<1> SUFFICES ASSUME NEW h \in Hosts, NEW id \in SnapshotIds, cache'[h][id] # "absent"
             PROVE  id < nextId' /\ fileOf'[h][id] = rowOf'[id]
  BY DEF FilesAreOfRows
<1> USE ProcessSets, HostOfAssumption
<1>0. /\ CoreInv
      /\ cache \in [Hosts -> [SnapshotIds -> FileStates]]
      /\ mtime \in [Hosts -> [SnapshotIds -> Nat]]
      /\ clock \in Nat
      /\ rowOf \in [SnapshotIds -> Eras]
      /\ fileOf \in [Hosts -> [SnapshotIds -> Eras]]
      /\ nextId \in Nat /\ nextId' \in Nat /\ nextId' >= nextId
      /\ id \in Nat
  <2>1. CoreInv /\ Next
    BY ProtocolEffects DEF RestoreCore
  <2>2. nextId' \in Nat /\ nextId' >= nextId
    BY <2>1, StepKeepsRows DEF RowsAreKept
  <2>3. nextId \in Nat /\ id \in Nat
    BY <2>1, MaxSnapshotsAssumption DEF CoreInv, TypeOK, CatalogTypeOK, SnapshotIds
  <2> QED BY <2>1, <2>2, <2>3
          DEF RestoreCore, RestoreTypeOK, CoreInv, TypeOK, CatalogTypeOK
<1>1. cache[h][id] # "absent" => id < nextId /\ fileOf[h][id] = rowOf[id]
  BY DEF FilesAreOfRows
<1>2. CASE /\ UNCHANGED originVars
           /\ UNCHANGED cache \/ \E w \in Writers : EvictIfOver(w)
  <2>1. cache[h][id] # "absent"
    <3>1. ASSUME NEW w \in Writers, EvictIfOver(w) PROVE cache[h][id] # "absent"
      <4>1. HostOf[w] \in Hosts
        OBVIOUS
      <4> QED BY <1>0, <3>1, <4>1 DEF EvictIfOver
    <3> QED BY <1>2, <3>1
  <2> QED BY <1>0, <1>1, <1>2, <2>1 DEF originVars
<1>3. ASSUME NEW w \in Writers, InsertsRow(w)
      PROVE  id < nextId' /\ fileOf'[h][id] = rowOf'[id]
  <2>1. /\ cache' = cache /\ fileOf' = fileOf
        /\ rowOf' = [rowOf EXCEPT ![nextId] = restores]
    BY <1>3 DEF InsertsRow, CreateSnapshot
  <2> QED BY <1>0, <1>1, <2>1
<1>4. ASSUME NEW w \in Writers, WritesFile(w)
      PROVE  id < nextId' /\ fileOf'[h][id] = rowOf'[id]
  <2>0. /\ rowOf' = rowOf
        /\ current[w] \in SnapshotIds /\ HostOf[w] \in Hosts
        /\ SnapshotExists(current[w])
    BY <1>0, <1>4, FilesOfHeldRows DEF WritesFile
  <2>1. CASE UNCHANGED <<cache, mtime>>
    BY <1>0, <1>1, <1>4, <2>0, <2>1 DEF WritesFile
  <2>2. CASE StoreLocalFile(w, "whole")
    <3>1. mtime'[HostOf[w]][current[w]] # mtime[HostOf[w]][current[w]]
      <4>1. mtime[HostOf[w]][current[w]] < clock
        BY <2>0 DEF MtimesPast
      <4>2. mtime'[HostOf[w]][current[w]] = clock
        BY <1>0, <2>0, <2>2 DEF StoreLocalFile
      <4> QED BY <1>0, <4>1, <4>2
    <3>2. fileOf' = [fileOf EXCEPT ![HostOf[w]][current[w]] = rowOf[current[w]]]
      BY <1>4, <3>1 DEF WritesFile
    <3>3. current[w] < nextId
      BY <1>0, <2>0, MaxSnapshotsAssumption DEF CoreInv, UnusedIds, SnapshotExists, SnapshotIds
    <3>4. CASE h = HostOf[w] /\ id = current[w]
      BY <1>0, <2>0, <3>2, <3>3, <3>4
    <3>5. CASE ~(h = HostOf[w] /\ id = current[w])
      <4>1. cache'[h][id] = cache[h][id] /\ fileOf'[h][id] = fileOf[h][id]
        BY <1>0, <2>0, <2>2, <3>2, <3>5 DEF StoreLocalFile
      <4> QED BY <1>0, <1>1, <2>0, <4>1
    <3> QED BY <3>4, <3>5
  <2> QED BY <1>4, <2>1, <2>2 DEF WritesFile, BeginCopy, EndCopy, Exclusive
<1>5. ASSUME NEW p \in Processes, PutsObject(p)
      PROVE  id < nextId' /\ fileOf'[h][id] = rowOf'[id]
  BY <1>0, <1>1, <1>5 DEF PutsObject, PutStored, PutReplyLost, StoreObject
<1> QED BY <1>2, <1>3, <1>4, <1>5, ProtocolEffects

(* Only a comparison of checksums leads to the commit point of a push.     *)
LEMMA OnlyComparisonsReachFlip ==
    ASSUME TypeOK, ProtocolStep, NEW p \in Pushers, pc'[p] = "flip"
    PROVE  \/ pc[p] = "flip" /\ current'[p] = current[p]
           \/ ComparesChecksums(p)
<1> DEFINE Goal == \/ pc[p] = "flip" /\ current'[p] = current[p]
                   \/ ComparesChecksums(p)
<1> USE ProcessSets DEF callVars
<1>0. /\ pc \in [Processes -> WriterSteps \cup RecovererSteps]
      /\ current \in [Processes -> SnapshotIds \cup {NULL}]
      /\ p \in Processes
      /\ p \notin LocalWriters
  BY DEF TypeOK, Pushers, Writers
<1>1. ASSUME NEW q \in Processes, NEW step, step # "flip", Goto(q, step),
             \A r \in Processes \ {q} : current'[r] = current[r]
      PROVE  Goal
  BY <1>0, <1>1 DEF Goto
<1>2. ASSUME NEW q \in Processes, EndCall(q) PROVE Goal
  BY <1>0, <1>2 DEF EndCall
<1>3. ASSUME NEW w \in Writers, InsertsRow(w) \/ WritesFile(w) \/ OtherWriterStep(w)
      PROVE  Goal
  <2>1. CASE InsertsRow(w)
    <3>1. /\ Goto(w, IF w \in SyncWriters THEN "log" ELSE "copy")
          /\ \A r \in Processes \ {w} : current'[r] = current[r]
      BY <1>0, <2>1 DEF InsertsRow, CreateSnapshot
    <3> QED BY <1>1, <3>1
  <2>2. CASE BeginCopy(w) \/ ReadParent(w) \/ LogPush(w) \/ CopyFails(w)
    BY <1>1, <2>2 DEF BeginCopy, ReadParent, LogPush, CopyFails
  <2>3. CASE EndCopy(w)
    <3>1. CASE w \in SyncWriters
      <4>1. Goto(w, "put") /\ current' = current
        BY <2>3, <3>1 DEF EndCopy
      <4> QED BY <1>1, <4>1
    <3>2. CASE w \in LocalWriters
      BY <1>0, <2>3, <3>2 DEF EndCopy, Goto
    <3> QED BY <3>1, <3>2 DEF Writers
  <2>4. CASE Rollback(w) \/ EvictIfOver(w)
    BY <1>2, <2>4 DEF Rollback, EvictIfOver
  <2> QED BY <1>3, <2>1, <2>2, <2>3, <2>4 DEF WritesFile, OtherWriterStep
<1>4. ASSUME NEW q \in Processes,
             PutsObject(q) \/ ComparesChecksums(q) \/ OtherPushStep(q)
      PROVE  Goal
  <2>1. ASSUME PushRaises(q) PROVE Goal
    BY <1>1, <1>2, <2>1 DEF PushRaises
  <2>2. CASE PutsObject(q)
    BY <1>1, <2>1, <2>2 DEF PutsObject, PutStored, PutReplyLost
  <2>3. CASE ComparesChecksums(q)
    BY <1>0, <2>3 DEF ComparesChecksums, VerifyPasses, Goto
  <2>4. CASE PutRejected(q) \/ VerifyRaises(q)
    BY <2>1, <2>4 DEF PutRejected, VerifyRaises
  <2>5. CASE FlipToNamed(q) \/ DrainWal(q)
    BY <1>1, <2>5 DEF FlipToNamed, DrainWal
  <2>6. CASE Abandon(q)
    BY <1>2, <2>6 DEF Abandon
  <2> QED BY <1>4, <2>2, <2>3, <2>4, <2>5, <2>6 DEF OtherPushStep
<1>5. ASSUME NEW r \in Recoverers, RecovererStep(r) PROVE Goal
  <2>1. CASE ListWal(r) \/ GiveUp(r) \/ BumpAttempt(r)
    BY <1>1, <2>1 DEF ListWal, GiveUp, BumpAttempt
  <2>2. CASE NextRow(r)
    <3>1. Goto(r, "look") /\ \A q \in Processes \ {r} : current'[q] = current[q]
      BY <1>0, <2>2 DEF NextRow
    <3> QED BY <1>1, <3>1
  <2>3. CASE LookAtSnapshot(r)
    <3>1. PICK step \in {"drain", "giveup", "put"} : Goto(r, step)
      BY <2>3 DEF LookAtSnapshot
    <3> QED BY <1>1, <2>3, <3>1 DEF LookAtSnapshot
  <2>4. CASE EndRecovery(r)
    BY <1>2, <2>4 DEF EndRecovery
  <2> QED BY <1>5, <2>1, <2>2, <2>3, <2>4 DEF RecovererStep
<1> QED BY <1>3, <1>4, <1>5 DEF ProtocolStep

(* Rows and objects of an id in hand, or settled, keep their origin while  *)
(* nobody else can push that id.                                           *)
LEMMA OriginsKept ==
    ASSUME RestoreCore, ProtocolStep, NEW id \in SnapshotIds, SnapshotExists(id),
           \A q \in Processes : PutsObject(q) => current[q] # id
    PROVE  rowOf'[id] = rowOf[id] /\ objectOf'[id] = objectOf[id]
<1>0. /\ rowOf \in [SnapshotIds -> Eras] /\ objectOf \in [SnapshotIds -> Eras]
      /\ nextId \in SnapshotIds => id # nextId
  BY MaxSnapshotsAssumption
     DEF RestoreCore, RestoreTypeOK, CoreInv, TypeOK, CatalogTypeOK, UnusedIds, SnapshotExists
<1>1. ASSUME NEW w \in Writers, InsertsRow(w)
      PROVE  rowOf'[id] = rowOf[id] /\ objectOf'[id] = objectOf[id]
  BY <1>0, <1>1 DEF InsertsRow, CreateSnapshot, CreateSnapshotRow
<1>2. ASSUME NEW w \in Writers, WritesFile(w)
      PROVE  rowOf'[id] = rowOf[id] /\ objectOf'[id] = objectOf[id]
  BY <1>2 DEF WritesFile
<1>3. ASSUME NEW q \in Processes, PutsObject(q)
      PROVE  rowOf'[id] = rowOf[id] /\ objectOf'[id] = objectOf[id]
  <2>1. current[q] # id
    BY <1>3
  <2> QED BY <1>0, <1>3, <2>1 DEF PutsObject
<1> QED BY <1>1, <1>2, <1>3, ProtocolEffects DEF originVars

LEMMA FlipsHoldTheirChangesKept ==
    ASSUME Exclusive, RestoreCore, RecoveryAlone, PushesPending, FilesAreOfRows,
           FlipsHoldTheirChanges, ProtocolStep
    PROVE  FlipsHoldTheirChanges'
<1> SUFFICES ASSUME NEW p \in Pushers, pc'[p] = "flip"
             PROVE  objectOf'[current'[p]] = rowOf'[current'[p]]
  BY DEF FlipsHoldTheirChanges
<1> USE ProcessSets
<1>0. CoreInv /\ TypeOK /\ p \in Processes
  BY DEF RestoreCore, CoreInv, Pushers
<1>1. CASE pc[p] = "flip" /\ current'[p] = current[p]
  <2>1. objectOf[current[p]] = rowOf[current[p]] /\ parquetFile[current[p]] = "pending"
    BY <1>1 DEF FlipsHoldTheirChanges, PushesPending
  <2>2. HoldsRow(p)
    BY <1>0, <1>1 DEF HoldsRow, HasId, Processes
  <2>3. current[p] \in SnapshotIds
    BY <1>0, <1>1, ActorsHoldRows
  <2>4. ASSUME NEW q \in Processes, PutsObject(q) PROVE current[q] # current[p]
    <3>1. pc[q] = "put"
      BY <1>0, <2>4, PutsOfLoggedRows
    <3>2. HoldsRow(q) /\ q # p
      BY <1>1, <3>1 DEF HoldsRow, HasId, Processes
    <3> QED BY <1>0, <2>2, <3>2, RowsHeldOnce
  <2> QED BY <1>1, <2>1, <2>3, <2>4, OriginsKept DEF SnapshotExists
<1>2. CASE ComparesChecksums(p)
  <2>1. /\ pc[p] = "verify" /\ UNCHANGED <<current, rowOf, objectOf>>
        /\ LocalFile(p) # "absent"
        /\ objectOf[current[p]] = fileOf[HostOf[p]][current[p]]
    BY <1>2 DEF ComparesChecksums, VerifyPasses, ChecksumMatches, Exclusive, originVars
  <2>2. current[p] \in SnapshotIds /\ HostOf[p] \in Hosts
    BY <1>0, <2>1, HostOfAssumption
       DEF CoreInv, WriterIds, HasId, RecovererRows, Processes
  <2>3. fileOf[HostOf[p]][current[p]] = rowOf[current[p]]
    BY <2>1, <2>2 DEF FilesAreOfRows, LocalFile
  <2> QED BY <2>1, <2>3
<1> QED BY <1>0, <1>1, <1>2, OnlyComparisonsReachFlip

(* Nobody puts over the object of a settled snapshot.                      *)
LEMMA SettledOriginsKept ==
    ASSUME RestoreCore, PushesPending, ProtocolStep, NEW id \in SnapshotIds, Settled(id)
    PROVE  rowOf'[id] = rowOf[id] /\ objectOf'[id] = objectOf[id]
<1>1. ASSUME NEW q \in Processes, PutsObject(q) PROVE current[q] # id
  BY <1>1, PutsOfLoggedRows DEF RestoreCore, PushesPending, Settled
<1> QED BY <1>1, OriginsKept DEF Settled, SnapshotExists

LEMMA CommittedHoldsItsChangesKept ==
    ASSUME RestoreCore, PushesPending, FlipsHoldTheirChanges,
           CommittedHoldsItsChanges, CommittedIsDurable', ProtocolStep
    PROVE  CommittedHoldsItsChanges'
<1> SUFFICES ASSUME NEW id \in SnapshotIds, Pushed(id)', parquetFile'[id] = "named"
             PROVE  objectOf'[id] = rowOf'[id]
  BY DEF CommittedHoldsItsChanges, CommittedIsDurable, Pushed
<1>0. CoreInv /\ Next
  BY ProtocolEffects DEF RestoreCore
<1>1. CASE parquetFile[id] = "named"
  <2>1. Pushed(id)
    BY <1>0, <1>1, LoggedBeforeSettled DEF Settled
  <2> QED BY <1>1, <2>1, SettledOriginsKept DEF CommittedHoldsItsChanges, Settled
<1>2. CASE parquetFile[id] # "named"
  <2>1. PICK p \in Processes : FlipToNamed(p) /\ current[p] = id
    BY <1>0, <1>2, OnlyFlipsCommit
  <2>2. pc[p] = "flip" /\ p \in Pushers
    <3>1. Pushed(id)
      BY <2>1 DEF FlipToNamed, walTable, Pushed
    <3> QED BY <1>0, <2>1, <3>1 DEF FlipToNamed, CoreInv, WriterIds, LocalRow, HasId,
               Processes, Writers, Pushers
  <2>3. SnapshotExists(id) /\ parquetFile[id] = "pending"
    BY <2>1, <2>2 DEF PushesPending, SnapshotExists
  <2>4. ASSUME NEW q \in Processes, PutsObject(q) PROVE FALSE
    BY <1>2, <2>4 DEF PutsObject, PutStored, PutReplyLost, StoreObject, catalogVars
  <2>5. rowOf'[id] = rowOf[id] /\ objectOf'[id] = objectOf[id]
    BY <2>3, <2>4, OriginsKept
  <2> QED BY <2>1, <2>2, <2>5 DEF FlipsHoldTheirChanges
<1> QED BY <1>1, <1>2

LEMMA DumpIsPastKept ==
    ASSUME RestoreCore, PushesPending, DumpIsPast, ProtocolStep
    PROVE  DumpIsPast'
<1> SUFFICES ASSUME NEW id \in SnapshotIds,
                    dump'.createdAt[id] # 0, dump'.parquetFile[id] = "named"
             PROVE  /\ Pushed(id)' /\ parquetFile'[id] = "named"
                    /\ rowOf'[id] = dump'.rowOf[id]
  BY DEF DumpIsPast
<1>0. CoreInv /\ Next /\ dump' = dump
  BY ProtocolEffects DEF RestoreCore
<1>1. Pushed(id) /\ parquetFile[id] = "named" /\ rowOf[id] = dump.rowOf[id]
  BY <1>0 DEF DumpIsPast
<1> QED BY <1>0, <1>1, StepKeepsRows, SettledNamesKept, SettledOriginsKept
        DEF RowsAreKept, Settled

LEMMA RestoreInvInit == RestoreInit => RestoreInv
<1> SUFFICES ASSUME RestoreInit PROVE RestoreInv
  OBVIOUS
<1>1. RestoreCore /\ ExclusiveInv
  BY RestoreCoreInit, ExclusiveInvInit DEF RestoreInit
<1>2. MtimesPast /\ FilesAreOfRows /\ CommittedHoldsItsChanges
  BY DEF RestoreInit, Init, CatalogInit, MtimesPast, FilesAreOfRows,
         CommittedHoldsItsChanges
<1>3. FlipsHoldTheirChanges
  BY ProcessSets DEF RestoreInit, Init, FlipsHoldTheirChanges
<1>4. DumpIsPast
  <2>1. dump.parquetFile = parquetFile
    BY DEF RestoreInit, Tables
  <2> QED BY <2>1 DEF RestoreInit, Init, CatalogInit, DumpIsPast
<1> QED BY <1>1, <1>2, <1>3, <1>4 DEF RestoreInv

(* A restore finds every snapshot that the dump has as committed still     *)
(* committed, and so with its own changes in the zone.                     *)
LEMMA RestoreKeepsInv ==
    ASSUME CachesLost, RestoreInv, RestoreCore', Restore
    PROVE  RestoreInv'
<1> USE ProcessSets DEF LoadDump, AllCallsEnd
<1>1. /\ createdAt' = dump.createdAt /\ parquetFile' = dump.parquetFile
      /\ rowOf' = dump.rowOf
      /\ UNCHANGED <<clock, mtime, irods, dump, objectOf>>
      /\ \A p \in Processes : pc'[p] = "idle"
      /\ \A h \in Hosts, id \in SnapshotIds : cache'[h][id] = "absent"
  BY DEF Restore
<1>2. MtimesPast'
  BY <1>1 DEF RestoreInv, MtimesPast
<1>3. FilesAreOfRows' /\ TornFilesSettled'
  BY <1>1 DEF FilesAreOfRows, TornFilesSettled
<1>4. RecoveryAlone' /\ PushesPending' /\ FlipsHoldTheirChanges'
  BY <1>1 DEF RecoveryAlone, PushesPending, FlipsHoldTheirChanges
<1>5. DumpIsPast'
  BY <1>1 DEF DumpIsPast, Pushed
<1>6. CommittedHoldsItsChanges' /\ CommittedIsDurable'
  <2>1. ASSUME NEW id \in SnapshotIds,
               dump.createdAt[id] # 0, dump.parquetFile[id] = "named"
        PROVE  irods[id] = "whole" /\ objectOf[id] = dump.rowOf[id]
    BY <2>1 DEF RestoreInv, DumpIsPast, CommittedHoldsItsChanges
  <2> QED BY <1>1, <2>1 DEF CommittedHoldsItsChanges, CommittedIsDurable, Pushed
<1> QED BY <1>2, <1>3, <1>4, <1>5, <1>6 DEF RestoreInv, RestoreCore, ExclusiveInv

LEMMA RestoreInvStep ==
    ASSUME Exclusive, CachesLost, RestoreInv, [RestoreNext]_restoreVars
    PROVE  RestoreInv'
<1>0. RestoreCore'
  BY RestoreCoreStep DEF RestoreInv
<1>1. CASE ProtocolStep
  <2>1. ExclusiveInv' /\ MtimesPast'
    BY <1>1, ProtocolEffects, ExclusiveInvStep, MtimesPastKept DEF RestoreInv, RestoreCore
  <2> QED BY <1>0, <1>1, <2>1, FilesAreOfRowsKept, FlipsHoldTheirChangesKept,
             CommittedHoldsItsChangesKept, DumpIsPastKept
          DEF RestoreInv, ExclusiveInv
<1>2. CASE Backup \/ UNCHANGED restoreVars
  <2>1. UNCHANGED <<vars, rowOf, fileOf, objectOf>>
    BY <1>2 DEF Backup, restoreVars, originVars
  <2>2. ExclusiveInv'
    BY <2>1, ExclusiveInvStep DEF RestoreInv
  <2>3. MtimesPast' /\ FilesAreOfRows' /\ FlipsHoldTheirChanges' /\ CommittedHoldsItsChanges'
    BY <2>1 DEF RestoreInv, MtimesPast, FilesAreOfRows, FlipsHoldTheirChanges,
       CommittedHoldsItsChanges, Pushed, vars
  <2>4. DumpIsPast'
    <3>1. CASE Backup
      <4>1. /\ dump'.createdAt = createdAt /\ dump'.parquetFile = parquetFile
            /\ dump'.rowOf = rowOf
        BY <3>1 DEF Backup, Tables
      <4> QED BY <2>1, <4>1 DEF DumpIsPast, Pushed, vars
    <3>2. CASE UNCHANGED restoreVars
      BY <2>1, <3>2 DEF RestoreInv, DumpIsPast, Pushed, restoreVars, vars
    <3> QED BY <1>2, <3>1, <3>2
  <2> QED BY <1>0, <2>2, <2>3, <2>4 DEF RestoreInv
<1>3. CASE Restore
  BY <1>0, <1>3, RestoreKeepsInv
<1> QED BY <1>1, <1>2, <1>3 DEF RestoreNext

(* If recovery runs alone, COPY is atomic, the zone has checksums and the  *)
(* caches go with the catalog, the full strengthening is inductive.        *)
LEMMA RestoreInvHolds ==
    ASSUME Exclusive, CachesLost
    PROVE  RestoreSpec => []RestoreInv
<1>1. RestoreInv /\ [RestoreNext]_restoreVars => RestoreInv'
  BY RestoreInvStep
<1> QED BY <1>1, RestoreInvInit, PTL DEF RestoreSpec

(* However often the catalog goes back to a dump and hands out ids again,  *)
(* a committed snapshot has its own changes in the zone, whole, and not    *)
(* those of the snapshot that had its id before.                           *)
THEOREM CommittedHoldTheirChanges ==
    ASSUME Exclusive, CachesLost
    PROVE  RestoreSpec => []CommittedHoldsItsChanges
<1>1. RestoreInv => CommittedHoldsItsChanges
  BY DEF RestoreInv
<1> QED BY <1>1, RestoreInvHolds, PTL

(* Every dump stays restorable: nothing that happens after a backup        *)
(* touches the objects of the snapshots it has as committed.               *)
THEOREM DumpsStayRestorable ==
    ASSUME Exclusive, CachesLost
    PROVE  RestoreSpec => []DumpedCommitsAreKept
<1>1. RestoreInv => DumpedCommitsAreKept
  BY DEF RestoreInv, DumpIsPast, CommittedHoldsItsChanges, DumpedCommitsAreKept
<1> QED BY <1>1, RestoreInvHolds, PTL

-----------------------------------------------------------------------------
(* Restores onto machines that kept their caches                           *)

LEMMA NoTornFilesKept ==
    ASSUME Exclusive, TypeOK, NoTornFiles, [Next]_vars
    PROVE  NoTornFiles'
<1> SUFFICES ASSUME NEW h \in Hosts, NEW id \in SnapshotIds
             PROVE  cache'[h][id] # "partial"
  BY DEF NoTornFiles
<1>0. cache \in [Hosts -> [SnapshotIds -> FileStates]] /\ cache[h][id] # "partial"
  BY DEF TypeOK, NoTornFiles
<1>1. ASSUME NEW w \in Writers, BeginCopy(w) \/ EndCopy(w)
      PROVE  cache'[h][id] # "partial"
  <2>1. \/ UNCHANGED cache
        \/ cache' = [cache EXCEPT ![HostOf[w]][current[w]] = "whole"]
    BY <1>1 DEF BeginCopy, EndCopy, StoreLocalFile, Exclusive
  <2> QED BY <1>0, <2>1
<1>2. ASSUME NEW w \in Writers, EvictIfOver(w) PROVE cache'[h][id] # "partial"
  BY <1>0, <1>2 DEF EvictIfOver
<1> QED BY <1>0, <1>1, <1>2, CacheEffects

LEMMA OutcomeInvInit == RestoreInit => OutcomeInv
<1> SUFFICES ASSUME RestoreInit PROVE OutcomeInv
  OBVIOUS
<1>1. RestoreCore /\ ExclusiveInv
  BY RestoreCoreInit, ExclusiveInvInit DEF RestoreInit
<1>2. NoTornFiles
  BY DEF RestoreInit, Init, NoTornFiles
<1>3. DumpIsPast
  BY RestoreInvInit DEF RestoreInv
<1> QED BY <1>1, <1>2, <1>3 DEF OutcomeInv

(* A restored catalog has no call under way, and has as committed only     *)
(* what was committed until then.                                          *)
LEMMA RestoreKeepsOutcomes ==
    ASSUME OutcomeInv, RestoreCore', Restore
    PROVE  OutcomeInv'
<1> USE ProcessSets DEF LoadDump, AllCallsEnd, OutcomeInv
<1>1. /\ createdAt' = dump.createdAt /\ parquetFile' = dump.parquetFile
      /\ rowOf' = dump.rowOf
      /\ UNCHANGED <<irods, dump>>
      /\ \A p \in Processes : pc'[p] = "idle"
  BY DEF Restore
<1>2. NoTornFiles'
  BY DEF Restore, NoTornFiles
<1>3. RecoveryAlone' /\ PushesPending' /\ TornFilesSettled'
  BY <1>1, <1>2 DEF RecoveryAlone, PushesPending, TornFilesSettled, NoTornFiles
<1>4. DumpIsPast'
  BY <1>1 DEF DumpIsPast, Pushed
<1>5. CommittedIsDurable'
  BY <1>1 DEF DumpIsPast, ExclusiveInv, CommittedIsDurable, Pushed
<1> QED BY <1>2, <1>3, <1>4, <1>5 DEF RestoreCore, ExclusiveInv

LEMMA OutcomeInvStep ==
    ASSUME Exclusive, OutcomeInv, [RestoreNext]_restoreVars
    PROVE  OutcomeInv'
<1>0. RestoreCore'
  BY RestoreCoreStep DEF OutcomeInv
<1>1. CASE ProtocolStep
  <2>1. Next
    BY <1>1, ProtocolEffects DEF OutcomeInv, RestoreCore
  <2>2. ExclusiveInv' /\ NoTornFiles'
    BY <2>1, ExclusiveInvStep, NoTornFilesKept DEF OutcomeInv, RestoreCore, CoreInv
  <2>3. DumpIsPast'
    BY <1>1, DumpIsPastKept DEF OutcomeInv, ExclusiveInv
  <2> QED BY <1>0, <2>2, <2>3 DEF OutcomeInv
<1>2. CASE Backup
  <2>1. UNCHANGED vars /\ rowOf' = rowOf /\ dump' = Tables
    BY <1>2 DEF Backup, originVars
  <2>2. ExclusiveInv' /\ NoTornFiles'
    BY <2>1, ExclusiveInvStep DEF OutcomeInv, NoTornFiles, vars
  <2>3. DumpIsPast'
    BY <2>1 DEF DumpIsPast, Tables, Pushed, vars
  <2> QED BY <1>0, <2>2, <2>3 DEF OutcomeInv
<1>3. CASE Restore
  BY <1>0, <1>3, RestoreKeepsOutcomes
<1>4. CASE UNCHANGED restoreVars
  <2>1. UNCHANGED <<vars, dump, rowOf>>
    BY <1>4 DEF restoreVars, originVars
  <2>2. ExclusiveInv' /\ NoTornFiles'
    BY <2>1, ExclusiveInvStep DEF OutcomeInv, NoTornFiles, vars
  <2>3. DumpIsPast'
    BY <2>1 DEF OutcomeInv, DumpIsPast, Pushed, vars
  <2> QED BY <1>0, <2>2, <2>3 DEF OutcomeInv
<1> QED BY <1>1, <1>2, <1>3, <1>4 DEF RestoreNext

LEMMA OutcomeInvHolds ==
    ASSUME Exclusive
    PROVE  RestoreSpec => []OutcomeInv
<1>1. OutcomeInv /\ [RestoreNext]_restoreVars => OutcomeInv'
  BY OutcomeInvStep
<1> QED BY <1>1, OutcomeInvInit, PTL DEF RestoreSpec

(* A committed snapshot has a whole Parquet in the zone after any number   *)
(* of restores, also where files of lost snapshots wait in the caches.     *)
THEOREM CommittedStaysDurableAcrossRestores ==
    ASSUME Exclusive
    PROVE  RestoreSpec => []CommittedIsDurable
<1>1. OutcomeInv => CommittedIsDurable
  BY DEF OutcomeInv, ExclusiveInv
<1> QED BY <1>1, OutcomeInvHolds, PTL

(* Neither a recovery nor a writer changes an outcome that the restored    *)
(* catalog has: it lasts until the next restore.                           *)
THEOREM OutcomesLast ==
    ASSUME Exclusive
    PROVE  RestoreSpec => OutcomesLastUntilRestore
<1> DEFINE Kept == \A id \in SnapshotIds :
                      parquetFile[id] \in {"named", PARQUET_FILE_FAILED} =>
                         parquetFile'[id] = parquetFile[id]
<1>1. OutcomeInv /\ [RestoreNext]_restoreVars =>
         [restores' = restores => Kept]_restoreVars
  <2> SUFFICES ASSUME OutcomeInv, RestoreNext, restores' = restores
               PROVE  Kept
    BY DEF OutcomeInv
  <2>1. CASE ProtocolStep
    BY <2>1, ProtocolEffects, SettledNamesKept
       DEF OutcomeInv, RestoreCore, ExclusiveInv, Settled
  <2>2. CASE Backup
    BY <2>2 DEF Backup, vars
  <2>3. ~Restore
    BY DEF Restore, OutcomeInv, RestoreCore, RestoreTypeOK, Eras
  <2> QED BY <2>1, <2>2, <2>3 DEF RestoreNext
<1> QED BY <1>1, OutcomeInvHolds, PTL DEF RestoreSpec, OutcomesLastUntilRestore

-----------------------------------------------------------------------------
(* Which rows and objects a step may touch                                 *)

(* Rows get their origin on insertion, and only then.                      *)
LEMMA OnlyInsertsTouchOrigins ==
    ASSUME ProtocolStep
    PROVE  UNCHANGED <<nextId, rowOf>> \/ \E w \in Writers : InsertsRow(w)
<1> USE DEF originVars, catalogVars, snapshotTable
<1>1. ASSUME NEW w \in Writers, WritesFile(w) \/ OtherWriterStep(w)
      PROVE  UNCHANGED <<nextId, rowOf>>
  <2>1. CASE WritesFile(w)
    BY <2>1 DEF WritesFile, BeginCopy, EndCopy
  <2>2. CASE OtherWriterStep(w)
    BY <2>2 DEF OtherWriterStep, ReadParent, LogPush, CopyFails, Rollback,
                DeleteSnapshotRow, EvictIfOver
  <2> QED BY <1>1, <2>1, <2>2
<1>2. ASSUME NEW p \in Processes,
             PutsObject(p) \/ ComparesChecksums(p) \/ OtherPushStep(p)
      PROVE  UNCHANGED <<nextId, rowOf>>
  <2>1. CASE PutsObject(p)
    BY <2>1 DEF PutsObject, PutStored, PutReplyLost, StoreObject
  <2>2. CASE ComparesChecksums(p)
    BY <2>2 DEF ComparesChecksums, VerifyPasses
  <2>3. CASE OtherPushStep(p)
    BY <2>3 DEF OtherPushStep, PutRejected, VerifyRaises, FlipToNamed,
                UpdateSnapshotParquetFile, DrainWal, Abandon
  <2> QED BY <1>2, <2>1, <2>2, <2>3
<1>3. ASSUME NEW r \in Recoverers, RecovererStep(r), UNCHANGED originVars
      PROVE  UNCHANGED <<nextId, rowOf>>
  BY <1>3 DEF RecovererStep, ListWal, NextRow, LookAtSnapshot, GiveUp,
              UpdateSnapshotParquetFile, BumpAttempt, EndRecovery
<1> QED BY <1>1, <1>2, <1>3 DEF ProtocolStep

(* Objects of the zone, and what they hold, change by puts alone.          *)
LEMMA OnlyPutsTouchObjects ==
    ASSUME ProtocolStep
    PROVE  UNCHANGED <<irods, objectOf>> \/ \E p \in Processes : PutsObject(p)
<1> USE DEF originVars
<1>1. ASSUME NEW w \in Writers, InsertsRow(w) \/ WritesFile(w) \/ OtherWriterStep(w)
      PROVE  UNCHANGED <<irods, objectOf>>
  <2>1. CASE InsertsRow(w)
    BY <2>1 DEF InsertsRow, CreateSnapshot
  <2>2. CASE WritesFile(w)
    BY <2>2 DEF WritesFile, BeginCopy, EndCopy
  <2>3. CASE OtherWriterStep(w)
    BY <2>3 DEF OtherWriterStep, ReadParent, LogPush, CopyFails, Rollback, EvictIfOver
  <2> QED BY <1>1, <2>1, <2>2, <2>3
<1>2. ASSUME NEW p \in Processes, ComparesChecksums(p) \/ OtherPushStep(p)
      PROVE  UNCHANGED <<irods, objectOf>>
  BY <1>2 DEF ComparesChecksums, VerifyPasses, OtherPushStep, PutRejected, VerifyRaises,
              FlipToNamed, DrainWal, Abandon
<1>3. ASSUME NEW r \in Recoverers, RecovererStep(r), UNCHANGED originVars
      PROVE  UNCHANGED <<irods, objectOf>>
  BY <1>3 DEF RecovererStep, ListWal, NextRow, LookAtSnapshot, GiveUp, BumpAttempt,
              EndRecovery
<1> QED BY <1>1, <1>2, <1>3 DEF ProtocolStep

(* A snapshot becomes a logged one by LogPush of the writer that has it.   *)
LEMMA OnlyLogPushesShare ==
    ASSUME CoreInv, [Next]_vars, NEW id \in SnapshotIds, ~Pushed(id), Pushed(id)'
    PROVE  \E w \in SyncWriters : pc[w] = "log" /\ current[w] = id
<1> USE DEF Pushed
<1>1. createdAt' = createdAt \/ \E w \in Writers : LogPush(w)
  BY TableEffects DEF CoreInv, CatalogRows, CreateSnapshot, Rollback, DeleteSnapshotRow,
     FlipToNamed, DrainWal, DeletePendingPush, GiveUp, BumpAttempt,
     BumpPendingPushAttempt, walTable
<1>2. PICK w \in Writers : LogPush(w)
  BY <1>1
<1>3. pc[w] = "log" /\ current[w] \in SnapshotIds
  BY <1>2, ActorsHoldRows DEF LogPush
<1>4. current[w] = id
  BY <1>2, <1>3 DEF LogPush, InsertPendingPush, CoreInv, TypeOK, CatalogTypeOK
<1>5. w \in SyncWriters
  BY <1>3 DEF CoreInv, WriterIds, LocalRow, HasId, Writers
<1> QED BY <1>3, <1>4, <1>5

-----------------------------------------------------------------------------
(* The part of the invariant about the eras                                *)

LEMMA OriginsPastKept ==
    ASSUME RestoreCore, OriginsPast, ProtocolStep
    PROVE  OriginsPast'
<1> USE HostOfAssumption, ProcessSets
<1>0. /\ rowOf \in [SnapshotIds -> Eras]
      /\ objectOf \in [SnapshotIds -> Eras]
      /\ fileOf \in [Hosts -> [SnapshotIds -> Eras]]
      /\ UNCHANGED <<restores, dump>>
      /\ CoreInv
      /\ restores <= restores
  BY ProtocolEffects, RestoreAssumption DEF RestoreCore, RestoreTypeOK, Eras
<1>1. CASE UNCHANGED originVars
  BY <1>0, <1>1 DEF OriginsPast, originVars
<1>2. ASSUME NEW w \in Writers, InsertsRow(w) PROVE OriginsPast'
  BY <1>0, <1>2 DEF OriginsPast, InsertsRow
<1>3. ASSUME NEW w \in Writers, WritesFile(w) PROVE OriginsPast'
  <2>1. current[w] \in SnapshotIds /\ HostOf[w] \in Hosts
    BY <1>0, <1>3, FilesOfHeldRows
  <2> QED BY <1>0, <1>3, <2>1 DEF OriginsPast, WritesFile
<1>4. ASSUME NEW p \in Processes, PutsObject(p) PROVE OriginsPast'
  <2>1. current[p] \in SnapshotIds /\ HostOf[p] \in Hosts
    BY <1>0, <1>4, PutsOfLoggedRows
  <2> QED BY <1>0, <1>4, <2>1 DEF OriginsPast, PutsObject
<1> QED BY <1>1, <1>2, <1>3, <1>4, ProtocolEffects

LEMMA ObjectsArePushedKept ==
    ASSUME RestoreCore, ObjectsArePushed, ProtocolStep
    PROVE  ObjectsArePushed'
<1> SUFFICES ASSUME NEW id \in SnapshotIds, irods'[id] # "absent", objectOf'[id] = restores'
             PROVE  Pushed(id)'
  BY DEF ObjectsArePushed, Pushed
<1>0. CoreInv /\ Next /\ restores' = restores
  BY ProtocolEffects DEF RestoreCore
<1>1. Pushed(id)
  <2>1. CASE UNCHANGED <<irods, objectOf>>
    BY <1>0, <2>1 DEF ObjectsArePushed
  <2>2. ASSUME NEW p \in Processes, PutsObject(p) PROVE Pushed(id)
    <3>1. CASE current[p] = id
      BY <1>0, <2>2, <3>1, PutsOfLoggedRows
    <3>2. CASE current[p] # id
      <4>1. irods'[id] = irods[id] /\ objectOf'[id] = objectOf[id]
        BY <1>0, <2>2, <3>2 DEF PutsObject, PutStored, PutReplyLost, StoreObject,
           CoreInv, TypeOK, RestoreCore, RestoreTypeOK
      <4> QED BY <1>0, <4>1 DEF ObjectsArePushed
    <3> QED BY <3>1, <3>2
  <2> QED BY <2>1, <2>2, OnlyPutsTouchObjects
<1> QED BY <1>0, <1>1, StepKeepsRows DEF RowsAreKept

LEMMA RowsToLogAreNewKept ==
    ASSUME RestoreCore, RowsToLogAreNew, ProtocolStep
    PROVE  RowsToLogAreNew'
<1> SUFFICES ASSUME NEW w \in SyncWriters, pc'[w] = "log"
             PROVE  rowOf'[current'[w]] = restores'
  BY DEF RowsToLogAreNew
<1> USE ProcessSets
<1>0. /\ CoreInv /\ TypeOK /\ Next /\ restores' = restores
      /\ w \in Writers /\ w \in Processes /\ w \notin Recoverers
      /\ rowOf \in [SnapshotIds -> Eras]
      /\ nextId \in Nat
  BY ProtocolEffects DEF RestoreCore, RestoreTypeOK, CoreInv, TypeOK, CatalogTypeOK
<1>1. CASE SameCall(w)
  <2>1. /\ pc[w] = "log" /\ current'[w] = current[w]
        /\ rowOf[current[w]] = restores
    BY <1>1 DEF SameCall, RowsToLogAreNew
  <2>2. current[w] \in SnapshotIds /\ parquetFile[current[w]] = "pending"
    BY <1>0, <2>1, ActorsHoldRows
  <2>3. current[w] # nextId
    BY <1>0, <2>2 DEF CoreInv, UnusedIds
  <2>4. rowOf'[current[w]] = rowOf[current[w]]
    BY <1>0, <2>2, <2>3, OnlyInsertsTouchOrigins DEF InsertsRow
  <2> QED BY <1>0, <2>1, <2>4
<1>2. CASE CreateSnapshot(w)
  <2>1. /\ current'[w] = nextId /\ nextId \in SnapshotIds
        /\ nextId' = nextId + 1
    BY <1>0, <1>2 DEF CreateSnapshot, CreateSnapshotRow, TypeOK
  <2>2. \E v \in Writers : InsertsRow(v)
    BY <1>0, <2>1, OnlyInsertsTouchOrigins
  <2> QED BY <1>0, <2>1, <2>2 DEF InsertsRow
<1>3. ~CallEnded(w)
  BY DEF CallEnded
<1>4. ~PushMove(w)
  BY <1>0 DEF PushMove, PutStored, VerifyPasses, FlipToNamed, DrainWal, Goto, TypeOK
<1>5. WriterMove(w) => CreateSnapshot(w)
  BY <1>0 DEF WriterMove, ReadParent, LogPush, BeginCopy, EndCopy, CopyFails, Goto, TypeOK
<1> QED BY <1>0, <1>1, <1>2, <1>3, <1>4, <1>5, CallEffects

LEMMA RestorableInvInit == RestoreInit => RestorableInv
<1> SUFFICES ASSUME RestoreInit PROVE RestorableInv
  OBVIOUS
<1>1. RestoreInv
  BY RestoreInvInit
<1>2. OriginsPast
  <2>1. dump.rowOf = rowOf
    BY DEF RestoreInit, Tables
  <2> QED BY <2>1 DEF RestoreInit, OriginsPast
<1>3. ObjectsArePushed /\ RowsToLogAreNew
  BY ProcessSets DEF RestoreInit, Init, ObjectsArePushed, RowsToLogAreNew
<1> QED BY <1>1, <1>2, <1>3 DEF RestorableInv

LEMMA RestorableInvStep ==
    ASSUME Exclusive, CachesLost, RestorableInv, [RestoreNext]_restoreVars
    PROVE  RestorableInv'
<1>0. RestoreInv' /\ RestoreCore
  BY RestoreInvStep DEF RestorableInv, RestoreInv
<1>1. CASE ProtocolStep
  BY <1>0, <1>1, OriginsPastKept, ObjectsArePushedKept, RowsToLogAreNewKept
     DEF RestorableInv
<1>2. CASE Backup \/ UNCHANGED restoreVars
  <2>1. UNCHANGED <<vars, restores, originVars>>
    BY <1>2 DEF Backup, restoreVars
  <2>2. dump' = dump \/ dump'.rowOf = rowOf
    BY <1>2 DEF Backup, restoreVars, Tables
  <2>3. OriginsPast'
    BY <2>1, <2>2 DEF RestorableInv, OriginsPast, originVars
  <2>4. ObjectsArePushed' /\ RowsToLogAreNew'
    BY <2>1 DEF RestorableInv, ObjectsArePushed, RowsToLogAreNew, Pushed, originVars, vars
  <2> QED BY <1>0, <2>3, <2>4 DEF RestorableInv
<1>3. CASE Restore
  <2>1. /\ restores' = restores + 1
        /\ rowOf' = dump.rowOf
        /\ UNCHANGED <<irods, dump, fileOf, objectOf>>
        /\ \A w \in SyncWriters : pc'[w] = "idle"
    BY <1>3, ProcessSets DEF Restore, LoadDump, AllCallsEnd
  <2>2. /\ restores \in Nat
        /\ \A id \in SnapshotIds : /\ rowOf[id] \in Nat /\ objectOf[id] \in Nat
                                   /\ dump.rowOf[id] \in Nat
        /\ \A h \in Hosts, id \in SnapshotIds : fileOf[h][id] \in Nat
    <3>1. ASSUME NEW h \in Hosts, NEW id \in SnapshotIds PROVE fileOf[h][id] \in Nat
      <4>1. fileOf[h] \in [SnapshotIds -> Eras]
        BY <1>0 DEF RestoreCore, RestoreTypeOK
      <4> QED BY <4>1, RestoreAssumption DEF Eras
    <3>2. dump.rowOf \in [SnapshotIds -> Eras]
      BY <1>0 DEF RestoreCore, DumpTypes
    <3> QED BY <1>0, <3>1, <3>2, RestoreAssumption DEF RestoreCore, RestoreTypeOK, Eras
  <2>3. OriginsPast'
    BY <2>1, <2>2 DEF RestorableInv, OriginsPast
  <2>4. ObjectsArePushed'
    <3>1. ASSUME NEW id \in SnapshotIds PROVE objectOf'[id] # restores'
      BY <2>1, <2>2 DEF RestorableInv, OriginsPast
    <3> QED BY <3>1 DEF ObjectsArePushed
  <2>5. RowsToLogAreNew'
    BY <2>1 DEF RowsToLogAreNew
  <2> QED BY <1>0, <2>3, <2>4, <2>5 DEF RestorableInv
<1> QED BY <1>1, <1>2, <1>3 DEF RestoreNext


-----------------------------------------------------------------------------
(* The restorable ledger                                                   *)

(* The snapshots that have their own changes in the zone.                  *)
OwnMap == {id \in SharedMap : HoldsOwnChanges(id)}

(* The catalog read as tables is the ledger that WriteRefinement reads.    *)
LEMMA TablesMap ==
    /\ StatusIn(Tables) = StatusMap /\ StatusIn(Tables)' = StatusMap'
    /\ SharedIn(Tables) = SharedMap /\ SharedIn(Tables)' = SharedMap'
<1>1. /\ Tables.nextId = nextId /\ Tables'.nextId = nextId'
      /\ Tables.parquetFile = parquetFile /\ Tables'.parquetFile = parquetFile'
      /\ Tables.createdAt = createdAt /\ Tables'.createdAt = createdAt'
  BY DEF Tables
<1>2. StatusIn(Tables) = StatusMap
  BY <1>1 DEF StatusIn, RowStatus, StatusMap, LedgerStatus
<1>3. StatusIn(Tables)' = StatusMap'
  BY <1>1 DEF StatusIn, RowStatus, StatusMap, LedgerStatus
<1>4. SharedIn(Tables) = SharedMap /\ SharedIn(Tables)' = SharedMap'
  BY <1>1 DEF SharedIn, SharedMap, Pushed
<1> QED BY <1>2, <1>3, <1>4

(* A status tells what the parquet_file column holds.                      *)
LEMMA CommittedStatus ==
    ASSUME CoreInv, NEW id \in SnapshotIds, StatusMap[id] = "committed"
    PROVE  parquetFile[id] = "named"
<1>1. parquetFile[id] \in FileNames
  BY DEF CoreInv, TypeOK, CatalogTypeOK
<1>2. LedgerStatus(id) = "committed"
  BY DEF StatusMap
<1> QED BY <1>1, <1>2, StatusCases DEF FileNames

LEMMA RestorableInitImplemented == RestoreInit => Restorable!RestorableInit
<1> SUFFICES ASSUME RestoreInit PROVE Restorable!RestorableInit
  OBVIOUS
<1>1. Ledger!LedgerInit /\ SharedMap = {}
  BY LedgerInitImplemented DEF RestoreInit, Init, CatalogInit, SharedMap, Pushed
<1>2. /\ StatusMap = [id \in SnapshotIds |-> "unborn"]
      /\ projectOf = [id \in SnapshotIds |-> NoProject]
      /\ parent = [id \in SnapshotIds |-> NULL]
  BY <1>1 DEF Ledger!LedgerInit, Ledger!LedgerIds, Ledger!NoParent, StatusMap, SnapshotIds
<1>3. Restorable!LedgerInit
  BY <1>1, <1>2, TablesMap
     DEF Restorable!LedgerInit, Restorable!LedgerIds, Restorable!NoParent, SnapshotIds
<1>4. dump = Tables /\ Tables.projectOf = projectOf /\ Tables.parent = parent
  BY DEF RestoreInit, Tables
<1> QED BY <1>3, <1>4 DEF Restorable!RestorableInit, Restorable!Books

(* Whose data the zone holds only changes with a put.                      *)
LEMMA OwnMapRests ==
    ASSUME RestorableInv, ProtocolStep, UNCHANGED <<irods, objectOf>>
    PROVE  OwnMap' = OwnMap
<1> USE ProcessSets DEF HoldsOwnChanges, SharedMap, OwnMap
<1>0. CoreInv /\ Next /\ rowOf \in [SnapshotIds -> Eras]
  BY ProtocolEffects DEF RestorableInv, RestoreInv, RestoreCore, RestoreTypeOK
<1>1. ASSUME NEW id \in SnapshotIds, Pushed(id)
      PROVE  Pushed(id)' /\ rowOf'[id] = rowOf[id]
  <2>1. Pushed(id)'
    BY <1>0, <1>1, StepKeepsRows DEF RowsAreKept
  <2>2. id # nextId
    BY <1>0, <1>1 DEF CoreInv, UnusedIds, Pushed, TypeOK, CatalogTypeOK
  <2> QED BY <1>0, <2>1, <2>2, OnlyInsertsTouchOrigins DEF InsertsRow
<1>2. ASSUME NEW id \in SnapshotIds, ~Pushed(id), Pushed(id)'
      PROVE  ~HoldsOwnChanges(id)'
  <2>1. PICK w \in SyncWriters : pc[w] = "log" /\ current[w] = id
    BY <1>0, <1>2, OnlyLogPushesShare
  <2>2. rowOf[id] = restores
    BY <2>1 DEF RestorableInv, RowsToLogAreNew
  <2>3. parquetFile[id] = "pending"
    BY <1>0, <2>1, ActorsHoldRows
  <2>4. id # nextId
    BY <1>0, <2>3 DEF CoreInv, UnusedIds, TypeOK, CatalogTypeOK
  <2>5. rowOf'[id] = rowOf[id]
    BY <1>0, <2>4, OnlyInsertsTouchOrigins DEF InsertsRow
  <2>6. ~(irods[id] # "absent" /\ objectOf[id] = restores)
    BY <1>2 DEF RestorableInv, ObjectsArePushed
  <2> QED BY <2>2, <2>5, <2>6
<1>3. ASSUME NEW id \in SnapshotIds PROVE id \in OwnMap' <=> id \in OwnMap
  <2>1. CASE Pushed(id)
    BY <1>1, <2>1
  <2>2. CASE ~Pushed(id)
    BY <1>2, <2>2
  <2> QED BY <2>1, <2>2
<1> QED BY <1>3

(* A put is an upload of a snapshot in flight.                             *)
LEMMA PutsAreRestorableUploads ==
    ASSUME RestorableInv, NEW p \in Processes, PutsObject(p)
    PROVE  \E id \in SnapshotIds : Restorable!Upload(id)
<1>0. /\ CoreInv /\ TypeOK
      /\ irods \in [SnapshotIds -> ObjectStates]
      /\ objectOf \in [SnapshotIds -> Eras]
  BY DEF RestorableInv, RestoreInv, RestoreCore, RestoreTypeOK, CoreInv, TypeOK
<1>1. /\ pc[p] = "put" /\ p \in Pushers
      /\ current[p] \in SnapshotIds /\ Pushed(current[p])
  BY <1>0, PutsOfLoggedRows
<1>2. StatusMap[current[p]] = "inflight" /\ current[p] \in SharedMap
  <2>1. parquetFile[current[p]] = "pending"
    BY <1>1 DEF RestorableInv, RestoreInv, ExclusiveInv, PushesPending
  <2> QED BY <1>1, <2>1, StatusCases DEF StatusMap, SharedMap
<1>3. UNCHANGED <<nextId, parquetFile, projectOf, parent, createdAt, rowOf>>
  BY DEF PutsObject, PutStored, PutReplyLost, StoreObject, catalogVars
<1>4. StatusMap' = StatusMap /\ SharedMap' = SharedMap
  BY <1>3 DEF StatusMap, LedgerStatus, SharedMap, Pushed
<1>5. \A id \in SnapshotIds \ {current[p]} :
         irods'[id] = irods[id] /\ objectOf'[id] = objectOf[id]
  BY <1>0, <1>1 DEF PutsObject, PutStored, PutReplyLost, StoreObject
<1>6. OwnMap' \in {OwnMap \cup {current[p]}, OwnMap \ {current[p]}}
  <2>1. \A id \in SnapshotIds \ {current[p]} : id \in OwnMap' <=> id \in OwnMap
    BY <1>3, <1>4, <1>5 DEF OwnMap, HoldsOwnChanges
  <2>2. OwnMap \subseteq SnapshotIds /\ OwnMap' \subseteq SnapshotIds
    BY DEF OwnMap, SharedMap
  <2>3. CASE current[p] \in OwnMap'
    BY <1>1, <2>1, <2>2, <2>3
  <2>4. CASE current[p] \notin OwnMap'
    BY <1>1, <2>1, <2>2, <2>4
  <2> QED BY <2>3, <2>4
<1> QED BY <1>1, <1>2, <1>3, <1>4, <1>6, TablesMap DEF Restorable!Upload, OwnMap


(* The other steps are those of the ledger, with the durability of who     *)
(* commits guaranteed by CommittedHoldsItsChanges.                         *)
LEMMA RestorableLedgerStep ==
    ASSUME RestorableInv, RestoreInv', ProtocolStep
    PROVE  [Restorable!LedgerNext]_(Restorable!ledgerVars)
<1> DEFINE Goal == [Restorable!LedgerNext]_(Restorable!ledgerVars)
<1> USE TablesMap DEF OwnMap
<1>0. /\ ExclusiveInv /\ CoreInv /\ CoreInv' /\ Next
      /\ SnapshotIds = Restorable!LedgerIds /\ SnapshotIds = Ledger!LedgerIds
      /\ NULL = Restorable!NoParent /\ NULL = Ledger!NoParent
  BY ProtocolEffects
     DEF RestorableInv, RestoreInv, ExclusiveInv, SnapshotIds, Ledger!LedgerIds,
         Ledger!NoParent, Restorable!LedgerIds, Restorable!NoParent
<1>1. ASSUME NEW p \in Processes, PutsObject(p) PROVE Goal
  BY <1>0, <1>1, PutsAreRestorableUploads DEF Restorable!LedgerNext
<1>2. CASE UNCHANGED <<irods, objectOf>>
  <2>0. OwnMap' = OwnMap /\ DurableMap' = DurableMap
    BY <1>2, OwnMapRests DEF DurableMap
  <2>1. ASSUME StatusMap' = StatusMap, SharedMap' = SharedMap,
               UNCHANGED <<projectOf, parent>>
        PROVE  Goal
    BY <2>0, <2>1 DEF Restorable!ledgerVars
  <2>2. CASE UNCHANGED Ledger!ledgerVars
    BY <2>1, <2>2 DEF Ledger!ledgerVars, StatusMap, SharedMap
  <2>3. ASSUME NEW id \in SnapshotIds, NEW p \in Projects,
               NEW par \in SnapshotIds \cup {NULL}, Ledger!Begin(id, p, par)
        PROVE  Goal
    <3>1. /\ \A other \in SnapshotIds : StatusMap[other] = "unborn" <=> other >= id
          /\ StatusMap' = [StatusMap EXCEPT ![id] = "inflight"]
          /\ projectOf' = [projectOf EXCEPT ![id] = p]
          /\ parent' = [parent EXCEPT ![id] = par]
          /\ SharedMap' = SharedMap
      BY <1>0, <2>3 DEF Ledger!Begin, StatusMap, SharedMap
    <3>2. par \in Restorable!ParentsFor(p)
      BY <1>0, <2>3 DEF Ledger!Begin, Ledger!ParentsFor, Restorable!ParentsFor, StatusMap
    <3>3. Restorable!Begin(id, p, par)
      BY <1>0, <2>0, <3>1, <3>2 DEF Restorable!Begin
    <3> QED BY <1>0, <3>3 DEF Restorable!LedgerNext
  <2>4. ASSUME NEW id \in SnapshotIds, Ledger!Share(id) PROVE Goal
    <3>1. /\ StatusMap[id] = "inflight" /\ SharedMap' = SharedMap \cup {id}
          /\ StatusMap' = StatusMap /\ UNCHANGED <<projectOf, parent>>
      BY <2>4 DEF Ledger!Share, StatusMap, SharedMap
    <3>2. Restorable!Share(id)
      BY <2>0, <3>1 DEF Restorable!Share
    <3> QED BY <1>0, <3>2 DEF Restorable!LedgerNext
  <2>5. ASSUME NEW id \in SnapshotIds, Ledger!Upload(id) PROVE Goal
    BY <2>1, <2>5 DEF Ledger!Upload, StatusMap, SharedMap
  <2>6. ASSUME NEW id \in SnapshotIds, NEW outcome \in Ledger!Outcomes,
               Ledger!Settle(id, outcome)
        PROVE  Goal
    <3>1. /\ StatusMap[id] = "inflight"
          /\ StatusMap' = [StatusMap EXCEPT ![id] = outcome]
          /\ outcome \in {"committed", "failed", "discarded"}
          /\ outcome = "failed" => id \in SharedMap
          /\ outcome = "discarded" => id \notin SharedMap
          /\ SharedMap' = SharedMap
          /\ UNCHANGED <<projectOf, parent>>
      BY <2>6 DEF Ledger!Settle, Ledger!Outcomes, StatusMap, SharedMap
    <3>2. outcome = "committed" => (id \in SharedMap => id \in OwnMap)
      <4> SUFFICES ASSUME outcome = "committed", id \in SharedMap
                   PROVE  id \in OwnMap'
        BY <2>0
      <4>1. StatusMap'[id] = "committed"
        BY <3>1 DEF StatusMap
      <4>2. parquetFile'[id] = "named"
        <5>1. parquetFile'[id] \in FileNames /\ LedgerStatus(id)' = "committed"
          BY <1>0, <4>1 DEF CoreInv, TypeOK, CatalogTypeOK, StatusMap
        <5> QED BY <5>1, NextStatusCases DEF FileNames
      <4>3. id \in SharedMap'
        BY <3>1
      <4> QED BY <4>2, <4>3
              DEF RestoreInv, CommittedHoldsItsChanges, HoldsOwnChanges, SharedMap, Pushed
    <3>3. Restorable!Settle(id, outcome)
      BY <2>0, <3>1, <3>2 DEF Restorable!Settle
    <3> QED BY <1>0, <3>1, <3>3 DEF Restorable!LedgerNext, Restorable!Outcomes
  <2>7. [Ledger!LedgerNext]_(Ledger!ledgerVars)
    BY <1>0, LedgerStepImplemented
  <2> QED BY <1>0, <2>2, <2>3, <2>4, <2>5, <2>6, <2>7 DEF Ledger!LedgerNext
<1> QED BY <1>1, <1>2, OnlyPutsTouchObjects

(* A restore goes back to the kept books, with the data of all that they   *)
(* have as committed.                                                      *)
LEMMA RestoresGoBack ==
    ASSUME RestorableInv, Restore
    PROVE  Restorable!GoBack
<1> USE TablesMap
<1>1. /\ parquetFile' = dump.parquetFile /\ nextId' = dump.nextId
      /\ projectOf' = dump.projectOf /\ parent' = dump.parent
      /\ createdAt' = dump.createdAt /\ rowOf' = dump.rowOf
      /\ UNCHANGED <<irods, objectOf, dump>>
  BY DEF Restore, LoadDump
<1>2. StatusIn(Tables)' = StatusIn(dump)
  <2>1. \A id \in SnapshotIds : LedgerStatus(id)' = RowStatus(dump, id)
    BY <1>1 DEF LedgerStatus, RowStatus
  <2> QED BY <2>1 DEF StatusMap, StatusIn
<1>3. SharedIn(Tables)' = SharedIn(dump)
  BY <1>1 DEF SharedMap, Pushed, SharedIn
<1>4. OwnMap' \subseteq SharedIn(dump)
  BY <1>3 DEF OwnMap
<1>5. ASSUME NEW id \in SharedIn(dump), StatusIn(dump)[id] = "committed"
      PROVE  id \in OwnMap'
  <2>1. id \in SnapshotIds /\ dump.createdAt[id] # 0
    BY DEF SharedIn
  <2>2. dump.parquetFile[id] = "named"
    <3>1. dump.parquetFile[id] \in FileNames
      BY <2>1 DEF RestorableInv, RestoreInv, RestoreCore, DumpTypes
    <3> QED BY <1>5, <2>1, <3>1 DEF StatusIn, RowStatus, FileNames
  <2>3. irods[id] = "whole" /\ objectOf[id] = dump.rowOf[id]
    BY <2>1, <2>2 DEF RestorableInv, RestoreInv, DumpIsPast, CommittedHoldsItsChanges
  <2> QED BY <1>1, <1>3, <2>3 DEF OwnMap, HoldsOwnChanges
<1>6. UNCHANGED [status   |-> StatusIn(dump), owner  |-> dump.projectOf,
                 previous |-> dump.parent,    shared |-> SharedIn(dump)]
  BY <1>1
<1> QED BY <1>1, <1>2, <1>3, <1>4, <1>5, <1>6
        DEF Restorable!GoBack, Restorable!CommittedIn, OwnMap

(* A backup keeps the books as they are.                                   *)
LEMMA BackupsKeep ==
    ASSUME Backup
    PROVE  Restorable!Keep
<1> USE TablesMap
<1>1. /\ dump' = Tables
      /\ UNCHANGED <<nextId, parquetFile, projectOf, parent, createdAt,
                     irods, rowOf, objectOf>>
  BY DEF Backup, vars, originVars
<1>2. /\ StatusIn(dump)' = StatusIn(Tables) /\ SharedIn(dump)' = SharedIn(Tables)
      /\ dump'.projectOf = projectOf /\ dump'.parent = parent
  BY <1>1 DEF StatusIn, RowStatus, SharedIn, Tables
<1>3. StatusMap' = StatusMap /\ SharedMap' = SharedMap /\ OwnMap' = OwnMap
  BY <1>1 DEF StatusMap, LedgerStatus, SharedMap, Pushed, OwnMap, HoldsOwnChanges
<1> QED BY <1>1, <1>2, <1>3
        DEF Restorable!Keep, Restorable!Books, Restorable!ledgerVars, OwnMap

LEMMA RestorableStepImplemented ==
    ASSUME RestorableInv, RestorableInv', [RestoreNext]_restoreVars
    PROVE  [Restorable!RestorableNext]_(Restorable!restorableVars)
<1>1. CASE ProtocolStep
  <2>1. dump' = dump
    BY <1>1, ProtocolEffects
  <2>2. [Restorable!LedgerNext]_(Restorable!ledgerVars)
    BY <1>1, RestorableLedgerStep DEF RestorableInv
  <2> QED BY <2>1, <2>2 DEF Restorable!RestorableNext, Restorable!restorableVars
<1>2. CASE Backup
  BY <1>2, BackupsKeep DEF Restorable!RestorableNext
<1>3. CASE Restore
  BY <1>3, RestoresGoBack DEF Restorable!RestorableNext
<1>4. CASE UNCHANGED restoreVars
  <2>1. UNCHANGED <<nextId, parquetFile, projectOf, parent, createdAt,
                    irods, rowOf, objectOf, dump>>
    BY <1>4 DEF restoreVars, vars, originVars
  <2>2. StatusMap' = StatusMap /\ SharedMap' = SharedMap /\ OwnMap' = OwnMap
    BY <2>1 DEF StatusMap, LedgerStatus, SharedMap, Pushed, OwnMap, HoldsOwnChanges
  <2> QED BY <2>1, <2>2, TablesMap
          DEF Restorable!restorableVars, Restorable!ledgerVars, OwnMap
<1> QED BY <1>1, <1>2, <1>3, <1>4 DEF RestoreNext

(* The write path, its crashes, backups and restores together implement a  *)
(* ledger that goes back to its kept copy and loses no committed data.     *)
THEOREM RestoresImplementLedger ==
    ASSUME Exclusive, CachesLost
    PROVE  RestoreSpec => ImplementsRestorableLedger
<1>1. RestorableInv /\ [RestoreNext]_restoreVars => RestorableInv'
  BY RestorableInvStep
<1>2. RestorableInv /\ RestorableInv' /\ [RestoreNext]_restoreVars
         => [Restorable!RestorableNext]_(Restorable!restorableVars)
  BY RestorableStepImplemented
<1> QED BY <1>1, <1>2, RestorableInvInit, RestorableInitImplemented, PTL
        DEF RestoreSpec, ImplementsRestorableLedger, Restorable!RestorableSpec

=============================================================================
