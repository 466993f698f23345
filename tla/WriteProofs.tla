----------------------------- MODULE WriteProofs -----------------------------
(***************************************************************************)
(* Proofs about WriteProtocol, for every set of writers, recoverers, hosts *)
(* and projects, every cache cap, attempt budget and drain limit.          *)
(***************************************************************************)
EXTENDS WriteInvariants, FiniteSetTheorems, TLAPS

USE DEF PARQUET_FILE_PENDING, PARQUET_FILE_FAILED, NULL

(* The processes are the writers and the recoverers, and no one is both.   *)
LEMMA ProcessSets ==
    /\ Writers \subseteq Processes
    /\ Recoverers \subseteq Processes
    /\ Pushers \subseteq Processes
    /\ SyncWriters \subseteq Writers
    /\ LocalWriters \subseteq Writers
    /\ SyncWriters \cap LocalWriters = {}
    /\ Recoverers \cap Writers = {}
    /\ SnapshotIds \subseteq Nat
    /\ 0 \notin SnapshotIds
BY ProcessesAssumption, MaxSnapshotsAssumption
   DEF Writers, Processes, Pushers, SnapshotIds

(* Ending a call keeps the types of everything it forgets.                 *)
LEMMA EndCallTypes ==
    ASSUME TypeOK, NEW p \in Processes, EndCall(p)
    PROVE  /\ pc' \in [Processes -> WriterSteps \cup RecovererSteps]
           /\ \A w \in Writers : pc'[w] \in WriterSteps
           /\ \A r \in Recoverers : pc'[r] \in RecovererSteps
           /\ current' \in [Processes -> SnapshotIds \cup {NULL}]
           /\ \A q \in Processes :
                 pc'[q] \notin {"idle", "create", "scan"} => current'[q] # NULL
           /\ readParent' \in [Writers -> SnapshotIds \cup {NULL}]
           /\ target' \in [Writers -> Projects \cup {NoProject}]
           /\ batch' \in [Recoverers -> SUBSET SnapshotIds]
           /\ listed' \in [Recoverers -> [SnapshotIds -> Nat]]
<1> USE ProcessSets DEF TypeOK, EndCall
<1>1. /\ pc' \in [Processes -> WriterSteps \cup RecovererSteps]
      /\ \A w \in Writers : pc'[w] \in WriterSteps
      /\ \A r \in Recoverers : pc'[r] \in RecovererSteps
  BY DEF WriterSteps, RecovererSteps
<1>2. /\ current' \in [Processes -> SnapshotIds \cup {NULL}]
      /\ \A q \in Processes :
            pc'[q] \notin {"idle", "create", "scan"} => current'[q] # NULL
  OBVIOUS
<1>3. /\ readParent' \in [Writers -> SnapshotIds \cup {NULL}]
      /\ target' \in [Writers -> Projects \cup {NoProject}]
  OBVIOUS
<1>4. batch' \in [Recoverers -> SUBSET SnapshotIds]
  OBVIOUS
<1>5. listed' \in [Recoverers -> [SnapshotIds -> Nat]]
  OBVIOUS
<1> QED BY <1>1, <1>2, <1>3, <1>4, <1>5

(* What a process has done once it jumps to a step of its own with an id   *)
(* in hand, or to a step that needs none.                                  *)
PcTypesNext ==
    /\ pc' \in [Processes -> WriterSteps \cup RecovererSteps]
    /\ \A w \in Writers : pc'[w] \in WriterSteps
    /\ \A r \in Recoverers : pc'[r] \in RecovererSteps
    /\ \A p \in Processes :
          pc'[p] \notin {"idle", "create", "scan"} => current'[p] # NULL

LEMMA GotoTypes ==
    ASSUME TypeOK, NEW p \in Processes, NEW step,
           p \in Writers => step \in WriterSteps,
           p \in Recoverers => step \in RecovererSteps,
           step \notin {"idle", "create", "scan"} => current'[p] # NULL,
           \A q \in Processes \ {p} : current'[q] = current[q],
           Goto(p, step)
    PROVE  PcTypesNext
BY ProcessSets DEF TypeOK, Goto, Processes, PcTypesNext

-----------------------------------------------------------------------------
(* Type correctness *)

(* The initial state is well typed.                                        *)
LEMMA InitTypeOK == Init => TypeOK
BY ProcessSets, MaxSnapshotsAssumption
   DEF Init, CatalogInit, TypeOK, CatalogTypeOK, WriterSteps, RecovererSteps,
       FileStates, ObjectStates, FileNames

(* Writing a file of the cache keeps the types.                            *)
LEMMA StoreLocalFileTypes ==
    ASSUME TypeOK, NEW w \in Writers, NEW content \in FileStates,
           StoreLocalFile(w, content)
    PROVE  /\ cache' \in [Hosts -> [SnapshotIds -> FileStates]]
           /\ mtime' \in [Hosts -> [SnapshotIds -> Nat]]
           /\ clock' \in Nat
<1>1. clock' \in Nat
  BY DEF TypeOK, CatalogTypeOK, StoreLocalFile
<1>2. cache' \in [Hosts -> [SnapshotIds -> FileStates]]
  BY DEF TypeOK, StoreLocalFile
<1>3. mtime' \in [Hosts -> [SnapshotIds -> Nat]]
  BY DEF TypeOK, CatalogTypeOK, StoreLocalFile
<1> QED BY <1>1, <1>2, <1>3

(* The steps of record_changes up to the push keep the types.              *)
LEMMA WriterTypeOK ==
    ASSUME TypeOK, NEW w \in Writers, WriterStep(w)
    PROVE  TypeOK'
<1> USE ProcessSets, HostOfAssumption
<1>0. pc[w] \notin {"idle", "create"} => current[w] \in SnapshotIds
  BY DEF TypeOK, WriterSteps
<1> USE DEF PcTypesNext, catalogVars, callVars, snapshotTable, walTable, CatalogTypeOK
<1>1. CASE ReadParent(w)
  <2>1. Goto(w, "create")
    BY <1>1 DEF ReadParent
  <2>2. PcTypesNext
    BY <1>1, <2>1, GotoTypes DEF ReadParent, WriterSteps
  <2> QED BY <1>1, <2>2 DEF ReadParent, TypeOK
<1>2. CASE CreateSnapshot(w)
  <2>1. PcTypesNext
    BY <1>2, <1>0, GotoTypes DEF CreateSnapshot, WriterSteps, TypeOK
  <2>2. nextId' \in 1..(MaxSnapshots + 1)
    BY <1>2, MaxSnapshotsAssumption
       DEF CreateSnapshot, CreateSnapshotRow, TypeOK, SnapshotIds
  <2>3. target[w] \in Projects \cup {NoProject}
        /\ readParent[w] \in SnapshotIds \cup {NULL}
    BY DEF TypeOK
  <2> QED BY <1>2, <2>1, <2>2, <2>3
             DEF CreateSnapshot, CreateSnapshotRow, TypeOK, FileNames
<1>3. CASE LogPush(w)
  <2>1. PcTypesNext
    BY <1>3, <1>0, GotoTypes DEF LogPush, WriterSteps, TypeOK
  <2>2. wal' \subseteq SnapshotIds
    BY <1>0, <1>3 DEF LogPush, InsertPendingPush, TypeOK
  <2>3. createdAt' \in [SnapshotIds -> Nat] /\ attempts' \in [SnapshotIds -> Nat]
    BY <1>3 DEF LogPush, InsertPendingPush, TypeOK
  <2>4. clock' \in Nat
    BY <1>3 DEF LogPush, InsertPendingPush, TypeOK
  <2> QED BY <1>3, <2>1, <2>2, <2>3, <2>4 DEF LogPush, TypeOK
<1>4. CASE BeginCopy(w)
  <2>1. PcTypesNext
    BY <1>4, <1>0, GotoTypes DEF BeginCopy, WriterSteps, TypeOK
  <2>2. /\ cache' \in [Hosts -> [SnapshotIds -> FileStates]]
        /\ mtime' \in [Hosts -> [SnapshotIds -> Nat]]
        /\ clock' \in Nat
    BY <1>4, StoreLocalFileTypes DEF BeginCopy, TypeOK, FileStates
  <2> QED BY <1>4, <2>1, <2>2 DEF BeginCopy, TypeOK
<1>5. CASE EndCopy(w)
  <2>1. PcTypesNext
    BY <1>5, <1>0, GotoTypes DEF EndCopy, WriterSteps, TypeOK
  <2>2. /\ cache' \in [Hosts -> [SnapshotIds -> FileStates]]
        /\ mtime' \in [Hosts -> [SnapshotIds -> Nat]]
        /\ clock' \in Nat
    BY <1>5, StoreLocalFileTypes DEF EndCopy, TypeOK, FileStates
  <2> QED BY <1>5, <2>1, <2>2 DEF EndCopy, TypeOK
<1>6. CASE CopyFails(w)
  <2>1. PcTypesNext
    BY <1>6, <1>0, GotoTypes DEF CopyFails, WriterSteps, TypeOK
  <2> QED BY <1>6, <2>1 DEF CopyFails, TypeOK
<1>7. CASE Rollback(w)
  <2>1. EndCall(w)
    BY <1>7 DEF Rollback
  <2> QED BY <1>7, <2>1, EndCallTypes
             DEF Rollback, DeleteSnapshotRow, TypeOK, FileNames
<1>8. CASE EvictIfOver(w)
  <2>1. EndCall(w)
    BY <1>8 DEF EvictIfOver
  <2>2. cache' \in [Hosts -> [SnapshotIds -> FileStates]]
    BY <1>8 DEF EvictIfOver, TypeOK, FileStates
  <2> QED BY <1>8, <2>1, <2>2, EndCallTypes DEF EvictIfOver, TypeOK
<1> QED BY <1>1, <1>2, <1>3, <1>4, <1>5, <1>6, <1>7, <1>8 DEF WriterStep

(* push, the commit point and the drain keep the types.                    *)
LEMMA PushTypeOK ==
    ASSUME TypeOK, NEW p \in Processes, PushStep(p)
    PROVE  TypeOK'
<1> USE ProcessSets, HostOfAssumption
<1>0. /\ pc[p] \notin {"idle", "create", "scan"} => current[p] \in SnapshotIds
      /\ p \in Writers \/ p \in Recoverers
  BY DEF TypeOK, Processes
<1> USE DEF PcTypesNext, catalogVars, callVars, snapshotTable, walTable,
            CatalogTypeOK
<1>a. ASSUME pc[p] \in {"put", "verify"}, PushRaises(p)
      PROVE  /\ PcTypesNext
             /\ current' \in [Processes -> SnapshotIds \cup {NULL}]
             /\ readParent' \in [Writers -> SnapshotIds \cup {NULL}]
             /\ target' \in [Writers -> Projects \cup {NoProject}]
             /\ batch' \in [Recoverers -> SUBSET SnapshotIds]
             /\ listed' \in [Recoverers -> [SnapshotIds -> Nat]]
  <2>1. CASE p \in Recoverers
    <3>0. current[p] # NULL
      BY <1>a, <2>1 DEF TypeOK
    <3>1. Goto(p, "bump") /\ UNCHANGED <<current, callVars>>
      BY <1>a, <2>1 DEF PushRaises
    <3>2. PcTypesNext
      BY <1>0, <1>a, <2>1, <3>1, GotoTypes DEF RecovererSteps, TypeOK
    <3> QED BY <3>1, <3>2 DEF TypeOK
  <2>2. CASE p \notin Recoverers
    BY <1>a, <2>2, EndCallTypes DEF PushRaises
  <2> QED BY <2>1, <2>2
<1>b. ASSUME StoreObject(p), pc[p] = "put"
      PROVE  irods' \in [SnapshotIds -> ObjectStates]
  <2>1. current[p] \in SnapshotIds /\ HostOf[p] \in Hosts
    BY <1>0, <1>b
  <2>2. LocalFile(p) \in FileStates
    <3>1. cache \in [Hosts -> [SnapshotIds -> FileStates]]
      BY DEF TypeOK
    <3> QED BY <2>1, <3>1 DEF LocalFile
  <2> QED BY <1>b, <2>1, <2>2 DEF StoreObject, TypeOK, ObjectStates
<1>1. CASE PutRejected(p)
  BY <1>1, <1>a DEF PutRejected, TypeOK
<1>2. CASE PutStored(p)
  <2>1. PcTypesNext
    BY <1>0, <1>2, GotoTypes DEF PutStored, TypeOK, WriterSteps, RecovererSteps
  <2> QED BY <1>2, <1>b, <2>1 DEF PutStored, StoreObject, TypeOK
<1>3. CASE PutReplyLost(p)
  BY <1>3, <1>a, <1>b DEF PutReplyLost, StoreObject, TypeOK
<1>4. CASE VerifyPasses(p)
  <2>1. PcTypesNext
    BY <1>0, <1>4, GotoTypes DEF VerifyPasses, TypeOK, WriterSteps, RecovererSteps
  <2> QED BY <1>4, <2>1 DEF VerifyPasses, TypeOK
<1>5. CASE VerifyRaises(p)
  BY <1>5, <1>a DEF VerifyRaises, TypeOK
<1>6. CASE FlipToNamed(p)
  <2>1. PcTypesNext
    BY <1>0, <1>6, GotoTypes DEF FlipToNamed, TypeOK, WriterSteps, RecovererSteps
  <2> QED BY <1>6, <2>1
             DEF FlipToNamed, UpdateSnapshotParquetFile, FileNames, TypeOK
<1>7. CASE DrainWal(p)
  <2>1. PcTypesNext
    BY <1>0, <1>7, GotoTypes DEF DrainWal, TypeOK, WriterSteps, RecovererSteps
  <2> QED BY <1>7, <2>1 DEF DrainWal, DeletePendingPush, TypeOK
<1> QED BY <1>1, <1>2, <1>3, <1>4, <1>5, <1>6, <1>7 DEF PushStep

(* The steps of recovery keep the types.                                   *)
LEMMA RecovererTypeOK ==
    ASSUME TypeOK, NEW r \in Recoverers, RecovererStep(r)
    PROVE  TypeOK'
<1> USE ProcessSets
<1>0. pc[r] \notin {"idle", "scan"} => current[r] \in SnapshotIds
  BY DEF TypeOK, RecovererSteps
<1> USE DEF PcTypesNext, catalogVars, callVars, snapshotTable, walTable,
            CatalogTypeOK
<1>1. CASE ListWal(r)
  <2>1. PcTypesNext
    BY <1>1, GotoTypes DEF ListWal, TypeOK, RecovererSteps
  <2>2. ListPendingPushes(DrainLimit) \subseteq SnapshotIds
    BY DEF ListPendingPushes, TypeOK
  <2>3. batch' \in [Recoverers -> SUBSET SnapshotIds]
    BY <1>1, <2>2 DEF ListWal, TypeOK
  <2>4. listed' \in [Recoverers -> [SnapshotIds -> Nat]]
    BY <1>1 DEF ListWal, TypeOK
  <2> QED BY <1>1, <2>1, <2>3, <2>4 DEF ListWal, TypeOK
<1>2. CASE NextRow(r)
  <2>1. PICK id \in batch[r] :
           /\ current' = [current EXCEPT ![r] = id]
           /\ batch' = [batch EXCEPT ![r] = @ \ {id}]
    BY <1>2 DEF NextRow
  <2>2. id \in SnapshotIds
    BY <2>1 DEF TypeOK
  <2>3. current'[r] # NULL /\ \A q \in Processes \ {r} : current'[q] = current[q]
    BY <2>1, <2>2 DEF TypeOK
  <2>4. PcTypesNext
    BY <1>2, <2>3, GotoTypes DEF NextRow, RecovererSteps
  <2>5. /\ current' \in [Processes -> SnapshotIds \cup {NULL}]
        /\ batch' \in [Recoverers -> SUBSET SnapshotIds]
    BY <2>1, <2>2 DEF TypeOK
  <2> QED BY <1>2, <2>4, <2>5 DEF NextRow, TypeOK
<1>3. CASE LookAtSnapshot(r)
  <2>1. PcTypesNext
    BY <1>0, <1>3, GotoTypes DEF LookAtSnapshot, TypeOK, RecovererSteps
  <2> QED BY <1>3, <2>1 DEF LookAtSnapshot, TypeOK
<1>4. CASE GiveUp(r)
  <2>1. PcTypesNext
    BY <1>0, <1>4, GotoTypes DEF GiveUp, TypeOK, RecovererSteps
  <2> QED BY <1>4, <2>1
             DEF GiveUp, UpdateSnapshotParquetFile, FileNames, TypeOK
<1>5. CASE BumpAttempt(r)
  <2>1. PcTypesNext
    BY <1>0, <1>5, GotoTypes DEF BumpAttempt, TypeOK, RecovererSteps
  <2>2. current[r] \in SnapshotIds
    BY <1>0, <1>5 DEF BumpAttempt
  <2>3. attempts' \in [SnapshotIds -> Nat]
    <3>1. attempts \in [SnapshotIds -> Nat]
      BY DEF TypeOK
    <3>2. attempts' = [attempts EXCEPT ![current[r]] =
                         IF current[r] \in wal THEN @ + 1 ELSE @]
      BY <1>5 DEF BumpAttempt, BumpPendingPushAttempt
    <3> DEFINE new == IF current[r] \in wal THEN attempts[current[r]] + 1
                                           ELSE attempts[current[r]]
    <3>3. new \in Nat
      <4>1. attempts[current[r]] \in Nat
        BY <2>2, <3>1
      <4> QED BY <4>1
    <3>4. attempts' = [attempts EXCEPT ![current[r]] = new]
      BY <3>2
    <3> HIDE DEF new
    <3> QED BY <3>1, <3>3, <3>4
  <2> QED BY <1>5, <2>1, <2>3 DEF BumpAttempt, BumpPendingPushAttempt, TypeOK
<1>6. CASE EndRecovery(r)
  BY <1>6, EndCallTypes DEF EndRecovery, TypeOK
<1> QED BY <1>1, <1>2, <1>3, <1>4, <1>5, <1>6 DEF RecovererStep

(* The type invariant survives a step.                                     *)
LEMMA TypesKept ==
    ASSUME TypeOK, [Next]_vars
    PROVE  TypeOK'
<1>1. ASSUME NEW w \in Writers, WriterStep(w) PROVE TypeOK'
  BY <1>1, WriterTypeOK
<1>2. ASSUME NEW r \in Recoverers, RecovererStep(r) PROVE TypeOK'
  BY <1>2, RecovererTypeOK
<1>3. ASSUME NEW p \in Processes, PushStep(p) PROVE TypeOK'
  BY <1>3, PushTypeOK
<1>4. ASSUME NEW p \in Processes, Abandon(p) PROVE TypeOK'
  BY <1>4, EndCallTypes DEF Abandon, catalogVars, TypeOK, CatalogTypeOK
<1>5. CASE UNCHANGED vars
  BY <1>5 DEF vars, TypeOK, CatalogTypeOK
<1> QED BY <1>1, <1>2, <1>3, <1>4, <1>5 DEF Next

(* Every reachable state is well typed, whatever crashes and overlaps.     *)
THEOREM TypeCorrect == Spec => []TypeOK
BY InitTypeOK, TypesKept, PTL DEF Spec

-----------------------------------------------------------------------------
(* What a step does to the catalog *)

CatalogRows == <<nextId, parquetFile, projectOf, parent, wal, createdAt, attempts>>

(* The seven statements that write the tables; every other step leaves     *)
(* them alone and at most advances the clock.                              *)
LEMMA TableEffects ==
    ASSUME TypeOK, [Next]_vars
    PROVE  \/ UNCHANGED CatalogRows /\ clock' \in {clock, clock + 1}
           \/ \E w \in Writers : CreateSnapshot(w) \/ LogPush(w) \/ Rollback(w)
           \/ \E p \in Processes : FlipToNamed(p) \/ DrainWal(p)
           \/ \E r \in Recoverers : GiveUp(r) \/ BumpAttempt(r)
<1> USE DEF CatalogRows, catalogVars, snapshotTable, walTable
<1>1. ASSUME NEW w \in Writers, WriterStep(w)
      PROVE  \/ UNCHANGED CatalogRows /\ clock' \in {clock, clock + 1}
             \/ CreateSnapshot(w) \/ LogPush(w) \/ Rollback(w)
  <2>1. CASE ReadParent(w) \/ CopyFails(w) \/ EvictIfOver(w)
    BY <2>1 DEF ReadParent, CopyFails, EvictIfOver
  <2>2. CASE BeginCopy(w) \/ EndCopy(w)
    BY <2>2 DEF BeginCopy, EndCopy, StoreLocalFile
  <2> QED BY <1>1, <2>1, <2>2 DEF WriterStep
<1>2. ASSUME NEW r \in Recoverers, RecovererStep(r)
      PROVE  \/ UNCHANGED CatalogRows /\ clock' = clock
             \/ GiveUp(r) \/ BumpAttempt(r)
  BY <1>2 DEF RecovererStep, ListWal, NextRow, LookAtSnapshot, EndRecovery
<1>3. ASSUME NEW p \in Processes, PushStep(p)
      PROVE  \/ UNCHANGED CatalogRows /\ clock' = clock
             \/ FlipToNamed(p) \/ DrainWal(p)
  BY <1>3 DEF PushStep, PutRejected, PutStored, PutReplyLost, StoreObject,
              VerifyPasses, VerifyRaises
<1>4. ASSUME NEW p \in Processes, Abandon(p)
      PROVE  UNCHANGED CatalogRows /\ clock' = clock
  BY <1>4 DEF Abandon
<1>5. CASE UNCHANGED vars
  BY <1>5 DEF vars
<1> QED BY <1>1, <1>2, <1>3, <1>4, <1>5 DEF Next

(* Whoever flips or drains a snapshot holds an allocated id; a writer that *)
(* rolls back holds one that was never logged and is still pending.        *)
LEMMA ActorsHoldRows ==
    ASSUME CoreInv
    PROVE  /\ \A w \in Writers : pc[w] \in {"log", "rollback"} =>
                 /\ current[w] \in SnapshotIds
                 /\ ~Pushed(current[w])
                 /\ parquetFile[current[w]] = PARQUET_FILE_PENDING
           /\ \A p \in Processes : pc[p] \in {"flip", "drain"} =>
                 current[p] \in SnapshotIds
           /\ \A p \in Processes : pc[p] = "drain" =>
                 Settled(current[p]) /\ Pushed(current[p])
           /\ \A r \in Recoverers : pc[r] \in {"giveup", "bump"} =>
                 current[r] \in SnapshotIds /\ Pushed(current[r])
<1> USE ProcessSets
<1>1. \A w \in Writers : w \in SyncWriters \/ w \in LocalWriters
  BY DEF Writers
<1>2. \A p \in Processes : p \in Writers \/ p \in Recoverers
  BY DEF Processes
<1> QED BY <1>1, <1>2 DEF CoreInv, WriterIds, LocalRow, SyncRow, RecovererRows, HasId

(* What the catalog never forgets: ids grow, a logged id stays logged, a   *)
(* settled one settled, its project and parent stay, attempts only grow.   *)
RowsAreKept ==
    /\ nextId' \in Nat /\ nextId' >= nextId
    /\ \A id \in SnapshotIds :
          /\ Pushed(id) => Pushed(id)'
          /\ Settled(id) => Settled(id)'
          /\ id # nextId => projectOf'[id] = projectOf[id] /\ parent'[id] = parent[id]
          /\ attempts'[id] >= attempts[id]

LEMMA StepKeepsRows ==
    ASSUME CoreInv, [Next]_vars
    PROVE  RowsAreKept
<1> USE ProcessSets DEF RowsAreKept, Settled, Pushed
<1>0. /\ nextId \in Nat
      /\ parquetFile \in [SnapshotIds -> FileNames]
      /\ projectOf \in [SnapshotIds -> Projects \cup {NoProject}]
      /\ parent \in [SnapshotIds -> SnapshotIds \cup {NULL}]
      /\ createdAt \in [SnapshotIds -> Nat]
      /\ attempts \in [SnapshotIds -> Nat]
      /\ clock \in Nat /\ clock > 0
      /\ parquetFile[nextId] = "none" \/ nextId \notin SnapshotIds
      /\ \A id \in SnapshotIds : createdAt[id] = 0 => attempts[id] = 0
  BY MaxSnapshotsAssumption
     DEF CoreInv, TypeOK, CatalogTypeOK, UnusedIds, LoggedRows, Pushed
<1>1. CASE UNCHANGED CatalogRows
  BY <1>0, <1>1 DEF CatalogRows
<1>2. ASSUME NEW w \in Writers, CreateSnapshot(w) PROVE RowsAreKept
  <2>1. /\ nextId \in SnapshotIds /\ nextId' = nextId + 1
        /\ \A id \in SnapshotIds \ {nextId} :
              /\ parquetFile'[id] = parquetFile[id]
              /\ projectOf'[id] = projectOf[id]
              /\ parent'[id] = parent[id]
        /\ UNCHANGED <<createdAt, attempts>>
    BY <1>0, <1>2 DEF CreateSnapshot, CreateSnapshotRow, walTable
  <2> QED BY <1>0, <2>1
<1>3. ASSUME NEW w \in Writers, LogPush(w) PROVE RowsAreKept
  <2>1. current[w] \in SnapshotIds /\ createdAt[current[w]] = 0
    BY <1>3, ActorsHoldRows DEF LogPush
  <2> QED BY <1>0, <1>3, <2>1 DEF LogPush, InsertPendingPush, snapshotTable
<1>4. ASSUME NEW w \in Writers, Rollback(w) PROVE RowsAreKept
  <2>1. current[w] \in SnapshotIds /\ parquetFile[current[w]] = "pending"
    BY <1>4, ActorsHoldRows DEF Rollback
  <2> QED BY <1>0, <1>4, <2>1 DEF Rollback, DeleteSnapshotRow
<1>5. ASSUME NEW p \in Processes, FlipToNamed(p) PROVE RowsAreKept
  BY <1>0, <1>5 DEF FlipToNamed, UpdateSnapshotParquetFile, walTable
<1>6. ASSUME NEW p \in Processes, DrainWal(p) PROVE RowsAreKept
  <2>1. UNCHANGED <<nextId, parquetFile, projectOf, parent, createdAt, attempts>>
    BY <1>6 DEF DrainWal, DeletePendingPush, snapshotTable
  <2> QED BY <1>0, <2>1
<1>7. ASSUME NEW r \in Recoverers, GiveUp(r) PROVE RowsAreKept
  BY <1>0, <1>7 DEF GiveUp, UpdateSnapshotParquetFile, walTable
<1>8. ASSUME NEW r \in Recoverers, BumpAttempt(r) PROVE RowsAreKept
  <2>1. \A id \in SnapshotIds : attempts'[id] \in {attempts[id], attempts[id] + 1}
    BY <1>0, <1>8 DEF BumpAttempt, BumpPendingPushAttempt
  <2>2. UNCHANGED <<nextId, parquetFile, projectOf, parent, createdAt>>
    BY <1>8 DEF BumpAttempt, BumpPendingPushAttempt, snapshotTable
  <2>3. \A id \in SnapshotIds : attempts'[id] >= attempts[id]
    BY <1>0, <2>1
  <2> QED BY <1>0, <2>2, <2>3
<1> QED BY <1>1, <1>2, <1>3, <1>4, <1>5, <1>6, <1>7, <1>8, TableEffects DEF CoreInv

-----------------------------------------------------------------------------
(* What a step does to the calls *)

(* The local variables of a call.                                          *)
SameCall(q) ==
    /\ pc'[q] = pc[q]
    /\ current'[q] = current[q]
    /\ q \in Writers => readParent'[q] = readParent[q] /\ target'[q] = target[q]
    /\ q \in Recoverers => batch'[q] = batch[q] /\ listed'[q] = listed[q]

CallEnded(q) ==
    /\ pc'[q] = "idle"
    /\ q \in Recoverers => batch'[q] = {} /\ listed'[q] = [id \in SnapshotIds |-> 0]

(* A recoverer whose push raised.                                          *)
PushFailed(q) ==
    /\ q \in Recoverers
    /\ pc[q] \in {"put", "verify"}
    /\ pc'[q] = "bump"
    /\ UNCHANGED <<current, batch, listed>>

WriterMove(w) ==
    \/ ReadParent(w) \/ CreateSnapshot(w) \/ LogPush(w)
    \/ BeginCopy(w) \/ EndCopy(w) \/ CopyFails(w)

PushMove(p) == PutStored(p) \/ VerifyPasses(p) \/ FlipToNamed(p) \/ DrainWal(p)

RecovererMove(r) ==
    \/ ListWal(r) \/ NextRow(r) \/ LookAtSnapshot(r) \/ GiveUp(r)
    \/ BumpAttempt(r) \/ PushFailed(r)

(* A step leaves a call alone, ends it, or is one of its own statements.   *)
LEMMA CallEffects ==
    ASSUME TypeOK, [Next]_vars, NEW q \in Processes
    PROVE  \/ SameCall(q) \/ CallEnded(q) \/ PushMove(q)
           \/ q \in Writers /\ WriterMove(q)
           \/ q \in Recoverers /\ RecovererMove(q)
<1> DEFINE Goal == \/ SameCall(q) \/ CallEnded(q) \/ PushMove(q)
                   \/ q \in Writers /\ WriterMove(q)
                   \/ q \in Recoverers /\ RecovererMove(q)
<1> USE ProcessSets DEF callVars
<1>0. /\ pc \in [Processes -> WriterSteps \cup RecovererSteps]
      /\ current \in [Processes -> SnapshotIds \cup {NULL}]
      /\ readParent \in [Writers -> SnapshotIds \cup {NULL}]
      /\ target \in [Writers -> Projects \cup {NoProject}]
      /\ batch \in [Recoverers -> SUBSET SnapshotIds]
      /\ listed \in [Recoverers -> [SnapshotIds -> Nat]]
  BY DEF TypeOK
<1>1. ASSUME NEW p \in Processes, EndCall(p) PROVE SameCall(q) \/ CallEnded(q)
  BY <1>0, <1>1 DEF EndCall, SameCall, CallEnded
<1>2. ASSUME NEW p \in Processes, NEW step, p # q,
             Goto(p, step), UNCHANGED <<current, callVars>>
      PROVE  SameCall(q)
  BY <1>0, <1>2 DEF Goto, SameCall
<1>3. ASSUME NEW w \in Writers, WriterStep(w) PROVE Goal
  <2>1. CASE Rollback(w) \/ EvictIfOver(w)
    BY <1>1, <2>1 DEF Rollback, EvictIfOver
  <2>2. CASE WriterMove(w)
    <3>1. CASE w = q
      BY <2>2, <3>1
    <3>2. CASE w # q
      <4>1. CASE ReadParent(w)
        BY <1>0, <3>2, <4>1 DEF ReadParent, Goto, SameCall
      <4>2. CASE CreateSnapshot(w)
        BY <1>0, <3>2, <4>2 DEF CreateSnapshot, Goto, SameCall
      <4>3. CASE LogPush(w) \/ BeginCopy(w) \/ EndCopy(w) \/ CopyFails(w)
        BY <1>2, <3>2, <4>3 DEF LogPush, BeginCopy, EndCopy, CopyFails
      <4> QED BY <2>2, <4>1, <4>2, <4>3 DEF WriterMove
    <3> QED BY <3>1, <3>2
  <2> QED BY <1>3, <2>1, <2>2 DEF WriterStep, WriterMove
<1>4. ASSUME NEW r \in Recoverers, RecovererStep(r) PROVE Goal
  <2>1. CASE EndRecovery(r)
    BY <1>1, <2>1 DEF EndRecovery
  <2>2. CASE ListWal(r)
    BY <1>0, <2>2 DEF ListWal, Goto, SameCall, RecovererMove
  <2>3. CASE NextRow(r)
    BY <1>0, <2>3 DEF NextRow, Goto, SameCall, RecovererMove
  <2>4. CASE LookAtSnapshot(r) \/ GiveUp(r) \/ BumpAttempt(r)
    <3>1. CASE r = q
      BY <2>4, <3>1 DEF RecovererMove
    <3>2. CASE r # q
      BY <1>2, <2>4, <3>2 DEF LookAtSnapshot, GiveUp, BumpAttempt
    <3> QED BY <3>1, <3>2
  <2> QED BY <1>4, <2>1, <2>2, <2>3, <2>4 DEF RecovererStep
<1>5. ASSUME NEW p \in Processes, PushStep(p) PROVE Goal
  <2>1. ASSUME pc[p] \in {"put", "verify"}, PushRaises(p) PROVE Goal
    <3>1. CASE p \in Recoverers /\ p = q
      BY <1>0, <2>1, <3>1 DEF PushRaises, Goto, RecovererMove, PushFailed
    <3>2. CASE p \in Recoverers /\ p # q
      BY <1>2, <2>1, <3>2 DEF PushRaises
    <3>3. CASE p \notin Recoverers
      BY <1>1, <2>1, <3>3 DEF PushRaises
    <3> QED BY <3>1, <3>2, <3>3
  <2>2. CASE PutRejected(p) \/ PutReplyLost(p) \/ VerifyRaises(p)
    BY <2>1, <2>2 DEF PutRejected, PutReplyLost, VerifyRaises
  <2>3. CASE PushMove(p)
    <3>1. CASE p = q
      BY <2>3, <3>1
    <3>2. CASE p # q
      BY <1>2, <2>3, <3>2 DEF PushMove, PutStored, VerifyPasses, FlipToNamed, DrainWal
    <3> QED BY <3>1, <3>2
  <2> QED BY <1>5, <2>2, <2>3 DEF PushStep, PushMove
<1>6. ASSUME NEW p \in Processes, Abandon(p) PROVE Goal
  BY <1>1, <1>6 DEF Abandon
<1>7. CASE UNCHANGED vars
  BY <1>7 DEF vars, SameCall
<1> QED BY <1>3, <1>4, <1>5, <1>6, <1>7 DEF Next

(* Only COPY writes a file into a cache, and only eviction removes one.     *)
LEMMA CacheEffects ==
    ASSUME [Next]_vars
    PROVE  \/ UNCHANGED <<cache, mtime>>
           \/ \E w \in Writers : BeginCopy(w) \/ EndCopy(w) \/ EvictIfOver(w)
<1>1. ASSUME NEW w \in Writers, WriterStep(w)
      PROVE  UNCHANGED <<cache, mtime>> \/ BeginCopy(w) \/ EndCopy(w) \/ EvictIfOver(w)
  BY <1>1 DEF WriterStep, ReadParent, CreateSnapshot, LogPush, CopyFails, Rollback
<1>2. ASSUME NEW r \in Recoverers, RecovererStep(r) PROVE UNCHANGED <<cache, mtime>>
  BY <1>2 DEF RecovererStep, ListWal, NextRow, LookAtSnapshot, GiveUp, BumpAttempt,
              EndRecovery
<1>3. ASSUME NEW p \in Processes, PushStep(p) PROVE UNCHANGED <<cache, mtime>>
  BY <1>3 DEF PushStep, PutRejected, PutStored, PutReplyLost, StoreObject,
              VerifyPasses, VerifyRaises, FlipToNamed, DrainWal
<1>4. ASSUME NEW p \in Processes, Abandon(p) PROVE UNCHANGED <<cache, mtime>>
  BY <1>4 DEF Abandon
<1>5. CASE UNCHANGED vars
  BY <1>5 DEF vars
<1> QED BY <1>1, <1>2, <1>3, <1>4, <1>5 DEF Next

(* Only a put writes an object.                                            *)
LEMMA OnlyPutsStore ==
    ASSUME [Next]_vars
    PROVE  \/ UNCHANGED irods
           \/ \E p \in Processes : PutStored(p) \/ PutReplyLost(p)
<1>1. ASSUME NEW w \in Writers, WriterStep(w) PROVE UNCHANGED irods
  BY <1>1 DEF WriterStep, ReadParent, CreateSnapshot, LogPush, BeginCopy, EndCopy,
              CopyFails, Rollback, EvictIfOver
<1>2. ASSUME NEW r \in Recoverers, RecovererStep(r) PROVE UNCHANGED irods
  BY <1>2 DEF RecovererStep, ListWal, NextRow, LookAtSnapshot, GiveUp, BumpAttempt,
              EndRecovery
<1>3. ASSUME NEW p \in Processes, PushStep(p)
      PROVE  UNCHANGED irods \/ PutStored(p) \/ PutReplyLost(p)
  BY <1>3 DEF PushStep, PutRejected, VerifyPasses, VerifyRaises, FlipToNamed, DrainWal
<1>4. ASSUME NEW p \in Processes, Abandon(p) PROVE UNCHANGED irods
  BY <1>4 DEF Abandon
<1>5. CASE UNCHANGED vars
  BY <1>5 DEF vars
<1> QED BY <1>1, <1>2, <1>3, <1>4, <1>5 DEF Next

-----------------------------------------------------------------------------
(* The catalog part of the invariant *)

(* A step touches no id that is not handed out afterwards.                 *)
LEMMA UnusedIdsKept ==
    ASSUME CoreInv, [Next]_vars
    PROVE  UnusedIds'
<1> SUFFICES ASSUME NEW id \in SnapshotIds, id >= nextId'
             PROVE  parquetFile'[id] = "none" /\ createdAt'[id] = 0
  BY DEF UnusedIds
<1> USE ProcessSets
<1>0. /\ nextId \in Nat /\ nextId' \in Nat /\ nextId' >= nextId
      /\ parquetFile \in [SnapshotIds -> FileNames]
      /\ createdAt \in [SnapshotIds -> Nat]
      /\ \A other \in SnapshotIds : other >= nextId =>
            parquetFile[other] = "none" /\ createdAt[other] = 0
  BY StepKeepsRows, MaxSnapshotsAssumption
     DEF RowsAreKept, CoreInv, TypeOK, CatalogTypeOK, UnusedIds
<1>1. /\ id \in Nat /\ id >= nextId
      /\ parquetFile[id] = "none" /\ createdAt[id] = 0
  BY <1>0
<1>2. CASE UNCHANGED CatalogRows
  BY <1>1, <1>2 DEF CatalogRows
<1>3. ASSUME NEW w \in Writers, CreateSnapshot(w)
      PROVE  parquetFile'[id] = "none" /\ createdAt'[id] = 0
  <2>1. nextId' = nextId + 1 /\ UNCHANGED createdAt
        /\ parquetFile' = [parquetFile EXCEPT ![nextId] = "pending"]
    BY <1>3 DEF CreateSnapshot, CreateSnapshotRow, walTable
  <2>2. id # nextId
    BY <1>0, <1>1, <2>1
  <2> QED BY <1>0, <1>1, <2>1, <2>2
<1>4. ASSUME NEW w \in Writers, LogPush(w)
      PROVE  parquetFile'[id] = "none" /\ createdAt'[id] = 0
  <2>1. current[w] # id
    BY <1>1, <1>4, ActorsHoldRows DEF LogPush
  <2> QED BY <1>0, <1>1, <1>4, <2>1 DEF LogPush, InsertPendingPush, snapshotTable
<1>5. ASSUME NEW w \in Writers, Rollback(w)
      PROVE  parquetFile'[id] = "none" /\ createdAt'[id] = 0
  BY <1>0, <1>1, <1>5 DEF Rollback, DeleteSnapshotRow
<1>6. ASSUME NEW p \in Processes, FlipToNamed(p)
      PROVE  parquetFile'[id] = "none" /\ createdAt'[id] = 0
  <2>1. current[p] # id
    BY <1>1, <1>6 DEF FlipToNamed, UpdateSnapshotParquetFile, SnapshotExists
  <2> QED BY <1>0, <1>1, <1>6, <2>1 DEF FlipToNamed, UpdateSnapshotParquetFile, walTable
<1>7. ASSUME NEW p \in Processes, DrainWal(p)
      PROVE  parquetFile'[id] = "none" /\ createdAt'[id] = 0
  BY <1>1, <1>7 DEF DrainWal, DeletePendingPush, snapshotTable
<1>8. ASSUME NEW r \in Recoverers, GiveUp(r)
      PROVE  parquetFile'[id] = "none" /\ createdAt'[id] = 0
  <2>1. current[r] # id
    BY <1>1, <1>8 DEF GiveUp, UpdateSnapshotParquetFile, SnapshotExists
  <2> QED BY <1>0, <1>1, <1>8, <2>1 DEF GiveUp, UpdateSnapshotParquetFile, walTable
<1>9. ASSUME NEW r \in Recoverers, BumpAttempt(r)
      PROVE  parquetFile'[id] = "none" /\ createdAt'[id] = 0
  BY <1>1, <1>9 DEF BumpAttempt, BumpPendingPushAttempt, snapshotTable
<1> QED BY <1>2, <1>3, <1>4, <1>5, <1>6, <1>7, <1>8, <1>9, TableEffects DEF CoreInv

(* A step leaves every logged snapshot with its row, pending ones with     *)
(* their entry in the log, and every entry with a snapshot.                *)
LEMMA LoggedRowsKept ==
    ASSUME CoreInv, [Next]_vars
    PROVE  LoggedRows'
<1> USE ProcessSets DEF LoggedRows, Pushed, SnapshotExists
<1>0. /\ clock \in Nat /\ clock > 0
      /\ nextId \in Nat
      /\ parquetFile \in [SnapshotIds -> FileNames]
      /\ createdAt \in [SnapshotIds -> Nat]
      /\ attempts \in [SnapshotIds -> Nat]
      /\ wal \subseteq SnapshotIds
      /\ LoggedRows
      /\ nextId \in SnapshotIds => createdAt[nextId] = 0 /\ parquetFile[nextId] = "none"
  BY MaxSnapshotsAssumption DEF CoreInv, TypeOK, CatalogTypeOK, UnusedIds
<1>1. CASE UNCHANGED CatalogRows /\ clock' \in {clock, clock + 1}
  BY <1>0, <1>1 DEF CatalogRows
<1>2. ASSUME NEW w \in Writers, CreateSnapshot(w) PROVE LoggedRows'
  BY <1>0, <1>2 DEF CreateSnapshot, CreateSnapshotRow, walTable
<1>3. ASSUME NEW w \in Writers, LogPush(w) PROVE LoggedRows'
  <2>1. /\ current[w] \in SnapshotIds
        /\ createdAt[current[w]] = 0
        /\ parquetFile[current[w]] = "pending"
        /\ current[w] \notin wal
    BY <1>0, <1>3, ActorsHoldRows DEF LogPush
  <2>2. /\ wal' = wal \cup {current[w]}
        /\ createdAt' = [createdAt EXCEPT ![current[w]] = clock]
        /\ attempts' = [attempts EXCEPT ![current[w]] = 0]
        /\ clock' = clock + 1
        /\ UNCHANGED parquetFile
    BY <1>3, <2>1 DEF LogPush, InsertPendingPush, snapshotTable
  <2> QED BY <1>0, <2>1, <2>2
<1>4. ASSUME NEW w \in Writers, Rollback(w) PROVE LoggedRows'
  <2>1. /\ current[w] \in SnapshotIds
        /\ createdAt[current[w]] = 0
        /\ current[w] \notin wal
    BY <1>0, <1>4, ActorsHoldRows DEF Rollback
  <2> QED BY <1>0, <1>4, <2>1 DEF Rollback, DeleteSnapshotRow
<1>5. ASSUME NEW p \in Processes, FlipToNamed(p) PROVE LoggedRows'
  BY <1>0, <1>5 DEF FlipToNamed, UpdateSnapshotParquetFile, walTable
<1>6. ASSUME NEW p \in Processes, DrainWal(p) PROVE LoggedRows'
  <2>1. current[p] \in SnapshotIds /\ parquetFile[current[p]] # "pending"
    BY <1>6, ActorsHoldRows DEF DrainWal, Settled
  <2>2. /\ wal' = wal \ {current[p]}
        /\ UNCHANGED <<parquetFile, createdAt, attempts, clock>>
    BY <1>6 DEF DrainWal, DeletePendingPush, snapshotTable
  <2> QED BY <1>0, <2>1, <2>2
<1>7. ASSUME NEW r \in Recoverers, GiveUp(r) PROVE LoggedRows'
  BY <1>0, <1>7 DEF GiveUp, UpdateSnapshotParquetFile, walTable
<1>8. ASSUME NEW r \in Recoverers, BumpAttempt(r) PROVE LoggedRows'
  <2>1. /\ current[r] \in SnapshotIds /\ createdAt[current[r]] # 0
        /\ \A id \in SnapshotIds : id # current[r] => attempts'[id] = attempts[id]
        /\ UNCHANGED <<parquetFile, createdAt, wal, clock>>
    BY <1>0, <1>8, ActorsHoldRows DEF BumpAttempt, BumpPendingPushAttempt, snapshotTable
  <2> QED BY <1>0, <2>1
<1> QED BY <1>1, <1>2, <1>3, <1>4, <1>5, <1>6, <1>7, <1>8, TableEffects DEF CoreInv

-----------------------------------------------------------------------------
(* The part of the invariant about the calls *)

(* A recoverer goes on with logged snapshots, and settled ones only drain. *)
LEMMA RecovererRowsKept ==
    ASSUME CoreInv, [Next]_vars
    PROVE  RecovererRows'
<1> SUFFICES ASSUME NEW r \in Recoverers
             PROVE  /\ \A id \in batch'[r] : Pushed(id)'
                    /\ \A id \in SnapshotIds : listed'[r][id] <= attempts'[id]
                    /\ pc'[r] \notin {"idle", "scan"} =>
                          current'[r] \in SnapshotIds /\ Pushed(current[r])'
                    /\ pc'[r] = "giveup" => listed'[r][current'[r]] >= MaxAttempts
                    /\ pc'[r] = "drain" => Settled(current[r])'
  BY DEF RecovererRows, Pushed, Settled
<1> USE ProcessSets DEF callVars, Goto
<1>0. /\ pc \in [Processes -> WriterSteps \cup RecovererSteps]
      /\ current \in [Processes -> SnapshotIds \cup {NULL}]
      /\ batch \in [Recoverers -> SUBSET SnapshotIds]
      /\ listed \in [Recoverers -> [SnapshotIds -> Nat]]
      /\ attempts \in [SnapshotIds -> Nat]
      /\ attempts' \in [SnapshotIds -> Nat]
      /\ wal \subseteq SnapshotIds
      /\ r \in Processes
  BY TypesKept DEF CoreInv, TypeOK, CatalogTypeOK
<1>1. /\ \A id \in SnapshotIds : /\ Pushed(id) => Pushed(id)'
                                 /\ Settled(id) => Settled(id)'
                                 /\ attempts'[id] >= attempts[id]
      /\ \A id \in wal : Pushed(id)
  BY StepKeepsRows DEF RowsAreKept, CoreInv, LoggedRows
<1>2. /\ \A id \in batch[r] : id \in SnapshotIds /\ Pushed(id)
      /\ \A id \in SnapshotIds : listed[r][id] <= attempts[id]
      /\ pc[r] \notin {"idle", "scan"} =>
            current[r] \in SnapshotIds /\ Pushed(current[r])
      /\ pc[r] = "giveup" => listed[r][current[r]] >= MaxAttempts
      /\ pc[r] = "drain" => Settled(current[r])
  BY <1>0 DEF CoreInv, RecovererRows
<1>3. /\ \A id \in SnapshotIds : listed[r][id] <= attempts'[id]
      /\ \A id \in batch[r] : Pushed(id)'
      /\ pc[r] \notin {"idle", "scan"} => createdAt'[current[r]] # 0
  <2>1. ASSUME NEW id \in SnapshotIds PROVE listed[r][id] <= attempts'[id]
    <3>1. listed[r][id] \in Nat /\ attempts[id] \in Nat /\ attempts'[id] \in Nat
      BY <1>0
    <3> QED BY <1>1, <1>2, <3>1
  <2>2. \A id \in SnapshotIds : Pushed(id) => (createdAt'[id] # 0)
    BY <1>1 DEF Pushed
  <2> QED BY <1>2, <2>1, <2>2 DEF Pushed
<1> USE DEF Pushed, Settled
<1>4. CASE SameCall(r)
  BY <1>0, <1>1, <1>2, <1>3, <1>4 DEF SameCall
<1>5. CASE CallEnded(r)
  <2>1. pc'[r] = "idle" /\ batch'[r] = {}
    BY <1>5 DEF CallEnded
  <2>2. ASSUME NEW id \in SnapshotIds PROVE listed'[r][id] <= attempts'[id]
    <3>1. listed'[r][id] = 0 /\ attempts'[id] \in Nat
      BY <1>0, <1>5 DEF CallEnded
    <3> QED BY <3>1
  <2> QED BY <2>1, <2>2
<1>6. CASE PushMove(r)
  <2>1. CASE PutStored(r) \/ VerifyPasses(r)
    BY <1>0, <1>2, <1>3, <2>1 DEF PutStored, VerifyPasses
  <2>2. CASE FlipToNamed(r)
    <3>1. parquetFile'[current[r]] = "named"
      BY <1>2, <2>2 DEF FlipToNamed, UpdateSnapshotParquetFile, CoreInv, TypeOK, CatalogTypeOK
    <3> QED BY <1>0, <1>2, <1>3, <2>2, <3>1 DEF FlipToNamed
  <2>3. CASE DrainWal(r)
    BY <1>0, <1>2, <1>3, <2>3 DEF DrainWal
  <2> QED BY <1>6, <2>1, <2>2, <2>3 DEF PushMove
<1>7. CASE RecovererMove(r)
  <2>1. CASE ListWal(r)
    <3>1. batch'[r] \subseteq wal /\ listed'[r] = attempts /\ pc'[r] = "scan"
      BY <1>0, <2>1 DEF ListWal, ListPendingPushes
    <3> QED BY <1>0, <1>1, <3>1
  <2>2. CASE NextRow(r)
    <3>1. current'[r] \in batch[r] /\ batch'[r] \subseteq batch[r]
      BY <1>0, <2>2 DEF NextRow
    <3>2. listed' = listed /\ pc'[r] = "look"
      BY <1>0, <2>2 DEF NextRow
    <3> QED BY <1>0, <1>2, <1>3, <3>1, <3>2
  <2>3. CASE LookAtSnapshot(r)
    <3>1. /\ current' = current /\ batch' = batch /\ listed' = listed
          /\ parquetFile' = parquetFile
          /\ pc'[r] = IF parquetFile[current[r]] # "pending" THEN "drain"
                      ELSE IF listed[r][current[r]] >= MaxAttempts THEN "giveup"
                      ELSE "put"
          /\ pc[r] = "look"
      BY <1>0, <2>3 DEF LookAtSnapshot, catalogVars
    <3>2. parquetFile[current[r]] # "pending" => Settled(current[r])
      BY <1>2, <3>1 DEF CoreInv, LoggedRows, SnapshotExists, TypeOK, CatalogTypeOK, FileNames
    <3> QED BY <1>2, <1>3, <3>1, <3>2
  <2>4. CASE GiveUp(r)
    <3>1. parquetFile'[current[r]] = "failed"
      BY <1>2, <2>4 DEF GiveUp, UpdateSnapshotParquetFile, CoreInv, TypeOK, CatalogTypeOK
    <3> QED BY <1>0, <1>2, <1>3, <2>4, <3>1 DEF GiveUp
  <2>5. CASE BumpAttempt(r)
    BY <1>0, <1>2, <1>3, <2>5 DEF BumpAttempt
  <2>6. CASE PushFailed(r)
    BY <1>0, <1>2, <1>3, <2>6 DEF PushFailed
  <2> QED BY <1>7, <2>1, <2>2, <2>3, <2>4, <2>5, <2>6 DEF RecovererMove
<1>8. ~WriterMove(r) \/ r \notin Writers
  OBVIOUS
<1> QED BY <1>0, <1>4, <1>5, <1>6, <1>7, <1>8, CallEffects DEF CoreInv

(* What a writer read as its parent stays settled until it uses it.        *)
LEMMA ParentsReadKept ==
    ASSUME CoreInv, [Next]_vars
    PROVE  ParentsRead'
<1> SUFFICES ASSUME NEW w \in Writers, pc'[w] = "create"
             PROVE  /\ target'[w] \in Projects
                    /\ readParent'[w] # NULL =>
                          /\ readParent'[w] < nextId'
                          /\ Settled(readParent[w])'
                          /\ projectOf'[readParent'[w]] = target'[w]
  BY DEF ParentsRead, Settled
<1> USE ProcessSets DEF Goto
<1>0. /\ pc \in [Processes -> WriterSteps \cup RecovererSteps]
      /\ readParent \in [Writers -> SnapshotIds \cup {NULL}]
      /\ target \in [Writers -> Projects \cup {NoProject}]
      /\ nextId \in Nat
      /\ w \in Processes
  BY MaxSnapshotsAssumption DEF CoreInv, TypeOK, CatalogTypeOK
<1>1. CASE SameCall(w)
  <2>1. /\ pc[w] = "create"
        /\ readParent'[w] = readParent[w] /\ target'[w] = target[w]
    BY <1>1 DEF SameCall
  <2>2. /\ target[w] \in Projects
        /\ readParent[w] # NULL =>
              /\ readParent[w] \in SnapshotIds
              /\ readParent[w] < nextId
              /\ Settled(readParent[w])
              /\ projectOf[readParent[w]] = target[w]
    BY <1>0, <2>1 DEF CoreInv, ParentsRead
  <2>3. /\ nextId' \in Nat /\ nextId' >= nextId
        /\ \A id \in SnapshotIds :
              /\ Settled(id) => Settled(id)'
              /\ id # nextId => projectOf'[id] = projectOf[id]
    BY StepKeepsRows DEF RowsAreKept
  <2>4. ASSUME readParent[w] # NULL
        PROVE  /\ readParent[w] < nextId'
               /\ projectOf'[readParent[w]] = target[w]
    <3>1. readParent[w] \in Nat /\ readParent[w] < nextId /\ readParent[w] # nextId
      <4>1. readParent[w] \in SnapshotIds /\ readParent[w] < nextId
        BY <2>2, <2>4
      <4> HIDE DEF NULL
      <4>2. readParent[w] \in Nat
        BY <4>1
      <4> QED BY <1>0, <4>1, <4>2
    <3> QED BY <1>0, <2>2, <2>3, <2>4, <3>1
  <2> QED BY <2>1, <2>2, <2>3, <2>4 DEF Settled
<1>2. CASE ReadParent(w)
  <2>1. PICK p \in Projects, latest \in SnapshotIds \cup {NULL} :
           /\ IsLatestSnapshot(p, latest)
           /\ target' = [target EXCEPT ![w] = p]
           /\ readParent' = [readParent EXCEPT ![w] = latest]
    BY <1>2 DEF ReadParent
  <2>2. target'[w] = p /\ readParent'[w] = latest
    BY <1>0, <2>1
  <2>3. UNCHANGED <<nextId, parquetFile, projectOf>>
    BY <1>2 DEF ReadParent, catalogVars
  <2>4. ASSUME latest # NULL
        PROVE  latest < nextId /\ Settled(latest) /\ projectOf[latest] = p
    <3>1. latest \in CommittedOf(p)
      BY <2>1, <2>4 DEF IsLatestSnapshot
    <3>2. /\ latest \in SnapshotIds
          /\ parquetFile[latest] \notin {"none", "pending"}
          /\ projectOf[latest] = p
      BY <3>1 DEF CommittedOf, SnapshotExists
    <3>3. latest < nextId
      BY <1>0, <3>2 DEF CoreInv, UnusedIds
    <3>4. Settled(latest)
      BY <3>2 DEF CoreInv, TypeOK, CatalogTypeOK, FileNames, Settled
    <3> QED BY <3>2, <3>3, <3>4
  <2> QED BY <2>2, <2>3, <2>4 DEF Settled
<1>3. ~CallEnded(w)
  BY DEF CallEnded
<1>4. ~PushMove(w)
  BY <1>0 DEF PushMove, PutStored, VerifyPasses, FlipToNamed, DrainWal
<1>5. ~(CreateSnapshot(w) \/ LogPush(w) \/ BeginCopy(w) \/ EndCopy(w) \/ CopyFails(w))
  BY <1>0 DEF CreateSnapshot, LogPush, BeginCopy, EndCopy, CopyFails
<1> QED BY <1>0, <1>1, <1>2, <1>3, <1>4, <1>5, CallEffects DEF CoreInv, WriterMove

(* A writer that did not move keeps a pending snapshot of its own: nobody  *)
(* else logs, commits, deletes or gives up a snapshot that is not logged.  *)
LEMMA PrivateRowsKept ==
    ASSUME CoreInv, [Next]_vars, NEW w \in Writers, HasId(w),
           ~Pushed(current[w]),
           parquetFile[current[w]] = PARQUET_FILE_PENDING,
           pc'[w] = pc[w]
    PROVE  /\ createdAt'[current[w]] = 0
           /\ parquetFile'[current[w]] = PARQUET_FILE_PENDING
<1> USE ProcessSets DEF Pushed
<1>0. /\ pc \in [Processes -> WriterSteps \cup RecovererSteps]
      /\ parquetFile \in [SnapshotIds -> FileNames]
      /\ createdAt \in [SnapshotIds -> Nat]
      /\ current[w] \in SnapshotIds
      /\ createdAt[current[w]] = 0
      /\ nextId \in SnapshotIds => parquetFile[nextId] = "none"
      /\ \A v \in Writers : HasId(v) /\ v # w => current[v] # current[w]
      /\ \A r \in Recoverers :
            pc[r] \notin {"idle", "scan"} => current[r] # current[w]
  BY MaxSnapshotsAssumption
     DEF CoreInv, TypeOK, CatalogTypeOK, WriterIds, RecovererRows, UnusedIds
<1>1. CASE UNCHANGED CatalogRows
  BY <1>0, <1>1 DEF CatalogRows
<1>2. ASSUME NEW v \in Writers, CreateSnapshot(v)
      PROVE  createdAt'[current[w]] = 0 /\ parquetFile'[current[w]] = "pending"
  BY <1>0, <1>2 DEF CreateSnapshot, CreateSnapshotRow, walTable
<1>3. ASSUME NEW v \in Writers, LogPush(v)
      PROVE  createdAt'[current[w]] = 0 /\ parquetFile'[current[w]] = "pending"
  <2>1. v # w /\ HasId(v)
    BY <1>0, <1>3 DEF LogPush, Goto, HasId
  <2> QED BY <1>0, <1>3, <2>1 DEF LogPush, InsertPendingPush, snapshotTable
<1>4. ASSUME NEW v \in Writers, Rollback(v)
      PROVE  createdAt'[current[w]] = 0 /\ parquetFile'[current[w]] = "pending"
  <2>1. v # w /\ HasId(v)
    BY <1>0, <1>4 DEF Rollback, EndCall, HasId
  <2> QED BY <1>0, <1>4, <2>1 DEF Rollback, DeleteSnapshotRow
<1>5. ASSUME NEW p \in Processes, FlipToNamed(p)
      PROVE  createdAt'[current[w]] = 0 /\ parquetFile'[current[w]] = "pending"
  <2>1. pc[p] = "flip" /\ p # w
    BY <1>0, <1>5 DEF FlipToNamed, Goto
  <2>2. current[p] # current[w]
    BY <1>0, <2>1 DEF HasId, Processes
  <2> QED BY <1>0, <1>5, <2>2 DEF FlipToNamed, UpdateSnapshotParquetFile, walTable
<1>6. ASSUME NEW p \in Processes, DrainWal(p)
      PROVE  createdAt'[current[w]] = 0 /\ parquetFile'[current[w]] = "pending"
  BY <1>0, <1>6 DEF DrainWal, DeletePendingPush, snapshotTable
<1>7. ASSUME NEW r \in Recoverers, GiveUp(r)
      PROVE  createdAt'[current[w]] = 0 /\ parquetFile'[current[w]] = "pending"
  <2>1. current[r] # current[w]
    BY <1>0, <1>7 DEF GiveUp
  <2> QED BY <1>0, <1>7, <2>1 DEF GiveUp, UpdateSnapshotParquetFile, walTable
<1>8. ASSUME NEW r \in Recoverers, BumpAttempt(r)
      PROVE  createdAt'[current[w]] = 0 /\ parquetFile'[current[w]] = "pending"
  BY <1>0, <1>8 DEF BumpAttempt, BumpPendingPushAttempt, snapshotTable
<1> QED BY <1>1, <1>2, <1>3, <1>4, <1>5, <1>6, <1>7, <1>8, TableEffects DEF CoreInv

(* What the moves of a writer do to its step and its id.                   *)
LEMMA WriterMoves ==
    ASSUME CoreInv, [Next]_vars, NEW w \in Writers
    PROVE  \/ SameCall(w)
           \/ ~HasId(w)'
           \/ CreateSnapshot(w) \/ LogPush(w) \/ FlipToNamed(w)
           \/ /\ pc[w] \in {"copy", "copying", "put", "verify", "drain"}
              /\ pc'[w] \in {"copying", "rollback", "put", "verify", "flip", "evict"}
              /\ pc'[w] = "rollback" => w \in LocalWriters
              /\ pc'[w] \in {"put", "verify"} => w \in SyncWriters
              /\ pc'[w] = "evict" => pc[w] = "drain"
              /\ current'[w] = current[w]
<1> USE ProcessSets DEF Goto, HasId
<1>0. /\ pc \in [Processes -> WriterSteps \cup RecovererSteps]
      /\ w \in Processes /\ w \notin Recoverers
      /\ w \in SyncWriters \/ w \in LocalWriters
  BY DEF CoreInv, TypeOK, Writers
<1>1. CASE PushMove(w)
  <2>1. w \in LocalWriters => pc[w] \notin {"put", "verify", "drain"}
    BY DEF CoreInv, WriterIds, LocalRow
  <2> QED BY <1>0, <1>1, <2>1 DEF PushMove, PutStored, VerifyPasses, DrainWal
<1>2. CASE WriterMove(w)
  BY <1>0, <1>2 DEF WriterMove, ReadParent, BeginCopy, EndCopy, CopyFails
<1>3. CASE CallEnded(w)
  BY <1>3 DEF CallEnded
<1> QED BY <1>0, <1>1, <1>2, <1>3, CallEffects DEF CoreInv

(* The ids in the hands of writers are theirs alone.                       *)
LEMMA WriterIdsDistinct ==
    ASSUME CoreInv, [Next]_vars
    PROVE  /\ \A w \in Writers : HasId(w)' => current'[w] \in SnapshotIds
           /\ \A w, v \in Writers :
                 HasId(w)' /\ HasId(v)' /\ w # v => current'[w] # current'[v]
<1> USE ProcessSets
<1>0. /\ pc \in [Processes -> WriterSteps \cup RecovererSteps]
      /\ current \in [Processes -> SnapshotIds \cup {NULL}]
      /\ \A w \in Writers : HasId(w) => current[w] \in SnapshotIds
      /\ \A w, v \in Writers :
            HasId(w) /\ HasId(v) /\ w # v => current[w] # current[v]
  BY DEF CoreInv, TypeOK, WriterIds
<1>1. ASSUME NEW w \in Writers, HasId(w) PROVE current[w] # nextId
  <2>1. nextId \in SnapshotIds =>
           ~Pushed(nextId) /\ parquetFile[nextId] \notin {"pending", "named", "failed"}
    BY MaxSnapshotsAssumption DEF CoreInv, TypeOK, CatalogTypeOK, UnusedIds, Pushed
  <2> QED BY <1>0, <1>1, <2>1
             DEF CoreInv, WriterIds, LocalRow, SyncRow, Writers, Settled, HasId
<1>2. ASSUME NEW w \in Writers, HasId(w)'
      PROVE  \/ HasId(w) /\ current'[w] = current[w]
             \/ CreateSnapshot(w) /\ current'[w] = nextId /\ nextId \in SnapshotIds
  <2>1. CASE SameCall(w)
    BY <1>2, <2>1 DEF SameCall, HasId
  <2>2. CASE CreateSnapshot(w)
    BY <1>0, <2>2 DEF CreateSnapshot, CreateSnapshotRow
  <2>3. CASE LogPush(w) \/ FlipToNamed(w)
    BY <2>3 DEF LogPush, FlipToNamed, HasId
  <2> QED BY <1>2, <2>1, <2>2, <2>3, WriterMoves DEF HasId
<1>3. ASSUME NEW w \in Writers, NEW v \in Writers, w # v,
             CreateSnapshot(w), HasId(v)'
      PROVE  HasId(v) /\ current'[v] = current[v]
  <2>1. pc' = [pc EXCEPT ![w] = IF w \in SyncWriters THEN "log" ELSE "copy"]
        /\ current' = [current EXCEPT ![w] = nextId]
    BY <1>3 DEF CreateSnapshot, Goto
  <2> QED BY <1>0, <1>3, <2>1 DEF HasId
<1>4. ASSUME NEW w \in Writers, NEW v \in Writers, w # v, HasId(w)', HasId(v)'
      PROVE  current'[w] # current'[v]
  <2>1. CASE CreateSnapshot(w)
    BY <1>1, <1>2, <1>3, <1>4, <2>1, <1>0 DEF CreateSnapshot
  <2>2. CASE CreateSnapshot(v)
    BY <1>1, <1>2, <1>3, <1>4, <2>2, <1>0 DEF CreateSnapshot
  <2>3. CASE ~CreateSnapshot(w) /\ ~CreateSnapshot(v)
    BY <1>0, <1>2, <1>4, <2>3
  <2> QED BY <2>1, <2>2, <2>3
<1>5. ASSUME NEW w \in Writers, HasId(w)' PROVE current'[w] \in SnapshotIds
  BY <1>0, <1>2, <1>5
<1> QED BY <1>4, <1>5

(* A local-only writer's snapshot stays off the log, and pending until the *)
(* writer itself commits it or rolls it back.                              *)
LEMMA LocalRowsKept ==
    ASSUME CoreInv, [Next]_vars, NEW w \in LocalWriters, HasId(w)'
    PROVE  LocalRow(w)'
<1> USE ProcessSets DEF LocalRow, HasId, Pushed, Settled
<1>0. /\ pc \in [Processes -> WriterSteps \cup RecovererSteps]
      /\ current \in [Processes -> SnapshotIds \cup {NULL}]
      /\ parquetFile \in [SnapshotIds -> FileNames]
      /\ createdAt \in [SnapshotIds -> Nat]
      /\ w \in Writers /\ w \in Processes /\ w \notin SyncWriters
      /\ LocalRow(w)
      /\ HasId(w) => current[w] \in SnapshotIds
      /\ nextId \in SnapshotIds => createdAt[nextId] = 0
  BY MaxSnapshotsAssumption DEF CoreInv, TypeOK, CatalogTypeOK, WriterIds, UnusedIds
<1>1. CASE SameCall(w)
  <2>1. HasId(w) /\ pc'[w] = pc[w] /\ current'[w] = current[w]
    BY <1>1 DEF SameCall
  <2>2. CASE pc[w] = "evict"
    <3>1. createdAt'[current[w]] = 0
      <4>1. ASSUME NEW v \in Writers, LogPush(v) PROVE current[v] # current[w]
        <5>1. v # w /\ HasId(v)
          BY <2>2, <4>1 DEF LogPush
        <5> QED BY <1>0, <2>1, <5>1 DEF CoreInv, WriterIds
      <4>2. CASE \E v \in Writers : LogPush(v)
        BY <1>0, <2>1, <4>1, <4>2 DEF LogPush, InsertPendingPush
      <4>3. CASE ~\E v \in Writers : LogPush(v)
        <5>1. UNCHANGED createdAt
          BY <4>3, TableEffects
             DEF CoreInv, CatalogRows, CreateSnapshot, walTable, Rollback, DeleteSnapshotRow,
                 FlipToNamed, DrainWal, DeletePendingPush, GiveUp, BumpAttempt,
                 BumpPendingPushAttempt
        <5> QED BY <1>0, <2>1, <5>1
      <4> QED BY <4>2, <4>3
    <3>2. Settled(current[w])'
      BY <1>0, <2>1, <2>2, StepKeepsRows DEF RowsAreKept
    <3> QED BY <2>1, <2>2, <3>1, <3>2
  <2>3. CASE pc[w] # "evict"
    BY <1>0, <2>1, <2>3, PrivateRowsKept
  <2> QED BY <2>2, <2>3
<1>2. CASE CreateSnapshot(w)
  BY <1>0, <1>2 DEF CreateSnapshot, CreateSnapshotRow, walTable, Goto
<1>3. CASE LogPush(w)
  BY <1>0, <1>3 DEF LogPush
<1>4. CASE FlipToNamed(w)
  <2>1. /\ pc'[w] = "evict" /\ current'[w] = current[w]
        /\ parquetFile' = [parquetFile EXCEPT ![current[w]] = "named"]
        /\ createdAt' = createdAt
        /\ pc[w] = "flip"
    BY <1>0, <1>4 DEF FlipToNamed, UpdateSnapshotParquetFile, walTable, Goto
  <2> QED BY <1>0, <2>1
<1>5. CASE BeginCopy(w) \/ EndCopy(w) \/ CopyFails(w)
  <2>1. /\ UNCHANGED <<parquetFile, createdAt, current>>
        /\ pc[w] \in {"copy", "copying"}
        /\ pc'[w] \in {"copying", "flip", "rollback"}
    BY <1>0, <1>5 DEF BeginCopy, EndCopy, CopyFails, catalogVars, snapshotTable, walTable, Goto
  <2> QED BY <1>0, <2>1
<1>6. ~(PutStored(w) \/ VerifyPasses(w) \/ DrainWal(w) \/ ReadParent(w))
  BY <1>0 DEF PutStored, VerifyPasses, DrainWal, ReadParent, Goto
<1> QED BY <1>0, <1>1, <1>2, <1>3, <1>4, <1>5, <1>6, CallEffects
        DEF CoreInv, WriterMove, PushMove, CallEnded

(* A syncing writer's snapshot is logged from LogPush on, and settled when *)
(* the writer takes it off the log.                                        *)
LEMMA SyncRowsKept ==
    ASSUME CoreInv, [Next]_vars, NEW w \in SyncWriters
    PROVE  SyncRow(w)'
<1> USE ProcessSets DEF SyncRow, HasId, Pushed, Settled
<1>0. /\ pc \in [Processes -> WriterSteps \cup RecovererSteps]
      /\ current \in [Processes -> SnapshotIds \cup {NULL}]
      /\ parquetFile \in [SnapshotIds -> FileNames]
      /\ createdAt \in [SnapshotIds -> Nat]
      /\ w \in Writers /\ w \in Processes /\ w \notin LocalWriters
      /\ SyncRow(w)
      /\ HasId(w) => current[w] \in SnapshotIds
      /\ nextId \in SnapshotIds => createdAt[nextId] = 0
      /\ clock > 0
      /\ w \notin Recoverers
  BY MaxSnapshotsAssumption
     DEF CoreInv, TypeOK, CatalogTypeOK, WriterIds, UnusedIds, LoggedRows
<1>1. \A id \in SnapshotIds : /\ createdAt[id] # 0 => createdAt'[id] # 0
                              /\ Settled(id) => Settled(id)'
  BY StepKeepsRows DEF RowsAreKept
<1>2. CASE SameCall(w)
  <2>1. pc'[w] = pc[w] /\ current'[w] = current[w]
    BY <1>2 DEF SameCall
  <2>2. CASE pc[w] = "log"
    BY <1>0, <2>1, <2>2, PrivateRowsKept
  <2>3. CASE pc[w] # "log"
    BY <1>0, <1>1, <2>1, <2>3
  <2> QED BY <2>2, <2>3
<1>3. CASE ~HasId(w)'
  BY <1>3
<1>4. CASE CreateSnapshot(w)
  BY <1>0, <1>4 DEF CreateSnapshot, CreateSnapshotRow, walTable, Goto
<1>5. CASE LogPush(w)
  <2>1. pc'[w] = "copy" /\ current'[w] = current[w] /\ pc[w] = "log"
    BY <1>0, <1>5 DEF LogPush, Goto
  <2>2. createdAt' = [createdAt EXCEPT ![current[w]] =
                        IF current[w] \in wal THEN @ ELSE clock]
    BY <1>5 DEF LogPush, InsertPendingPush
  <2>3. current[w] \notin wal
    BY <1>0, <2>1 DEF CoreInv, LoggedRows
  <2> QED BY <1>0, <2>1, <2>2, <2>3
<1>6. CASE FlipToNamed(w)
  <2>1. /\ pc'[w] = "drain" /\ current'[w] = current[w] /\ pc[w] = "flip"
        /\ parquetFile' = [parquetFile EXCEPT ![current[w]] = "named"]
    BY <1>0, <1>6 DEF FlipToNamed, UpdateSnapshotParquetFile, Goto
  <2> QED BY <1>0, <1>1, <2>1
<1>7. ASSUME pc[w] \in {"copy", "copying", "put", "verify", "drain"},
             pc'[w] \in {"copying", "rollback", "put", "verify", "flip", "evict"},
             pc'[w] # "rollback",
             current'[w] = current[w]
      PROVE  SyncRow(w)'
  BY <1>0, <1>1, <1>7
<1> QED BY <1>0, <1>2, <1>3, <1>4, <1>5, <1>6, <1>7, WriterMoves

-----------------------------------------------------------------------------
(* The properties themselves *)

(* No step leaves a parent pointer dangling.                               *)
LEMMA ParentIsSettledKept ==
    ASSUME CoreInv, [Next]_vars
    PROVE  ParentIsSettled'
<1> SUFFICES ASSUME NEW id \in SnapshotIds,
                    parquetFile'[id] # "none", parent'[id] # NULL
             PROVE  /\ parent'[id] < id
                    /\ parent'[id] \in SnapshotIds
                    /\ Settled(parent[id])'
                    /\ projectOf'[parent'[id]] = projectOf'[id]
  BY DEF ParentIsSettled, Settled, SnapshotExists
<1> USE ProcessSets DEF Settled
<1>0. /\ nextId \in Nat
      /\ parquetFile \in [SnapshotIds -> FileNames]
      /\ projectOf \in [SnapshotIds -> Projects \cup {NoProject}]
      /\ parent \in [SnapshotIds -> SnapshotIds \cup {NULL}]
      /\ parent' \in [SnapshotIds -> SnapshotIds \cup {NULL}]
      /\ parquetFile[nextId] = "none" \/ nextId \notin SnapshotIds
      /\ \A other \in SnapshotIds : other >= nextId => parquetFile[other] = "none"
  BY MaxSnapshotsAssumption, TypesKept DEF CoreInv, TypeOK, CatalogTypeOK, UnusedIds
<1>1. \A other \in SnapshotIds :
         /\ Settled(other) => Settled(other)'
         /\ other # nextId => projectOf'[other] = projectOf[other]
                              /\ parent'[other] = parent[other]
  BY StepKeepsRows DEF RowsAreKept
<1>2. CASE parquetFile[id] # "none"
  <2>1. id # nextId
    BY <1>0, <1>2
  <2>2. parent'[id] = parent[id] /\ projectOf'[id] = projectOf[id]
    BY <1>1, <2>1
  <2>3. parent[id] \in SnapshotIds
    BY <1>0, <2>2
  <2>4. /\ parent[id] < id
        /\ Settled(parent[id])
        /\ projectOf[parent[id]] = projectOf[id]
    BY <1>2, <2>2 DEF CoreInv, ParentIsSettled, SnapshotExists
  <2>5. parent[id] # nextId
    BY <1>0, <2>3, <2>4
  <2> QED BY <1>1, <2>2, <2>3, <2>4, <2>5
<1>3. CASE parquetFile[id] = "none"
  <2>1. PICK w \in Writers : CreateSnapshot(w) /\ id = nextId
    <3>1. CASE UNCHANGED CatalogRows
      BY <1>3, <3>1 DEF CatalogRows
    <3>2. ASSUME NEW w \in Writers, CreateSnapshot(w) PROVE id = nextId
      BY <1>0, <1>3, <3>2 DEF CreateSnapshot, CreateSnapshotRow
    <3>3. ~\E w \in Writers : LogPush(w) \/ Rollback(w)
      BY <1>0, <1>3 DEF LogPush, snapshotTable, Rollback, DeleteSnapshotRow
    <3>4. ~\E p \in Processes : FlipToNamed(p) \/ DrainWal(p)
      BY <1>0, <1>3 DEF FlipToNamed, UpdateSnapshotParquetFile, SnapshotExists, DrainWal,
                        snapshotTable
    <3>5. ~\E r \in Recoverers : GiveUp(r) \/ BumpAttempt(r)
      BY <1>0, <1>3 DEF GiveUp, UpdateSnapshotParquetFile, SnapshotExists, BumpAttempt,
                        snapshotTable
    <3> QED BY <3>1, <3>2, <3>3, <3>4, <3>5, TableEffects DEF CoreInv
  <2>2. parent'[id] = readParent[w] /\ projectOf'[id] = target[w] /\ pc[w] = "create"
    BY <1>0, <2>1 DEF CreateSnapshot, CreateSnapshotRow
  <2>3. /\ readParent[w] < nextId
        /\ Settled(readParent[w])
        /\ projectOf[readParent[w]] = target[w]
    BY <2>2 DEF CoreInv, ParentsRead
  <2>4. readParent[w] \in SnapshotIds
    BY <1>0, <2>2
  <2>5. readParent[w] # nextId
    BY <1>0, <2>3, <2>4
  <2> QED BY <1>1, <2>1, <2>2, <2>3, <2>4, <2>5
<1> QED BY <1>2, <1>3

(* Only GiveUp marks a snapshot failed, with its attempts used up.         *)
LEMMA GaveUpKept ==
    ASSUME CoreInv, [Next]_vars
    PROVE  GaveUpOnlyAfterAttempts'
<1> SUFFICES ASSUME NEW id \in SnapshotIds, parquetFile'[id] = "failed"
             PROVE  attempts'[id] >= MaxAttempts
  BY DEF GaveUpOnlyAfterAttempts
<1> USE ProcessSets, LimitsAssumption
<1>0. /\ parquetFile \in [SnapshotIds -> FileNames]
      /\ attempts[id] \in Nat /\ attempts'[id] \in Nat
      /\ attempts'[id] >= attempts[id]
  BY TypesKept, StepKeepsRows DEF CoreInv, TypeOK, CatalogTypeOK, RowsAreKept
<1>1. attempts[id] >= MaxAttempts
  <2>1. CASE parquetFile[id] = "failed"
    BY <2>1 DEF CoreInv, GaveUpOnlyAfterAttempts
  <2>2. CASE parquetFile[id] # "failed"
    <3>1. CASE UNCHANGED CatalogRows
      BY <2>2, <3>1 DEF CatalogRows
    <3>2. ~\E w \in Writers : CreateSnapshot(w) \/ LogPush(w) \/ Rollback(w)
      BY <1>0, <2>2 DEF CreateSnapshot, CreateSnapshotRow, LogPush, snapshotTable,
                        Rollback, DeleteSnapshotRow
    <3>3. ~\E p \in Processes : FlipToNamed(p) \/ DrainWal(p)
      BY <1>0, <2>2 DEF FlipToNamed, UpdateSnapshotParquetFile, DrainWal, snapshotTable
    <3>4. ASSUME NEW r \in Recoverers, BumpAttempt(r) PROVE FALSE
      BY <2>2, <3>4 DEF BumpAttempt, snapshotTable
    <3>5. ASSUME NEW r \in Recoverers, GiveUp(r) PROVE attempts[id] >= MaxAttempts
      <4>1. pc[r] = "giveup" /\ current[r] = id
        BY <1>0, <2>2, <3>5 DEF GiveUp, UpdateSnapshotParquetFile
      <4>2. listed[r][id] >= MaxAttempts /\ listed[r][id] <= attempts[id]
        BY <4>1 DEF CoreInv, RecovererRows
      <4>3. listed[r][id] \in Nat
        BY DEF CoreInv, TypeOK
      <4> QED BY <1>0, <4>2, <4>3
    <3> QED BY <3>1, <3>2, <3>3, <3>4, <3>5, TableEffects DEF CoreInv
  <2> QED BY <2>1, <2>2
<1> QED BY <1>0, <1>1

(* The strengthening behind the three theorems below is inductive.         *)
LEMMA CoreInvInit == Init => CoreInv
<1> SUFFICES ASSUME Init PROVE CoreInv
  OBVIOUS
<1> USE ProcessSets DEF Init, CatalogInit
<1>1. TypeOK
  BY InitTypeOK
<1>2. UnusedIds /\ LoggedRows /\ ParentIsSettled /\ GaveUpOnlyAfterAttempts
  BY DEF UnusedIds, LoggedRows, Pushed, ParentIsSettled, SnapshotExists,
         GaveUpOnlyAfterAttempts
<1>3. WriterIds /\ ParentsRead
  BY DEF WriterIds, LocalRow, SyncRow, HasId, ParentsRead
<1>4. RecovererRows
  BY DEF RecovererRows
<1> QED BY <1>1, <1>2, <1>3, <1>4 DEF CoreInv

(* Every step keeps the strengthening, one lemma for each of its parts.    *)
LEMMA CoreInvStep == CoreInv /\ [Next]_vars => CoreInv'
<1> SUFFICES ASSUME CoreInv, [Next]_vars PROVE CoreInv'
  OBVIOUS
<1>1. TypeOK'
  BY TypesKept DEF CoreInv
<1>2. WriterIds'
  <2>1. \A w \in LocalWriters : LocalRow(w)'
    BY LocalRowsKept DEF LocalRow
  <2>2. \A w \in SyncWriters : SyncRow(w)'
    BY SyncRowsKept
  <2>3. /\ \A w \in Writers : HasId(w)' => current'[w] \in SnapshotIds
        /\ \A w, v \in Writers :
              HasId(w)' /\ HasId(v)' /\ w # v => current'[w] # current'[v]
    BY WriterIdsDistinct
  <2> QED BY <2>1, <2>2, <2>3 DEF WriterIds, HasId
<1> QED BY <1>1, <1>2, UnusedIdsKept, LoggedRowsKept, ParentsReadKept,
           RecovererRowsKept, ParentIsSettledKept, GaveUpKept
        DEF CoreInv

(* The strengthening holds in every reachable state.                       *)
THEOREM CoreInvariant == Spec => []CoreInv
BY CoreInvInit, CoreInvStep, PTL DEF Spec

(* A crash at any statement, a retry or an overlapping recovery never      *)
(* strands a push: it stays findable in the log until it is settled.       *)
THEOREM PushesAreFindable == Spec => []InFlightPushIsLogged
<1>1. CoreInv => InFlightPushIsLogged
  BY DEF CoreInv, LoggedRows, InFlightPushIsLogged, TypeOK, CatalogTypeOK
<1> QED BY <1>1, CoreInvariant, PTL

(* Parent pointers always lead to a settled, older row of the project.     *)
THEOREM ParentsAreSettled == Spec => []ParentIsSettled
<1>1. CoreInv => ParentIsSettled
  BY DEF CoreInv
<1> QED BY <1>1, CoreInvariant, PTL

(* A snapshot is failed only after max_attempts recorded failures, with    *)
(* any number of recoveries running at once on lists read earlier.         *)
THEOREM FailedAfterAttempts == Spec => []GaveUpOnlyAfterAttempts
<1>1. CoreInv => GaveUpOnlyAfterAttempts
  BY DEF CoreInv
<1> QED BY <1>1, CoreInvariant, PTL

-----------------------------------------------------------------------------
(* How far attempts can overshoot *)

(* Attempts are counted one by one, by recoverers with the row in hand.    *)
LEMMA AttemptsMove ==
    ASSUME CoreInv, [Next]_vars, NEW id \in SnapshotIds
    PROVE  \/ attempts'[id] = attempts[id]
           \/ \E r \in Recoverers : /\ BumpAttempt(r)
                                    /\ current[r] = id
                                    /\ attempts'[id] = attempts[id] + 1
<1> USE ProcessSets
<1>0. attempts \in [SnapshotIds -> Nat] /\ TypeOK
  BY DEF CoreInv, TypeOK, CatalogTypeOK
<1>1. CASE UNCHANGED CatalogRows
  BY <1>1 DEF CatalogRows
<1>2. ASSUME NEW w \in Writers, CreateSnapshot(w) \/ LogPush(w) \/ Rollback(w)
      PROVE  attempts'[id] = attempts[id]
  <2>1. CASE CreateSnapshot(w) \/ Rollback(w)
    BY <2>1 DEF CreateSnapshot, walTable, Rollback, DeleteSnapshotRow
  <2>2. CASE LogPush(w)
    <3>1. ~Pushed(current[w]) /\ current[w] \in SnapshotIds
      BY <2>2, ActorsHoldRows DEF LogPush, Pushed
    <3>2. attempts[current[w]] = 0
      BY <3>1 DEF CoreInv, LoggedRows
    <3> QED BY <1>0, <2>2, <3>1, <3>2 DEF LogPush, InsertPendingPush
  <2> QED BY <1>2, <2>1, <2>2
<1>3. ASSUME NEW p \in Processes, FlipToNamed(p) \/ DrainWal(p)
      PROVE  attempts'[id] = attempts[id]
  BY <1>3 DEF FlipToNamed, walTable, DrainWal, DeletePendingPush
<1>4. ASSUME NEW r \in Recoverers, GiveUp(r)
      PROVE  attempts'[id] = attempts[id]
  BY <1>4 DEF GiveUp, walTable
<1>5. ASSUME NEW r \in Recoverers, BumpAttempt(r)
      PROVE  \/ attempts'[id] = attempts[id]
             \/ current[r] = id /\ attempts'[id] = attempts[id] + 1
  BY <1>0, <1>5 DEF BumpAttempt, BumpPendingPushAttempt
<1> QED BY <1>0, <1>1, <1>2, <1>3, <1>4, <1>5, TableEffects

(* A recoverer holds a row it took off its list, with attempts left when   *)
(* it is about to push it or has just failed to.                           *)
LEMMA RowsInHandKept ==
    ASSUME CoreInv, RowsInHand, [Next]_vars
    PROVE  RowsInHand'
<1> SUFFICES ASSUME NEW r \in Recoverers
             PROVE  /\ pc'[r] \notin {"idle", "scan"} => current'[r] \notin batch'[r]
                    /\ pc'[r] \in {"put", "verify", "bump"} =>
                          listed'[r][current'[r]] < MaxAttempts
  BY DEF RowsInHand
<1> USE ProcessSets DEF callVars, Goto
<1>0. /\ TypeOK
      /\ pc \in [Processes -> WriterSteps \cup RecovererSteps]
      /\ current \in [Processes -> SnapshotIds \cup {NULL}]
      /\ batch \in [Recoverers -> SUBSET SnapshotIds]
      /\ listed \in [Recoverers -> [SnapshotIds -> Nat]]
      /\ r \in Processes
      /\ MaxAttempts \in Nat
  BY LimitsAssumption DEF CoreInv, TypeOK
<1>1. /\ pc[r] \notin {"idle", "scan"} =>
            current[r] \notin batch[r] /\ current[r] \in SnapshotIds
      /\ pc[r] \in {"put", "verify", "bump"} => listed[r][current[r]] < MaxAttempts
  BY DEF RowsInHand, CoreInv, RecovererRows
<1>2. CASE SameCall(r)
  BY <1>1, <1>2 DEF SameCall
<1>3. CASE CallEnded(r)
  BY <1>3 DEF CallEnded
<1>4. CASE PushMove(r)
  BY <1>0, <1>1, <1>4 DEF PushMove, PutStored, VerifyPasses, FlipToNamed, DrainWal
<1>5. CASE RecovererMove(r)
  <2>1. CASE ListWal(r)
    BY <1>0, <2>1 DEF ListWal
  <2>2. CASE NextRow(r)
    BY <1>0, <2>2 DEF NextRow
  <2>3. CASE LookAtSnapshot(r)
    <3>1. listed[r] \in [SnapshotIds -> Nat] /\ current[r] \in SnapshotIds
      BY <1>0, <1>1, <2>3 DEF LookAtSnapshot
    <3>2. listed[r][current[r]] \in Nat
      BY <3>1
    <3> QED BY <1>0, <1>1, <2>3, <3>2 DEF LookAtSnapshot
  <2>4. CASE GiveUp(r) \/ BumpAttempt(r)
    BY <1>0, <1>1, <2>4 DEF GiveUp, BumpAttempt
  <2>5. CASE PushFailed(r)
    BY <1>0, <1>1, <2>5 DEF PushFailed
  <2> QED BY <1>5, <2>1, <2>2, <2>3, <2>4, <2>5 DEF RecovererMove
<1> QED BY <1>0, <1>2, <1>3, <1>4, <1>5, CallEffects

(* Nobody becomes late for a push that has no attempts left.               *)
LEMMA NobodyNewIsLate ==
    ASSUME CoreInv, [Next]_vars,
           NEW id \in SnapshotIds, attempts[id] >= MaxAttempts,
           NEW r \in Recoverers, MayBump(r, id)'
    PROVE  MayBump(r, id)
<1> USE ProcessSets DEF callVars, Goto, MayBump
<1>0. /\ TypeOK
      /\ pc \in [Processes -> WriterSteps \cup RecovererSteps]
      /\ current \in [Processes -> SnapshotIds \cup {NULL}]
      /\ batch \in [Recoverers -> SUBSET SnapshotIds]
      /\ listed \in [Recoverers -> [SnapshotIds -> Nat]]
      /\ r \in Processes
      /\ MaxAttempts \in Nat
      /\ attempts[id] \in Nat
  BY LimitsAssumption DEF CoreInv, TypeOK, CatalogTypeOK
<1>1. CASE SameCall(r)
  BY <1>1 DEF SameCall
<1>2. CASE CallEnded(r)
  BY <1>2 DEF CallEnded
<1>3. CASE PushMove(r)
  BY <1>0, <1>3 DEF PushMove, PutStored, VerifyPasses, FlipToNamed, DrainWal
<1>4. CASE RecovererMove(r)
  <2>1. CASE ListWal(r)
    <3>1. listed'[r][id] = attempts[id]
      BY <1>0, <2>1 DEF ListWal
    <3> QED BY <1>0, <3>1
  <2>2. CASE NextRow(r)
    BY <1>0, <2>2 DEF NextRow
  <2>3. CASE LookAtSnapshot(r) \/ GiveUp(r) \/ BumpAttempt(r)
    BY <1>0, <2>3 DEF LookAtSnapshot, GiveUp, BumpAttempt
  <2>4. CASE PushFailed(r)
    BY <1>0, <2>4 DEF PushFailed
  <2> QED BY <1>4, <2>1, <2>2, <2>3, <2>4 DEF RecovererMove
<1> QED BY <1>0, <1>1, <1>2, <1>3, <1>4, CallEffects

(* A recorded failure uses up the lateness of the recovery that records it. *)
LEMMA FailureIsPaid ==
    ASSUME CoreInv, RowsInHand, NEW r \in Recoverers, BumpAttempt(r),
           NEW id \in SnapshotIds, current[r] = id
    PROVE  MayBump(r, id) /\ ~MayBump(r, id)'
<1>1. /\ pc[r] = "bump"
      /\ pc' = [pc EXCEPT ![r] = "scan"]
      /\ UNCHANGED <<current, batch, listed>>
  BY DEF BumpAttempt, Goto, callVars
<1>2. pc'[r] = "scan"
  BY <1>1, ProcessSets DEF CoreInv, TypeOK
<1>3. id \notin batch[r] /\ listed[r][id] < MaxAttempts
  BY <1>1 DEF RowsInHand
<1> QED BY <1>1, <1>2, <1>3 DEF MayBump

(* Attempts and late recoveries together stay below the bound.             *)
LEMMA OvershootIsPaidKept ==
    ASSUME IsFiniteSet(Recoverers), BoundedInv, [Next]_vars
    PROVE  OvershootIsPaid'
<1> SUFFICES ASSUME NEW id \in SnapshotIds,
                    attempts'[id] # 0, attempts'[id] >= MaxAttempts
             PROVE  attempts'[id] + Cardinality(LateRecoverers(id)')
                       < MaxAttempts + Cardinality(Recoverers)
  BY DEF OvershootIsPaid
<1> DEFINE All == Cardinality(Recoverers)
           late == LateRecoverers(id)
           late1 == LateRecoverers(id)'
<1>0. /\ CoreInv /\ RowsInHand
      /\ attempts[id] \in Nat /\ attempts'[id] \in Nat
      /\ MaxAttempts \in Nat
  BY LimitsAssumption, TypesKept DEF BoundedInv, CoreInv, TypeOK, CatalogTypeOK
<1>1. /\ All \in Nat
      /\ late \subseteq Recoverers /\ IsFiniteSet(late) /\ Cardinality(late) \in Nat
      /\ late1 \subseteq Recoverers /\ IsFiniteSet(late1) /\ Cardinality(late1) \in Nat
  BY FS_Subset, FS_CardinalityType DEF LateRecoverers
<1>2. attempts[id] >= MaxAttempts => late1 \subseteq late
  BY <1>0, NobodyNewIsLate DEF LateRecoverers
<1>3. CASE attempts'[id] = attempts[id]
  <2>1. attempts[id] + Cardinality(late) < MaxAttempts + All
    BY <1>3 DEF BoundedInv, OvershootIsPaid
  <2>2. Cardinality(late1) <= Cardinality(late)
    BY <1>1, <1>2, <1>3, FS_Subset
  <2> QED BY <1>0, <1>1, <1>3, <2>1, <2>2
<1>4. ASSUME NEW r \in Recoverers, BumpAttempt(r), current[r] = id,
             attempts'[id] = attempts[id] + 1
      PROVE  attempts'[id] + Cardinality(late1) < MaxAttempts + All
  <2>1. r \in late /\ r \notin late1
    BY <1>0, <1>4, FailureIsPaid DEF LateRecoverers
  <2>2. CASE attempts[id] >= MaxAttempts
    <3>1. attempts[id] # 0
      BY <1>0, <2>1, <2>2 DEF LateRecoverers, MayBump, CoreInv, TypeOK
    <3>2. attempts[id] + Cardinality(late) < MaxAttempts + All
      BY <2>2, <3>1 DEF BoundedInv, OvershootIsPaid
    <3>3. Cardinality(late1) <= Cardinality(late) - 1
      <4>1. late1 \subseteq late \ {r}
        BY <1>2, <2>1, <2>2
      <4>2. /\ IsFiniteSet(late \ {r})
            /\ Cardinality(late \ {r}) = Cardinality(late) - 1
        BY <1>1, <2>1, FS_RemoveElement
      <4> QED BY <4>1, <4>2, FS_Subset
    <3> QED BY <1>0, <1>1, <1>4, <3>2, <3>3
  <2>3. CASE attempts[id] < MaxAttempts
    <3>1. Cardinality(late1) <= All - 1
      <4>1. late1 \subseteq Recoverers \ {r}
        BY <1>1, <2>1
      <4>2. /\ IsFiniteSet(Recoverers \ {r})
            /\ Cardinality(Recoverers \ {r}) = All - 1
        BY FS_RemoveElement
      <4> QED BY <4>1, <4>2, FS_Subset
    <3> QED BY <1>0, <1>1, <1>4, <2>3, <3>1
  <2> QED BY <1>0, <2>2, <2>3
<1> QED BY <1>0, <1>3, <1>4, AttemptsMove

LEMMA BoundedInvStep ==
    ASSUME IsFiniteSet(Recoverers), BoundedInv, [Next]_vars
    PROVE  BoundedInv'
BY CoreInvStep, RowsInHandKept, OvershootIsPaidKept DEF BoundedInv

(* However many recoveries overlap, and whenever each read its list, a     *)
(* push fails at most one time too many for each other recovery.           *)
THEOREM AttemptsStayBounded ==
    IsFiniteSet(Recoverers) => (Spec => []AttemptsAreBounded)
<1> SUFFICES ASSUME IsFiniteSet(Recoverers) PROVE Spec => []AttemptsAreBounded
  OBVIOUS
<1>1. Init => BoundedInv
  BY CoreInvInit, ProcessSets
     DEF BoundedInv, RowsInHand, OvershootIsPaid, Init, CatalogInit
<1>2. BoundedInv /\ [Next]_vars => BoundedInv'
  BY BoundedInvStep
<1>3. BoundedInv => AttemptsAreBounded
  <2> SUFFICES ASSUME BoundedInv, NEW id \in SnapshotIds, attempts[id] # 0
               PROVE  attempts[id] < MaxAttempts + Cardinality(Recoverers)
    BY DEF AttemptsAreBounded
  <2>1. /\ attempts[id] \in Nat /\ MaxAttempts \in Nat
        /\ Cardinality(Recoverers) \in Nat
        /\ Cardinality(LateRecoverers(id)) \in Nat
    BY LimitsAssumption, FS_CardinalityType, FS_Subset
       DEF BoundedInv, CoreInv, TypeOK, CatalogTypeOK, LateRecoverers
  <2>2. CASE attempts[id] >= MaxAttempts
    BY <2>1, <2>2 DEF BoundedInv, OvershootIsPaid
  <2> QED BY <2>1, <2>2
<1> QED BY <1>1, <1>2, <1>3, PTL DEF Spec

(* A settled snapshot that was not logged never will be.                   *)
LEMMA LoggedBeforeSettled ==
    ASSUME CoreInv, [Next]_vars, NEW id \in SnapshotIds, Settled(id), Pushed(id)'
    PROVE  Pushed(id)
<1> USE DEF Pushed
<1>1. createdAt' = createdAt \/ \E w \in Writers : LogPush(w)
  BY TableEffects DEF CoreInv, CatalogRows, CreateSnapshot, Rollback, DeleteSnapshotRow,
     FlipToNamed, DrainWal, DeletePendingPush, GiveUp, BumpAttempt,
     BumpPendingPushAttempt, walTable
<1>2. ASSUME NEW w \in Writers, LogPush(w) PROVE createdAt'[id] = createdAt[id]
  <2>1. current[w] \in SnapshotIds /\ ~Settled(current[w])
    BY <1>2, ActorsHoldRows DEF LogPush, Settled
  <2> QED BY <1>2, <2>1 DEF LogPush, InsertPendingPush, CoreInv, TypeOK, CatalogTypeOK
<1> QED BY <1>1, <1>2

(* Only the statement at the commit point commits a snapshot.              *)
LEMMA OnlyFlipsCommit ==
    ASSUME CoreInv, [Next]_vars, NEW id \in SnapshotIds,
           parquetFile[id] # "named", parquetFile'[id] = "named"
    PROVE  \E p \in Processes : FlipToNamed(p) /\ current[p] = id
BY TableEffects
   DEF CatalogRows, CreateSnapshot, CreateSnapshotRow, LogPush, snapshotTable, Rollback,
       DeleteSnapshotRow, FlipToNamed, UpdateSnapshotParquetFile, DrainWal, GiveUp,
       BumpAttempt, CoreInv, TypeOK, CatalogTypeOK

-----------------------------------------------------------------------------
(* With recovery alone, atomic COPY and zone checksums                     *)

(* A call begins only by reading a parent or by listing the log.           *)
LEMMA CallsBegin ==
    ASSUME TypeOK, [Next]_vars, NEW q \in Processes, pc[q] = "idle", pc'[q] # "idle"
    PROVE  \/ q \in Writers /\ ReadParent(q)
           \/ q \in Recoverers /\ ListWal(q)
<1>1. ~SameCall(q) /\ ~CallEnded(q)
  BY DEF SameCall, CallEnded
<1>2. ~PushMove(q)
  BY DEF PushMove, PutStored, VerifyPasses, FlipToNamed, DrainWal
<1>3. WriterMove(q) => ReadParent(q)
  BY DEF WriterMove, CreateSnapshot, LogPush, BeginCopy, EndCopy, CopyFails
<1>4. RecovererMove(q) => ListWal(q)
  BY DEF RecovererMove, NextRow, LookAtSnapshot, GiveUp, BumpAttempt, PushFailed
<1>5. \/ SameCall(q) \/ CallEnded(q) \/ PushMove(q)
      \/ q \in Writers /\ WriterMove(q)
      \/ q \in Recoverers /\ RecovererMove(q)
  BY CallEffects
<1> QED BY <1>1, <1>2, <1>3, <1>4, <1>5

(* No call begins while a recoverer runs, nor a recoverer beside a call.   *)
LEMMA RecoveryAloneKept ==
    ASSUME Exclusive, TypeOK, RecoveryAlone, [Next]_vars
    PROVE  RecoveryAlone'
<1> SUFFICES ASSUME NEW r \in Recoverers, NEW q \in Processes \ {r},
                    pc'[r] # "idle", pc'[q] # "idle"
             PROVE  FALSE
  BY DEF RecoveryAlone, AllOthersIdle
<1> USE ProcessSets DEF Exclusive
<1>0. pc \in [Processes -> WriterSteps \cup RecovererSteps] /\ r \in Processes
  BY DEF TypeOK
<1>1. CASE pc[r] = "idle"
  <2>1. ListWal(r)
    BY <1>0, <1>1, CallsBegin
  <2> QED BY <1>0, <2>1 DEF ListWal, AllOthersIdle, Goto
<1>2. CASE pc[r] # "idle"
  <2>1. pc[q] = "idle"
    BY <1>2 DEF RecoveryAlone, AllOthersIdle
  <2>2. ReadParent(q) \/ ListWal(q)
    BY <2>1, CallsBegin
  <2> QED BY <1>0, <1>2, <2>2 DEF ReadParent, ListWal, RecoveryRunning, AllOthersIdle
<1> QED BY <1>1, <1>2

(* With an atomic COPY no writer leaves a file cut short.                  *)
LEMMA TornFilesSettledKept ==
    ASSUME Exclusive, CoreInv, TornFilesSettled, [Next]_vars
    PROVE  TornFilesSettled'
<1> SUFFICES ASSUME NEW h \in Hosts, NEW id \in SnapshotIds, cache'[h][id] = "partial"
             PROVE  Settled(id)'
  BY DEF TornFilesSettled
<1> USE ProcessSets, HostOfAssumption
<1>0. cache \in [Hosts -> [SnapshotIds -> FileStates]]
  BY DEF CoreInv, TypeOK
<1>1. cache[h][id] = "partial"
  <2>1. ASSUME NEW w \in Writers, BeginCopy(w) \/ EndCopy(w)
        PROVE  cache[h][id] = "partial"
    <3>1. \/ UNCHANGED cache
          \/ cache' = [cache EXCEPT ![HostOf[w]][current[w]] = "whole"]
      BY <2>1 DEF BeginCopy, EndCopy, StoreLocalFile, Exclusive
    <3> QED BY <1>0, <3>1
  <2>2. ASSUME NEW w \in Writers, EvictIfOver(w) PROVE cache[h][id] = "partial"
    BY <1>0, <2>2 DEF EvictIfOver
  <2> QED BY <2>1, <2>2, CacheEffects
<1>2. Settled(id)
  BY <1>1 DEF TornFilesSettled
<1> QED BY <1>2, StepKeepsRows DEF RowsAreKept, Settled

(* A process that has an id in hand.                                       *)
HoldsRow(p) ==
    \/ p \in Writers /\ HasId(p)
    \/ p \in Recoverers /\ pc[p] \notin {"idle", "scan"}

(* No two of them hold the same id.                                        *)
LEMMA RowsHeldOnce ==
    ASSUME CoreInv, RecoveryAlone, NEW p \in Processes, NEW q \in Processes, p # q,
           HoldsRow(p), HoldsRow(q)
    PROVE  /\ current[p] # current[q]
           /\ p \in Writers /\ q \in Writers
<1>1. p \notin Recoverers /\ q \notin Recoverers
  BY DEF HoldsRow, HasId, RecoveryAlone, AllOthersIdle
<1> QED BY <1>1 DEF HoldsRow, CoreInv, WriterIds

(* Statements on a snapshot are made by the one process that holds it.     *)
LEMMA HeldRowsKept ==
    ASSUME CoreInv, RecoveryAlone, [Next]_vars,
           NEW p \in Processes, HoldsRow(p), pc'[p] = pc[p]
    PROVE  /\ parquetFile'[current[p]] = parquetFile[current[p]]
           /\ irods'[current[p]] = irods[current[p]]
<1> USE ProcessSets DEF Goto
<1>0. /\ pc \in [Processes -> WriterSteps \cup RecovererSteps]
      /\ parquetFile \in [SnapshotIds -> FileNames]
      /\ irods \in [SnapshotIds -> ObjectStates]
      /\ current[p] \in SnapshotIds
      /\ nextId \in SnapshotIds => parquetFile[nextId] = "none" /\ ~Pushed(nextId)
      /\ parquetFile[current[p]] # "none" \/ Pushed(current[p])
  <2>1. nextId \in SnapshotIds => parquetFile[nextId] = "none" /\ ~Pushed(nextId)
    BY MaxSnapshotsAssumption DEF CoreInv, TypeOK, CatalogTypeOK, UnusedIds, Pushed
  <2>2. current[p] \in SnapshotIds
    BY DEF HoldsRow, CoreInv, WriterIds, RecovererRows
  <2>3. parquetFile[current[p]] # "none" \/ Pushed(current[p])
    BY DEF HoldsRow, CoreInv, WriterIds, LocalRow, SyncRow, RecovererRows, Settled, Writers
  <2> QED BY <2>1, <2>2, <2>3 DEF CoreInv, TypeOK, CatalogTypeOK
<1>1. \A q \in Processes : HoldsRow(q) /\ q # p => current[q] # current[p]
  BY RowsHeldOnce
<1>2. parquetFile'[current[p]] = parquetFile[current[p]]
  <2>1. CASE UNCHANGED CatalogRows
    BY <2>1 DEF CatalogRows
  <2>2. ASSUME NEW w \in Writers, CreateSnapshot(w)
        PROVE  parquetFile'[current[p]] = parquetFile[current[p]]
    BY <1>0, <2>2 DEF CreateSnapshot, CreateSnapshotRow, CoreInv, LoggedRows, SnapshotExists
  <2>3. ASSUME NEW w \in Writers, LogPush(w)
        PROVE  parquetFile'[current[p]] = parquetFile[current[p]]
    BY <2>3 DEF LogPush, snapshotTable
  <2>4. ASSUME NEW w \in Writers, Rollback(w)
        PROVE  parquetFile'[current[p]] = parquetFile[current[p]]
    <3>1. w # p /\ HoldsRow(w)
      BY <1>0, <2>4 DEF Rollback, EndCall, HoldsRow, HasId
    <3> QED BY <1>0, <1>1, <2>4, <3>1 DEF Rollback, DeleteSnapshotRow
  <2>5. ASSUME NEW q \in Processes, FlipToNamed(q) \/ GiveUp(q)
        PROVE  parquetFile'[current[p]] = parquetFile[current[p]]
    <3>1. q # p /\ HoldsRow(q)
      BY <1>0, <2>5 DEF FlipToNamed, GiveUp, HoldsRow, HasId, Processes
    <3> QED BY <1>0, <1>1, <2>5, <3>1 DEF FlipToNamed, GiveUp, UpdateSnapshotParquetFile
  <2>6. ASSUME NEW q \in Processes, DrainWal(q) \/ BumpAttempt(q)
        PROVE  parquetFile'[current[p]] = parquetFile[current[p]]
    BY <2>6 DEF DrainWal, BumpAttempt, snapshotTable
  <2> QED BY <2>1, <2>2, <2>3, <2>4, <2>5, <2>6, TableEffects DEF CoreInv
<1>3. irods'[current[p]] = irods[current[p]]
  <2>1. CASE UNCHANGED irods
    BY <2>1
  <2>2. ASSUME NEW q \in Processes, PutStored(q) \/ PutReplyLost(q)
        PROVE  irods'[current[p]] = irods[current[p]]
    <3>1. pc[q] = "put" /\ StoreObject(q)
      BY <2>2 DEF PutStored, PutReplyLost
    <3>2. q # p
      BY <1>0, <2>2 DEF PutStored, PutReplyLost, PushRaises, EndCall
    <3>3. HoldsRow(q)
      BY <3>1 DEF HoldsRow, HasId, Processes
    <3> QED BY <1>0, <1>1, <3>1, <3>2, <3>3 DEF StoreObject
  <2> QED BY <2>1, <2>2, OnlyPutsStore
<1> QED BY <1>2, <1>3

(* Pending is what the holder of a row that it may settle left it as, and  *)
(* only a checksum that matched leads to the commit point.                 *)
LEMMA PushesPendingKept ==
    ASSUME Exclusive, CoreInv, RecoveryAlone, TornFilesSettled, PushesPending, [Next]_vars
    PROVE  PushesPending'
<1> DEFINE Holding == {"log", "copy", "copying", "put", "verify", "flip", "giveup"}
<1> SUFFICES ASSUME NEW p \in Pushers
             PROVE  /\ pc'[p] \in Holding => parquetFile'[current'[p]] = "pending"
                    /\ pc'[p] = "flip" => irods'[current'[p]] = "whole"
  BY DEF PushesPending
<1> USE ProcessSets DEF Goto, callVars
<1>0. /\ pc \in [Processes -> WriterSteps \cup RecovererSteps]
      /\ current \in [Processes -> SnapshotIds \cup {NULL}]
      /\ parquetFile \in [SnapshotIds -> FileNames]
      /\ irods \in [SnapshotIds -> ObjectStates]
      /\ p \in Processes
      /\ \/ p \in SyncWriters /\ p \in Writers /\ p \notin LocalWriters
         \/ p \in Recoverers
  BY DEF CoreInv, TypeOK, CatalogTypeOK, Pushers
<1>1. /\ pc[p] \in Holding => parquetFile[current[p]] = "pending"
      /\ pc[p] = "flip" => irods[current[p]] = "whole"
  BY DEF PushesPending
<1>2. pc[p] \in Holding => HoldsRow(p)
  BY <1>0 DEF HoldsRow, HasId
<1>3. CASE SameCall(p)
  <2>1. pc'[p] = pc[p] /\ current'[p] = current[p]
    BY <1>3 DEF SameCall
  <2>2. pc[p] \in Holding =>
           /\ parquetFile'[current[p]] = parquetFile[current[p]]
           /\ irods'[current[p]] = irods[current[p]]
    BY <1>0, <1>2, <2>1, HeldRowsKept
  <2> QED BY <1>1, <2>1, <2>2
<1>4. CASE CallEnded(p)
  BY <1>4 DEF CallEnded
<1>5. CASE PushMove(p)
  <2>1. CASE PutStored(p)
    <3>1. /\ pc[p] = "put" /\ pc'[p] = "verify"
          /\ current' = current /\ parquetFile' = parquetFile
      BY <1>0, <2>1 DEF PutStored, StoreObject, catalogVars
    <3> QED BY <1>1, <3>1
  <2>2. CASE VerifyPasses(p)
    <3>1. /\ pc[p] = "verify" /\ pc'[p] = "flip"
          /\ UNCHANGED <<current, parquetFile, irods>>
          /\ irods[current[p]] = LocalFile(p)
          /\ LocalFile(p) # "absent"
      BY <1>0, <2>2 DEF VerifyPasses, ChecksumMatches, Exclusive, catalogVars
    <3>2. current[p] \in SnapshotIds /\ HostOf[p] \in Hosts
      BY <1>0, <3>1, HostOfAssumption DEF CoreInv, TypeOK
    <3>3. LocalFile(p) = "whole"
      <4>1. LocalFile(p) \in FileStates
        <5>1. cache \in [Hosts -> [SnapshotIds -> FileStates]]
          BY DEF CoreInv, TypeOK
        <5> QED BY <3>2, <5>1 DEF LocalFile
      <4>2. LocalFile(p) # "partial"
        BY <1>1, <3>1, <3>2 DEF LocalFile, TornFilesSettled, Settled
      <4> QED BY <3>1, <4>1, <4>2 DEF FileStates
    <3> QED BY <1>1, <3>1, <3>3
  <2>3. CASE FlipToNamed(p) \/ DrainWal(p)
    BY <1>0, <2>3 DEF FlipToNamed, DrainWal
  <2> QED BY <1>5, <2>1, <2>2, <2>3 DEF PushMove
<1>6. CASE WriterMove(p) /\ p \in Writers
  <2>1. CASE ReadParent(p)
    BY <1>0, <2>1 DEF ReadParent
  <2>2. CASE CreateSnapshot(p)
    <3>1. /\ current'[p] = nextId /\ nextId \in SnapshotIds
          /\ parquetFile' = [parquetFile EXCEPT ![nextId] = "pending"]
          /\ pc'[p] \in {"log", "copy"}
      BY <1>0, <2>2 DEF CreateSnapshot, CreateSnapshotRow
    <3> QED BY <1>0, <3>1
  <2>3. CASE LogPush(p) \/ BeginCopy(p) \/ EndCopy(p) \/ CopyFails(p)
    <3>1. p \in SyncWriters /\ ~CopyFails(p)
      BY <1>0, <1>6 DEF CopyFails
    <3>2. current' = current /\ parquetFile' = parquetFile
      BY <2>3, <3>1 DEF LogPush, BeginCopy, EndCopy, snapshotTable
    <3>3. pc[p] \in {"log", "copy", "copying"} /\ pc'[p] # "flip"
      BY <1>0, <2>3, <3>1 DEF LogPush, BeginCopy, EndCopy
    <3> QED BY <1>1, <3>2, <3>3
  <2> QED BY <1>6, <2>1, <2>2, <2>3 DEF WriterMove
<1>7. CASE RecovererMove(p) /\ p \in Recoverers
  <2>1. CASE ListWal(p) \/ NextRow(p) \/ GiveUp(p) \/ BumpAttempt(p)
    BY <1>0, <2>1 DEF ListWal, NextRow, GiveUp, BumpAttempt
  <2>2. CASE LookAtSnapshot(p)
    <3>1. /\ pc'[p] \in {"drain", "giveup", "put"}
          /\ pc'[p] # "drain" => parquetFile[current[p]] = "pending"
          /\ current' = current /\ parquetFile' = parquetFile
      BY <1>0, <2>2 DEF LookAtSnapshot, catalogVars
    <3> QED BY <3>1
  <2>3. CASE PushFailed(p)
    BY <2>3 DEF PushFailed
  <2> QED BY <1>7, <2>1, <2>2, <2>3 DEF RecovererMove
<1> QED BY <1>0, <1>3, <1>4, <1>5, <1>6, <1>7, CallEffects DEF CoreInv

(* Nothing is stored over a snapshot that is no longer pending.            *)
LEMMA SettledObjectsKept ==
    ASSUME CoreInv, PushesPending, [Next]_vars, NEW id \in SnapshotIds, Settled(id)
    PROVE  irods'[id] = irods[id]
<1> USE ProcessSets
<1>1. ASSUME NEW p \in Processes, PutStored(p) \/ PutReplyLost(p)
      PROVE  irods'[id] = irods[id]
  <2>1. pc[p] = "put" /\ StoreObject(p)
    BY <1>1 DEF PutStored, PutReplyLost
  <2>2. p \in Pushers
    BY <2>1 DEF Processes, Writers, Pushers, CoreInv, WriterIds, LocalRow, HasId
  <2>3. current[p] # id
    BY <2>1, <2>2 DEF PushesPending, Settled
  <2> QED BY <2>1, <2>3 DEF StoreObject, CoreInv, TypeOK
<1> QED BY <1>1, OnlyPutsStore

(* A settled snapshot is not settled again: every statement that writes    *)
(* parquet_file finds it pending.                                          *)
LEMMA SettledNamesKept ==
    ASSUME CoreInv, PushesPending, [Next]_vars, NEW id \in SnapshotIds, Settled(id)
    PROVE  parquetFile'[id] = parquetFile[id]
<1> USE ProcessSets DEF Settled
<1>0. /\ parquetFile \in [SnapshotIds -> FileNames]
      /\ nextId \in SnapshotIds => parquetFile[nextId] = "none"
  BY MaxSnapshotsAssumption DEF CoreInv, TypeOK, CatalogTypeOK, UnusedIds
<1>1. CASE UNCHANGED CatalogRows
  BY <1>1 DEF CatalogRows
<1>2. ASSUME NEW w \in Writers, CreateSnapshot(w) PROVE parquetFile'[id] = parquetFile[id]
  BY <1>0, <1>2 DEF CreateSnapshot, CreateSnapshotRow
<1>3. ASSUME NEW w \in Writers, LogPush(w) PROVE parquetFile'[id] = parquetFile[id]
  BY <1>3 DEF LogPush, snapshotTable
<1>4. ASSUME NEW w \in Writers, Rollback(w) PROVE parquetFile'[id] = parquetFile[id]
  <2>1. current[w] # id
    BY <1>4, ActorsHoldRows DEF Rollback
  <2> QED BY <1>0, <1>4, <2>1 DEF Rollback, DeleteSnapshotRow
<1>5. ASSUME NEW p \in Processes, FlipToNamed(p) PROVE parquetFile'[id] = parquetFile[id]
  <2>1. pc[p] = "flip"
    BY <1>5 DEF FlipToNamed
  <2>2. parquetFile[current[p]] = "pending"
    BY <2>1 DEF PushesPending, CoreInv, WriterIds, LocalRow, HasId, Pushers, Processes, Writers
  <2> QED BY <1>0, <1>5, <2>2 DEF FlipToNamed, UpdateSnapshotParquetFile
<1>6. ASSUME NEW p \in Processes, DrainWal(p) PROVE parquetFile'[id] = parquetFile[id]
  BY <1>6 DEF DrainWal, snapshotTable
<1>7. ASSUME NEW r \in Recoverers, GiveUp(r) PROVE parquetFile'[id] = parquetFile[id]
  <2>1. parquetFile[current[r]] = "pending"
    BY <1>7 DEF GiveUp, PushesPending, Pushers
  <2> QED BY <1>0, <1>7, <2>1 DEF GiveUp, UpdateSnapshotParquetFile
<1>8. ASSUME NEW r \in Recoverers, BumpAttempt(r) PROVE parquetFile'[id] = parquetFile[id]
  BY <1>8 DEF BumpAttempt, snapshotTable
<1> QED BY <1>1, <1>2, <1>3, <1>4, <1>5, <1>6, <1>7, <1>8, TableEffects DEF CoreInv

(* Push before commit is kept by every step.                               *)
LEMMA CommittedIsDurableKept ==
    ASSUME CoreInv, PushesPending, CommittedIsDurable, [Next]_vars
    PROVE  CommittedIsDurable'
<1> SUFFICES ASSUME NEW id \in SnapshotIds, createdAt'[id] # 0, parquetFile'[id] = "named"
             PROVE  irods'[id] = "whole"
  BY DEF CommittedIsDurable, Pushed
<1> USE ProcessSets
<1>0. parquetFile \in [SnapshotIds -> FileNames]
  BY DEF CoreInv, TypeOK, CatalogTypeOK
<1>1. CASE parquetFile[id] = "named"
  <2>1. Pushed(id)
    BY <1>1, LoggedBeforeSettled DEF Settled, Pushed
  <2>2. irods[id] = "whole"
    BY <1>1, <2>1 DEF CommittedIsDurable
  <2> QED BY <1>1, <2>2, SettledObjectsKept DEF Settled
<1>2. CASE parquetFile[id] # "named"
  <2>1. PICK p \in Processes : FlipToNamed(p) /\ current[p] = id
    BY <1>2, OnlyFlipsCommit
  <2>2. /\ pc[p] = "flip" /\ current[p] = id
        /\ createdAt' = createdAt /\ irods' = irods
    BY <1>0, <1>2, <2>1 DEF FlipToNamed, UpdateSnapshotParquetFile, walTable
  <2>3. p \in Pushers
    BY <2>2 DEF Processes, Writers, Pushers, CoreInv, WriterIds, LocalRow, HasId, Pushed
  <2> QED BY <2>2, <2>3 DEF PushesPending
<1> QED BY <1>1, <1>2

LEMMA ExclusiveInvInit == Init => ExclusiveInv
<1> SUFFICES ASSUME Init PROVE ExclusiveInv
  OBVIOUS
<1>1. CoreInv
  BY CoreInvInit
<1>2. RecoveryAlone /\ TornFilesSettled /\ PushesPending /\ CommittedIsDurable
  BY ProcessSets
     DEF Init, CatalogInit, RecoveryAlone, AllOthersIdle, TornFilesSettled, PushesPending,
         CommittedIsDurable, Pushed
<1> QED BY <1>1, <1>2 DEF ExclusiveInv

(* Exclusive recovery, atomic COPY and checksums hold the protocol         *)
(* together: the full strengthening is inductive.                          *)
LEMMA ExclusiveInvStep ==
    ASSUME Exclusive, ExclusiveInv, [Next]_vars
    PROVE  ExclusiveInv'
BY CoreInvStep, RecoveryAloneKept, TornFilesSettledKept, PushesPendingKept,
   CommittedIsDurableKept
   DEF ExclusiveInv, CoreInv

LEMMA ExclusiveInvHolds ==
    ASSUME Exclusive
    PROVE  Spec => []ExclusiveInv
<1>1. ExclusiveInv /\ [Next]_vars => ExclusiveInv'
  BY ExclusiveInvStep
<1> QED BY <1>1, ExclusiveInvInit, PTL DEF Spec

(* Push before commit: a committed snapshot of the WAL path is whole in    *)
(* iRODS, whichever writer or recovery committed it and whatever crashed,  *)
(* if recovery runs alone, COPY is atomic and the zone has checksums.      *)
THEOREM CommittedStaysDurable ==
    ASSUME Exclusive
    PROVE  Spec => []CommittedIsDurable
<1>1. ExclusiveInv => CommittedIsDurable
  BY DEF ExclusiveInv
<1> QED BY <1>1, ExclusiveInvHolds, PTL

(* Under the same hypotheses an outcome is final: no recovery turns a      *)
(* committed name into 'failed', no writer commits what was given up.      *)
THEOREM OutcomesAreFinal ==
    ASSUME Exclusive
    PROVE  Spec => SettledIsFinal
<1>1. ExclusiveInv /\ [Next]_vars =>
         [\A id \in SnapshotIds :
             parquetFile[id] \in {"named", PARQUET_FILE_FAILED} =>
                parquetFile'[id] = parquetFile[id]]_vars
  BY SettledNamesKept DEF ExclusiveInv, Settled
<1> QED BY <1>1, ExclusiveInvHolds, PTL DEF Spec, SettledIsFinal

-----------------------------------------------------------------------------
(* The protocol implements the ledger                                      *)

(* LedgerStatus, case by case.                                             *)
LEMMA StatusCases ==
    ASSUME NEW id \in SnapshotIds
    PROVE  /\ parquetFile[id] = "named" => LedgerStatus(id) = "committed"
           /\ parquetFile[id] = "failed" => LedgerStatus(id) = "failed"
           /\ parquetFile[id] = "pending" => LedgerStatus(id) = "inflight"
           /\ parquetFile[id] = "none" /\ id < nextId => LedgerStatus(id) = "discarded"
           /\ parquetFile[id] = "none" /\ ~(id < nextId) => LedgerStatus(id) = "unborn"
BY DEF LedgerStatus

(* The same of the next state.                                             *)
LEMMA NextStatusCases ==
    ASSUME NEW id \in SnapshotIds
    PROVE  /\ parquetFile'[id] = "named" => LedgerStatus(id)' = "committed"
           /\ parquetFile'[id] = "failed" => LedgerStatus(id)' = "failed"
           /\ parquetFile'[id] = "pending" => LedgerStatus(id)' = "inflight"
           /\ parquetFile'[id] = "none" /\ id < nextId' => LedgerStatus(id)' = "discarded"
           /\ parquetFile'[id] = "none" /\ ~(id < nextId') => LedgerStatus(id)' = "unborn"
BY DEF LedgerStatus

(* The initial catalog is the empty ledger.                                *)
LEMMA LedgerInitImplemented == Init => Ledger!LedgerInit
<1> SUFFICES ASSUME Init PROVE Ledger!LedgerInit
  OBVIOUS
<1>1. ASSUME NEW id \in SnapshotIds PROVE LedgerStatus(id) = "unborn"
  <2>1. parquetFile[id] = "none" /\ ~(id < nextId)
    BY MaxSnapshotsAssumption DEF Init, CatalogInit, SnapshotIds
  <2> QED BY <2>1, StatusCases
<1> QED BY <1>1
        DEF Init, CatalogInit, Ledger!LedgerInit, Ledger!LedgerIds, Ledger!NoParent,
            SnapshotIds, Pushed

(* The state of the ledger that a state of the protocol stands for.        *)
StatusMap == [id \in SnapshotIds |-> LedgerStatus(id)]
SharedMap == {id \in SnapshotIds : Pushed(id)}
DurableMap == {id \in SnapshotIds : irods[id] = "whole"}

(* A statement that rewrites one row changes one status.                   *)
LEMMA OneStatusChanges ==
    ASSUME TypeOK, UNCHANGED nextId, NEW id \in SnapshotIds, NEW name \in FileNames,
           parquetFile' = [parquetFile EXCEPT ![id] = name]
    PROVE  StatusMap' = [StatusMap EXCEPT ![id] = LedgerStatus(id)']
<1>1. parquetFile \in [SnapshotIds -> FileNames]
  BY DEF TypeOK, CatalogTypeOK
<1>2. \A other \in SnapshotIds \ {id} : LedgerStatus(other)' = LedgerStatus(other)
  BY <1>1 DEF LedgerStatus
<1> QED BY <1>2 DEF StatusMap

(* A put of a pending snapshot is an upload, and nothing else touches the  *)
(* objects of the zone.                                                    *)
LEMMA PutsAreUploads ==
    ASSUME ExclusiveInv, NEW p \in Processes, PutStored(p) \/ PutReplyLost(p)
    PROVE  \E id \in SnapshotIds : Ledger!Upload(id)
<1> USE ProcessSets
<1>1. pc[p] = "put" /\ StoreObject(p)
  BY DEF PutStored, PutReplyLost
<1>2. p \in Pushers
  BY <1>1 DEF Processes, Writers, Pushers, ExclusiveInv, CoreInv, WriterIds, LocalRow, HasId
<1>3. /\ current[p] \in SnapshotIds
      /\ Pushed(current[p])
      /\ parquetFile[current[p]] = "pending"
  BY <1>1, <1>2
     DEF ExclusiveInv, CoreInv, WriterIds, SyncRow, RecovererRows, HasId, Pushers,
         PushesPending
<1>4. UNCHANGED <<nextId, parquetFile, projectOf, parent, createdAt>>
  BY <1>1 DEF StoreObject, catalogVars
<1>5. LedgerStatus(current[p]) = "inflight"
  BY <1>3, StatusCases
<1>6. StatusMap' = StatusMap /\ SharedMap' = SharedMap
  BY <1>4 DEF StatusMap, LedgerStatus, SharedMap, Pushed
<1>7. DurableMap' \in {DurableMap \cup {current[p]}, DurableMap \ {current[p]}}
  BY <1>1, <1>3 DEF StoreObject, DurableMap, ExclusiveInv, CoreInv, TypeOK
<1> QED BY <1>3, <1>4, <1>5, <1>6, <1>7
        DEF Ledger!Upload, StatusMap, SharedMap, DurableMap

(* Allocating a row begins a snapshot on a settled parent.                 *)
LEMMA CreatesBegin ==
    ASSUME ExclusiveInv, NEW w \in Writers, CreateSnapshot(w)
    PROVE  \E id \in SnapshotIds, p \in Projects, par \in SnapshotIds \cup {NULL} :
              Ledger!Begin(id, p, par)
<1> USE ProcessSets
<1>0. /\ nextId \in SnapshotIds /\ nextId \in Nat
      /\ nextId' = nextId + 1
      /\ parquetFile \in [SnapshotIds -> FileNames]
      /\ parquetFile' = [parquetFile EXCEPT ![nextId] = "pending"]
      /\ projectOf' = [projectOf EXCEPT ![nextId] = target[w]]
      /\ parent' = [parent EXCEPT ![nextId] = readParent[w]]
      /\ UNCHANGED <<createdAt, irods>>
  BY DEF CreateSnapshot, CreateSnapshotRow, walTable, ExclusiveInv, CoreInv, TypeOK,
         CatalogTypeOK
<1>1. /\ target[w] \in Projects
      /\ readParent[w] \in SnapshotIds \cup {NULL}
      /\ readParent[w] # NULL =>
            /\ Settled(readParent[w])
            /\ projectOf[readParent[w]] = target[w]
  BY DEF CreateSnapshot, ExclusiveInv, CoreInv, ParentsRead, TypeOK
<1>2. \A other \in SnapshotIds : StatusMap[other] = "unborn" <=> other >= nextId
  <2> SUFFICES ASSUME NEW other \in SnapshotIds
               PROVE  LedgerStatus(other) = "unborn" <=> other >= nextId
    BY DEF StatusMap
  <2>1. CASE other >= nextId
    <3>1. parquetFile[other] = "none" /\ ~(other < nextId)
      BY <1>0, <2>1, MaxSnapshotsAssumption
         DEF ExclusiveInv, CoreInv, UnusedIds, SnapshotIds
    <3> QED BY <2>1, <3>1, StatusCases
  <2>2. CASE ~(other >= nextId)
    <3>1. other < nextId /\ parquetFile[other] \in FileNames
      BY <1>0, <2>2
    <3> QED BY <2>2, <3>1, StatusCases DEF FileNames
  <2> QED BY <2>1, <2>2
<1>3. readParent[w] \in Ledger!ParentsFor(target[w])
  <2>1. CASE readParent[w] = NULL
    BY <2>1 DEF Ledger!ParentsFor, Ledger!NoParent
  <2>2. CASE readParent[w] # NULL
    <3>1. /\ readParent[w] \in SnapshotIds
          /\ parquetFile[readParent[w]] \in {"named", "failed"}
          /\ projectOf[readParent[w]] = target[w]
      BY <1>1, <2>2 DEF Settled
    <3>2. LedgerStatus(readParent[w]) \in {"committed", "failed"}
      BY <3>1, StatusCases
    <3> QED BY <3>1, <3>2 DEF Ledger!ParentsFor, Ledger!LedgerIds, SnapshotIds
  <2> QED BY <2>1, <2>2
<1>4. StatusMap' = [StatusMap EXCEPT ![nextId] = "inflight"]
  <2>1. ASSUME NEW other \in SnapshotIds
        PROVE  LedgerStatus(other)' = IF other = nextId THEN "inflight" ELSE LedgerStatus(other)
    <3>1. CASE other = nextId
      <4>1. parquetFile'[other] = "pending"
        BY <1>0, <3>1
      <4> QED BY <3>1, <4>1, NextStatusCases
    <3>2. CASE other # nextId
      <4>1. parquetFile'[other] = parquetFile[other] /\ parquetFile[other] \in FileNames
        BY <1>0, <3>2
      <4>2. other < nextId' <=> other < nextId
        <5>1. other \in Nat /\ nextId \in Nat /\ nextId' = nextId + 1
          BY <1>0
        <5> QED BY <3>2, <5>1
      <4>3. LedgerStatus(other)' = LedgerStatus(other)
        BY <4>1, <4>2 DEF LedgerStatus
      <4> QED BY <3>2, <4>3
    <3> QED BY <3>1, <3>2
  <2> QED BY <2>1 DEF StatusMap
<1>5. SharedMap' = SharedMap /\ DurableMap' = DurableMap
  BY <1>0 DEF SharedMap, DurableMap, Pushed
<1>6. Ledger!Begin(nextId, target[w], readParent[w])
  BY <1>0, <1>2, <1>3, <1>4, <1>5
     DEF Ledger!Begin, Ledger!LedgerIds, SnapshotIds, StatusMap, SharedMap, DurableMap
<1> QED BY <1>0, <1>1, <1>6

(* Logging a push shares the snapshot.                                     *)
LEMMA LogsShare ==
    ASSUME ExclusiveInv, NEW w \in Writers, LogPush(w)
    PROVE  \E id \in SnapshotIds : Ledger!Share(id)
<1>1. /\ current[w] \in SnapshotIds
      /\ ~Pushed(current[w])
      /\ parquetFile[current[w]] = "pending"
  BY ActorsHoldRows DEF LogPush, ExclusiveInv
<1>2. /\ UNCHANGED <<nextId, parquetFile, projectOf, parent, irods>>
      /\ createdAt' = [createdAt EXCEPT ![current[w]] =
                         IF current[w] \in wal THEN @ ELSE clock]
  BY DEF LogPush, InsertPendingPush, snapshotTable
<1>3. /\ createdAt \in [SnapshotIds -> Nat] /\ clock \in Nat /\ clock > 0
      /\ current[w] \notin wal
  BY <1>1 DEF ExclusiveInv, CoreInv, TypeOK, CatalogTypeOK, LoggedRows
<1>4. SharedMap' = SharedMap \cup {current[w]}
  BY <1>1, <1>2, <1>3 DEF SharedMap, Pushed
<1>5. LedgerStatus(current[w]) = "inflight"
  BY <1>1, StatusCases
<1>6. StatusMap' = StatusMap /\ DurableMap' = DurableMap
  BY <1>2 DEF StatusMap, LedgerStatus, DurableMap
<1> QED BY <1>1, <1>2, <1>4, <1>5, <1>6 DEF Ledger!Share, StatusMap, SharedMap, DurableMap

(* A rollback, a commit and a GiveUp settle a snapshot in flight.          *)
LEMMA SettlesOnce ==
    ASSUME ExclusiveInv, NEW id \in SnapshotIds, NEW name \in FileNames \ {"pending"},
           parquetFile[id] = "pending",
           parquetFile' = [parquetFile EXCEPT ![id] = name],
           UNCHANGED <<nextId, projectOf, parent, createdAt, irods>>,
           name = "named" => (Pushed(id) => irods[id] = "whole"),
           name = "failed" => Pushed(id),
           name = "none" => ~Pushed(id)
    PROVE  \E outcome \in {"committed", "failed", "discarded"} : Ledger!Settle(id, outcome)
<1>0. /\ TypeOK /\ nextId \in Nat /\ id < nextId
      /\ parquetFile'[id] = name
  <2>1. parquetFile \in [SnapshotIds -> FileNames] /\ nextId \in 1..(MaxSnapshots + 1)
    BY DEF ExclusiveInv, CoreInv, TypeOK, CatalogTypeOK
  <2>2. ~(id >= nextId)
    BY DEF ExclusiveInv, CoreInv, UnusedIds
  <2>3. nextId \in Nat /\ id \in Nat
    BY <2>1, ProcessSets, MaxSnapshotsAssumption
  <2> QED BY <2>1, <2>2, <2>3 DEF ExclusiveInv, CoreInv
<1>1. /\ LedgerStatus(id) = "inflight"
      /\ StatusMap' = [StatusMap EXCEPT ![id] = LedgerStatus(id)']
  BY <1>0, StatusCases, OneStatusChanges
<1>2. SharedMap' = SharedMap /\ DurableMap' = DurableMap
  BY DEF SharedMap, DurableMap, Pushed
<1> DEFINE outcome == LedgerStatus(id)'
<1>3. /\ outcome \in {"committed", "failed", "discarded"}
      /\ outcome = "committed" => (Pushed(id) => irods[id] = "whole")
      /\ outcome = "failed" => Pushed(id)
      /\ outcome = "discarded" => ~Pushed(id)
  <2>1. CASE name = "named"
    BY <1>0, <2>1, NextStatusCases
  <2>2. CASE name = "failed"
    BY <1>0, <2>2, NextStatusCases
  <2>3. CASE name = "none"
    BY <1>0, <2>3, NextStatusCases
  <2> QED BY <2>1, <2>2, <2>3 DEF FileNames
<1> HIDE DEF outcome
<1>4. Ledger!Settle(id, outcome)
  <2>1. StatusMap' = [StatusMap EXCEPT ![id] = outcome]
    BY <1>1 DEF outcome
  <2>2. /\ outcome = "committed" => (id \in SharedMap => id \in DurableMap)
        /\ outcome = "failed" => id \in SharedMap
        /\ outcome = "discarded" => id \notin SharedMap
    BY <1>3 DEF SharedMap, DurableMap
  <2> QED BY <1>1, <1>2, <1>3, <2>1, <2>2
             DEF Ledger!Settle, StatusMap, SharedMap, DurableMap
<1> QED BY <1>3, <1>4

(* Every step of the protocol is a step of the ledger or leaves it alone.  *)
(* A step that leaves rows, log and objects alone leaves the ledger alone. *)
LEMMA LedgerRests ==
    ASSUME UNCHANGED <<nextId, parquetFile, projectOf, parent, createdAt, irods>>
    PROVE  UNCHANGED Ledger!ledgerVars
<1>1. StatusMap' = StatusMap /\ SharedMap' = SharedMap /\ DurableMap' = DurableMap
  BY DEF StatusMap, LedgerStatus, SharedMap, DurableMap, Pushed
<1> QED BY <1>1 DEF Ledger!ledgerVars, StatusMap, SharedMap, DurableMap

LEMMA LedgerStepImplemented ==
    ASSUME ExclusiveInv, [Next]_vars
    PROVE  [Ledger!LedgerNext]_(Ledger!ledgerVars)
<1> DEFINE Goal == [Ledger!LedgerNext]_(Ledger!ledgerVars)
<1> USE ProcessSets
<1>0. /\ CoreInv /\ TypeOK
      /\ SnapshotIds = Ledger!LedgerIds
      /\ NULL = Ledger!NoParent
  BY DEF ExclusiveInv, CoreInv, SnapshotIds, Ledger!LedgerIds, Ledger!NoParent
<1>a. ASSUME NEW id \in SnapshotIds,
             \/ Ledger!Upload(id) \/ Ledger!Share(id)
             \/ \E outcome \in {"committed", "failed", "discarded"} :
                   Ledger!Settle(id, outcome)
      PROVE  Goal
  BY <1>0, <1>a DEF Ledger!LedgerNext, Ledger!Outcomes
<1>b. ASSUME UNCHANGED <<nextId, parquetFile, projectOf, parent, createdAt, irods>>
      PROVE  Goal
  BY <1>b, LedgerRests
<1>1. CASE \E p \in Processes : PutStored(p) \/ PutReplyLost(p)
  BY <1>1, <1>a, PutsAreUploads
<1>2. CASE UNCHANGED irods
  <2>1. CASE UNCHANGED CatalogRows
    BY <1>2, <1>b, <2>1 DEF CatalogRows
  <2>2. ASSUME NEW w \in Writers, CreateSnapshot(w) PROVE Goal
    BY <1>0, <2>2, CreatesBegin DEF Ledger!LedgerNext
  <2>3. ASSUME NEW w \in Writers, LogPush(w) PROVE Goal
    BY <1>a, <2>3, LogsShare
  <2>4. ASSUME NEW w \in Writers, Rollback(w) PROVE Goal
    <3>1. /\ current[w] \in SnapshotIds
          /\ ~Pushed(current[w])
          /\ parquetFile[current[w]] = "pending"
      BY <1>0, <2>4, ActorsHoldRows DEF Rollback
    <3>2. /\ parquetFile' = [parquetFile EXCEPT ![current[w]] = "none"]
          /\ UNCHANGED <<nextId, projectOf, parent, createdAt>>
      BY <2>4 DEF Rollback, DeleteSnapshotRow
    <3> QED BY <1>2, <1>a, <3>1, <3>2, SettlesOnce DEF FileNames
  <2>5. ASSUME NEW p \in Processes, FlipToNamed(p) PROVE Goal
    <3>1. /\ pc[p] = "flip" /\ current[p] \in SnapshotIds
          /\ parquetFile' = [parquetFile EXCEPT ![current[p]] = "named"]
          /\ UNCHANGED <<nextId, projectOf, parent, createdAt>>
      BY <1>0, <2>5, ActorsHoldRows DEF FlipToNamed, UpdateSnapshotParquetFile, walTable
    <3>2. /\ parquetFile[current[p]] = "pending"
          /\ Pushed(current[p]) => irods[current[p]] = "whole"
      BY <1>0, <3>1
         DEF ExclusiveInv, PushesPending, CoreInv, WriterIds, LocalRow, HasId, Pushers,
             Processes, Writers
    <3> QED BY <1>2, <1>a, <3>1, <3>2, SettlesOnce DEF FileNames
  <2>6. ASSUME NEW p \in Processes, DrainWal(p) PROVE Goal
    <3>1. UNCHANGED <<nextId, parquetFile, projectOf, parent, createdAt>>
      BY <2>6 DEF DrainWal, DeletePendingPush, snapshotTable
    <3> QED BY <1>2, <1>b, <3>1
  <2>7. ASSUME NEW r \in Recoverers, GiveUp(r) PROVE Goal
    <3>1. /\ current[r] \in SnapshotIds /\ Pushed(current[r])
          /\ parquetFile' = [parquetFile EXCEPT ![current[r]] = "failed"]
          /\ UNCHANGED <<nextId, projectOf, parent, createdAt>>
      BY <1>0, <2>7, ActorsHoldRows DEF GiveUp, UpdateSnapshotParquetFile, walTable
    <3>2. parquetFile[current[r]] = "pending"
      BY <2>7 DEF GiveUp, ExclusiveInv, PushesPending, Pushers
    <3> QED BY <1>2, <1>a, <3>1, <3>2, SettlesOnce DEF FileNames
  <2>8. ASSUME NEW r \in Recoverers, BumpAttempt(r) PROVE Goal
    <3>1. UNCHANGED <<nextId, parquetFile, projectOf, parent, createdAt>>
      BY <2>8 DEF BumpAttempt, BumpPendingPushAttempt, snapshotTable
    <3> QED BY <1>2, <1>b, <3>1
  <2> QED BY <1>0, <2>1, <2>2, <2>3, <2>4, <2>5, <2>6, <2>7, <2>8, TableEffects
<1> QED BY <1>1, <1>2, OnlyPutsStore

(* The write path and recovery, with all their crashes, implement an       *)
(* append-only ledger whose snapshots are settled once and for good.       *)
THEOREM ProtocolImplementsLedger ==
    ASSUME Exclusive
    PROVE  Spec => ImplementsLedger
<1>1. ExclusiveInv /\ [Next]_vars => [Ledger!LedgerNext]_(Ledger!ledgerVars)
  BY LedgerStepImplemented
<1> QED BY <1>1, LedgerInitImplemented, ExclusiveInvHolds, PTL
        DEF Spec, ImplementsLedger, Ledger!LedgerSpec

=============================================================================
