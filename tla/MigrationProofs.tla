-------------------------- MODULE MigrationProofs --------------------------
(* What overlapping migration runs guarantee, for any number of runners,   *)
(* checkouts and migrations, without a bound on failures other than the    *)
(* constant of the model.                                                  *)
EXTENDS Migrations, TLAPS

(* A runner's list is only ever behind.                                    *)
ListsAreBehind == \A r \in Runners : run[r].already \subseteq recorded

InTransaction(r) == run[r].phase \in {"execute", "insert", "commit"}

(* An open transaction is for a migration the runner has.                  *)
TransactionsAreDiscovered ==
    \A r \in Runners : InTransaction(r) => run[r].version \in Versions

(* The inserted key is nobody else's, committed or not.                    *)
InsertedOnce ==
    \A r \in Runners :
        run[r].phase = "commit"
            => /\ run[r].version \notin recorded
               /\ Inserting(run[r].version) = {r}

(* The version table is made in the schema.                                *)
SchemaComesFirst ==
    \A r \in Runners :
        run[r].phase \in {"table?", "table"} => "schema" \in bookkeeping

(* AppliedOnceInOrder alone says nothing of the transactions that are      *)
(* about to commit; the other parts make the next commit the next number.  *)
MigrationInv ==
    /\ MigrationTypeOK
    /\ AppliedOnceInOrder
    /\ PrerequisitesApplied
    /\ SuccessIsUpToDate
    /\ ListsAreBehind
    /\ TransactionsAreDiscovered
    /\ InsertedOnce
    /\ SchemaComesFirst

-----------------------------------------------------------------------------
(* Setting fields of a runner's locals keeps their type.                   *)
LEMMA LocalsTyped ==
    ASSUME run \in [Runners -> Locals], NEW r \in Runners, NEW phase \in Phases
    PROVE  /\ [run EXCEPT ![r].phase = phase] \in [Runners -> Locals]
           /\ run[r] \in Locals
  <1>1. run[r] \in Locals
    OBVIOUS
  <1>2. [run[r] EXCEPT !.phase = phase] \in Locals
    BY <1>1 DEF Locals
  <1>3. QED
    BY <1>1, <1>2

(* A run that only moves to a phase outside a transaction, or stays where  *)
(* it is in one, keeps what the tables and the transactions say.           *)
LEMMA MovingKeepsInv ==
    ASSUME MigrationInv, MigrationAssumption,
           NEW r \in Runners, NEW phase \in Phases,
           EnterPhase(r, phase), UNCHANGED <<recorded, effects>>,
           bookkeeping' \subseteq Objects, failures' \in 0..MaxFailures,
           bookkeeping \subseteq bookkeeping',
           phase \in {"read", "next", "execute", "insert", "commit"}
               => bookkeeping' = Objects,
           phase \in {"table?", "table"} => "schema" \in bookkeeping',
           phase \in {"execute", "insert", "commit"} => InTransaction(r),
           phase = "commit" => /\ Inserting(run[r].version) = {}
                               /\ run[r].version \notin recorded,
           phase = "succeeded" => Pending(r) = {}
    PROVE  MigrationInv'
  <1>1. run' \in [Runners -> Locals]
    BY LocalsTyped DEF EnterPhase, MigrationInv, MigrationTypeOK
  <1>2. /\ \A q \in Runners : /\ run'[q].already = run[q].already
                              /\ run'[q].version = run[q].version
                              /\ q # r => run'[q].phase = run[q].phase
        /\ run'[r].phase = phase
    BY LocalsTyped DEF EnterPhase, MigrationInv, MigrationTypeOK, Locals
  <1>3. MigrationTypeOK'
    BY <1>1, <1>2 DEF MigrationInv, MigrationTypeOK
  <1>4. AppliedOnceInOrder'
    BY DEF MigrationInv, AppliedOnceInOrder
  <1>5. PrerequisitesApplied'
    BY <1>2 DEF MigrationInv, PrerequisitesApplied, InTransaction
  <1>6. SuccessIsUpToDate'
    BY <1>2 DEF MigrationInv, SuccessIsUpToDate, ListsAreBehind, Pending,
                Discovered
  <1>7. ListsAreBehind'
    BY <1>2 DEF MigrationInv, ListsAreBehind
  <1>8. TransactionsAreDiscovered'
    BY <1>2 DEF MigrationInv, TransactionsAreDiscovered, InTransaction
  <1>9. InsertedOnce'
    <2> SUFFICES ASSUME NEW q \in Runners, run'[q].phase = "commit"
                 PROVE  /\ run'[q].version \notin recorded'
                        /\ Inserting(run[q].version)' = {q}
      BY <1>2 DEF InsertedOnce, Inserting
    <2>1. CASE q = r
      BY <1>2, <2>1 DEF Inserting
    <2>2. CASE q # r
      BY <1>2, <2>2 DEF MigrationInv, InsertedOnce, Inserting
    <2>3. QED
      BY <2>1, <2>2
  <1>10. SchemaComesFirst'
    BY <1>2 DEF MigrationInv, SchemaComesFirst
  <1>11. QED
    BY <1>3, <1>4, <1>5, <1>6, <1>7, <1>8, <1>9, <1>10 DEF MigrationInv

(* Runs that leave the insert, or stay out of it, while no version is      *)
(* recorded leave the other inserts alone.                                 *)
LEMMA InsertsOfOthersStay ==
    ASSUME InsertedOnce, NEW r \in Runners, UNCHANGED recorded,
           \A q \in Runners : q # r => run'[q] = run[q],
           run'[r].phase # "commit"
    PROVE  InsertedOnce'
  <1> SUFFICES ASSUME NEW q \in Runners, run'[q].phase = "commit"
               PROVE  /\ run'[q].version \notin recorded'
                      /\ Inserting(run[q].version)' = {q}
    BY DEF InsertedOnce, Inserting
  <1>1. q # r /\ run'[q] = run[q] /\ run[q].phase = "commit"
    OBVIOUS
  <1>2. run[q].version \notin recorded /\ Inserting(run[q].version) = {q}
    BY <1>1 DEF InsertedOnce
  <1>3. QED
    BY <1>1, <1>2 DEF Inserting

(* Nothing is recorded and nobody runs at first.                           *)
LEMMA InitMigrationInv ==
    ASSUME MigrationAssumption, MigrationInit PROVE MigrationInv
  <1>1. Fresh \in Locals
    BY DEF Fresh, Locals, Phases, MigrationAssumption
  <1>2. \A r \in Runners :
            run[r] = Fresh /\ run[r].phase = "idle" /\ run[r].already = {}
    BY DEF MigrationInit, Fresh
  <1>3. MigrationTypeOK
    BY <1>1, <1>2 DEF MigrationInit, MigrationTypeOK, MigrationAssumption
  <1>4. AppliedOnceInOrder
    BY DEF MigrationInit, AppliedOnceInOrder
  <1>5. ListsAreBehind
    BY <1>2 DEF ListsAreBehind
  <1>6. QED
    BY <1>2, <1>3, <1>4, <1>5
       DEF MigrationInv, PrerequisitesApplied, SuccessIsUpToDate,
           TransactionsAreDiscovered, InTransaction, InsertedOnce,
           SchemaComesFirst

(* A new run begins with an empty list.                                    *)
LEMMA StartKeepsInv ==
    ASSUME MigrationInv, MigrationAssumption, NEW r \in Runners, Start(r)
    PROVE  MigrationInv'
  <1>1. [Fresh EXCEPT !.phase = "schema?"] \in Locals
    BY DEF Fresh, Locals, Phases, MigrationAssumption
  <1>2. run' \in [Runners -> Locals]
    BY <1>1 DEF Start, MigrationInv, MigrationTypeOK
  <1>3. /\ \A q \in Runners : q # r => run'[q] = run[q]
        /\ run'[r].phase = "schema?"
        /\ run'[r].already = {}
    BY DEF Start, Fresh, MigrationInv, MigrationTypeOK
  <1>4. MigrationTypeOK'
    BY <1>2, <1>3 DEF Start, MigrationInv, MigrationTypeOK
  <1>5. InsertedOnce'
    BY <1>3, InsertsOfOthersStay DEF Start, MigrationInv
  <1>6. QED
    BY <1>3, <1>4, <1>5
       DEF Start, MigrationInv, AppliedOnceInOrder, PrerequisitesApplied,
           SuccessIsUpToDate, ListsAreBehind, TransactionsAreDiscovered,
           InTransaction, SchemaComesFirst

(* The list a runner reads is what is recorded at that time.               *)
LEMMA ReadKeepsInv ==
    ASSUME MigrationInv, MigrationAssumption, NEW r \in Runners,
           AlreadyApplied(r)
    PROVE  MigrationInv'
  <1>1. [run[r] EXCEPT !.already = recorded, !.phase = "next"] \in Locals
    BY DEF MigrationInv, MigrationTypeOK, Locals, Phases
  <1>2. run' \in [Runners -> Locals]
    BY <1>1 DEF AlreadyApplied, MigrationInv, MigrationTypeOK
  <1>3. /\ \A q \in Runners : q # r => run'[q] = run[q]
        /\ run'[r].phase = "next"
        /\ run'[r].already = recorded
    BY DEF AlreadyApplied, MigrationInv, MigrationTypeOK, Locals
  <1>4. MigrationTypeOK'
    BY <1>2, <1>3 DEF AlreadyApplied, MigrationInv, MigrationTypeOK
  <1>5. InsertedOnce'
    BY <1>3, InsertsOfOthersStay DEF AlreadyApplied, MigrationInv
  <1>6. QED
    BY <1>3, <1>4, <1>5
       DEF AlreadyApplied, MigrationInv, AppliedOnceInOrder,
           PrerequisitesApplied, SuccessIsUpToDate, ListsAreBehind,
           TransactionsAreDiscovered, InTransaction, SchemaComesFirst

(* The smallest version that is missing from the list has all smaller ones *)
(* in the list.                                                            *)
LEMMA BeginKeepsInv ==
    ASSUME MigrationInv, MigrationAssumption, NEW r \in Runners,
           BeginMigration(r)
    PROVE  MigrationInv'
  <1>1. PICK v \in Pending(r) :
            /\ \A u \in Pending(r) : v <= u
            /\ run' = [run EXCEPT ![r].version = v, ![r].phase = "execute"]
    BY DEF BeginMigration
  <1>2. v \in Versions /\ v \in Discovered(r) /\ v <= Target[r]
    BY <1>1 DEF Pending, Discovered, Versions, MigrationAssumption
  <1>3. [run[r] EXCEPT !.version = v, !.phase = "execute"] \in Locals
    <2>1. run[r] \in Locals /\ v \in 0..Latest
      BY <1>2 DEF MigrationInv, MigrationTypeOK, Versions, MigrationAssumption
    <2>2. QED
      BY <2>1 DEF Locals, Phases
  <1>4. run' \in [Runners -> Locals]
    BY <1>1, <1>3 DEF MigrationInv, MigrationTypeOK
  <1>5. /\ \A q \in Runners : q # r => run'[q] = run[q]
        /\ run'[r].phase = "execute"
        /\ run'[r].version = v
        /\ run'[r].already = run[r].already
    BY <1>1 DEF MigrationInv, MigrationTypeOK, Locals
  <1>6. MigrationTypeOK'
    BY <1>4, <1>5 DEF BeginMigration, MigrationInv, MigrationTypeOK
  <1>7. 1..(v - 1) \subseteq recorded
    <2> SUFFICES ASSUME NEW u \in 1..(v - 1) PROVE u \in recorded
      OBVIOUS
    <2>1. u \in Discovered(r) /\ u <= Target[r] /\ ~(v <= u)
      BY <1>2 DEF Discovered, Versions, MigrationAssumption
    <2>2. u \in run[r].already
      BY <1>1, <2>1 DEF Pending
    <2>3. QED
      BY <2>2 DEF MigrationInv, ListsAreBehind
  <1>8. PrerequisitesApplied'
    BY <1>5, <1>7 DEF BeginMigration, MigrationInv, PrerequisitesApplied
  <1>9. InsertedOnce'
    BY <1>5, InsertsOfOthersStay DEF BeginMigration, MigrationInv
  <1>10. QED
    BY <1>2, <1>5, <1>6, <1>8, <1>9
       DEF BeginMigration, MigrationInv, AppliedOnceInOrder,
           SuccessIsUpToDate, ListsAreBehind, TransactionsAreDiscovered,
           InTransaction, SchemaComesFirst

(* The inserted version is the first one that is not recorded.             *)
LEMMA CommitKeepsInv ==
    ASSUME MigrationInv, MigrationAssumption, NEW r \in Runners,
           CommitMigration(r)
    PROVE  MigrationInv'
  <1> DEFINE v == run[r].version
             n == Len(effects)
  <1>1. /\ run[r] \in Locals
        /\ run[r].phase = "commit"
        /\ v \in Versions
        /\ n \in Nat
    BY DEF CommitMigration, MigrationInv, MigrationTypeOK,
           TransactionsAreDiscovered, InTransaction
  <1>2. v = n + 1
    <2>1. v \notin 1..n /\ 1..(v - 1) \subseteq 1..n
      BY <1>1 DEF MigrationInv, AppliedOnceInOrder, PrerequisitesApplied,
                  InsertedOnce
    <2>2. v \in Nat /\ v >= 1
      BY <1>1 DEF Versions, MigrationAssumption
    <2>3. CASE v > n + 1
      <3>1. n + 1 \in 1..(v - 1)
        BY <1>1, <2>2, <2>3
      <3>2. QED
        BY <1>1, <2>1, <3>1
    <2>4. QED
      BY <1>1, <2>1, <2>2, <2>3
  <1>3. [run[r] EXCEPT !.already = @ \cup {v}, !.phase = "next"] \in Locals
    BY <1>1 DEF Locals, Phases
  <1>4. run' \in [Runners -> Locals]
    BY <1>3 DEF CommitMigration, MigrationInv, MigrationTypeOK
  <1>5. /\ \A q \in Runners : q # r => run'[q] = run[q]
        /\ run'[r].phase = "next"
        /\ run'[r].already = run[r].already \cup {v}
    BY <1>1 DEF CommitMigration, MigrationInv, MigrationTypeOK, Locals
  <1>6. /\ effects' = Append(effects, v)
        /\ recorded' = recorded \cup {v}
        /\ effects' \in Seq(Versions)
        /\ Len(effects') = n + 1
    BY <1>1 DEF CommitMigration, MigrationInv, MigrationTypeOK
  <1>7. MigrationTypeOK'
    BY <1>1, <1>4, <1>5, <1>6 DEF CommitMigration, MigrationInv,
                                  MigrationTypeOK
  <1>8. AppliedOnceInOrder'
    <2>1. \A i \in 1..(n + 1) : effects'[i] = i
      BY <1>1, <1>2, <1>6
         DEF MigrationInv, AppliedOnceInOrder, MigrationTypeOK
    <2>2. recorded' = 1..(n + 1)
      BY <1>1, <1>2, <1>6 DEF MigrationInv, AppliedOnceInOrder
    <2>3. QED
      BY <1>6, <2>1, <2>2 DEF AppliedOnceInOrder
  <1>9. InsertedOnce'
    <2> SUFFICES ASSUME NEW q \in Runners, run'[q].phase = "commit"
                 PROVE  /\ run'[q].version \notin recorded'
                        /\ Inserting(run[q].version)' = {q}
      BY DEF InsertedOnce, Inserting
    <2>1. q # r /\ run'[q] = run[q] /\ run[q].phase = "commit"
      BY <1>5
    <2>2. run[q].version \notin recorded /\ Inserting(run[q].version) = {q}
      BY <2>1 DEF MigrationInv, InsertedOnce
    <2>3. run[q].version # v
      BY <1>1, <2>1, <2>2 DEF Inserting
    <2>4. QED
      BY <1>5, <1>6, <2>1, <2>2, <2>3 DEF Inserting
  <1>10. ListsAreBehind'
    BY <1>5, <1>6 DEF MigrationInv, ListsAreBehind
  <1>11. PrerequisitesApplied' /\ SuccessIsUpToDate'
    BY <1>5, <1>6 DEF MigrationInv, PrerequisitesApplied, SuccessIsUpToDate,
                      Discovered
  <1>12. TransactionsAreDiscovered'
    BY <1>5 DEF MigrationInv, TransactionsAreDiscovered, InTransaction
  <1>13. SchemaComesFirst'
    BY <1>5 DEF CommitMigration, MigrationInv, SchemaComesFirst
  <1>14. QED
    BY <1>7, <1>8, <1>9, <1>10, <1>11, <1>12, <1>13 DEF MigrationInv

(* Every other step moves one run.                                         *)
LEMMA RunKeepsInv ==
    ASSUME MigrationInv, MigrationAssumption, NEW r \in Runners,
           ApplyMigrations(r)
    PROVE  MigrationInv'
  <1> USE DEF Phases, InTransaction
  <1>0. run[r].phase \in Phases /\ bookkeeping \subseteq Objects
    BY LocalsTyped DEF MigrationInv, MigrationTypeOK, Locals
  <1>t. failures \in 0..MaxFailures
    BY DEF MigrationInv, MigrationTypeOK
  <1>1. CASE EnsureBookkeepingTable(r)
    <2>1. CASE LookFor(r, "schema", "schema?", "schema", "table?")
      <3>1. CASE "schema" \in bookkeeping
        BY <1>0, <1>t, <2>1, <3>1, MovingKeepsInv DEF LookFor
      <3>2. CASE "schema" \notin bookkeeping
        BY <1>0, <1>t, <2>1, <3>2, MovingKeepsInv DEF LookFor
      <3>3. QED
        BY <3>1, <3>2
    <2>2. CASE CreateObject(r, "schema", "schema", "table?")
      <3>1. CASE "schema" \in bookkeeping
        BY <1>0, <1>t, <2>2, <3>1, MovingKeepsInv DEF CreateObject, Objects
      <3>2. CASE "schema" \notin bookkeeping
        BY <1>0, <1>t, <2>2, <3>2, MovingKeepsInv DEF CreateObject, Objects
      <3>3. QED
        BY <3>1, <3>2
    <2>3. CASE LookFor(r, "table", "table?", "table", "read")
      <3>0. "schema" \in bookkeeping
        BY <2>3 DEF LookFor, MigrationInv, SchemaComesFirst
      <3>1. CASE "table" \in bookkeeping
        <4>1. bookkeeping = Objects
          BY <1>0, <3>0, <3>1 DEF Objects
        <4>2. QED
          BY <1>0, <1>t, <2>3, <3>1, <4>1, MovingKeepsInv DEF LookFor
      <3>2. CASE "table" \notin bookkeeping
        BY <1>0, <1>t, <2>3, <3>0, <3>2, MovingKeepsInv DEF LookFor
      <3>3. QED
        BY <3>1, <3>2
    <2>4. CASE CreateObject(r, "table", "table", "read")
      <3>0. "schema" \in bookkeeping
        BY <2>4 DEF CreateObject, MigrationInv, SchemaComesFirst
      <3>1. CASE "table" \in bookkeeping
        BY <1>0, <1>t, <2>4, <3>1, MovingKeepsInv DEF CreateObject, Objects
      <3>2. CASE "table" \notin bookkeeping
        <4>1. bookkeeping' = Objects
          BY <1>0, <2>4, <3>0 DEF CreateObject, Objects
        <4>2. QED
          BY <1>0, <1>t, <2>4, <3>2, <4>1, MovingKeepsInv DEF CreateObject
      <3>3. QED
        BY <3>1, <3>2
    <2>5. QED
      BY <1>1, <2>1, <2>2, <2>3, <2>4 DEF EnsureBookkeepingTable
  <1>2. CASE ExecuteSql(r)
    BY <1>0, <1>t, <1>2, MovingKeepsInv
       DEF ExecuteSql, MigrationInv, MigrationTypeOK
  <1>3. CASE InsertVersion(r)
    BY <1>0, <1>t, <1>3, MovingKeepsInv
       DEF InsertVersion, MigrationInv, MigrationTypeOK
  <1>4. CASE Return(r)
    BY <1>0, <1>t, <1>4, MovingKeepsInv DEF Return
  <1>5. QED
    BY <1>1, <1>2, <1>3, <1>4, ReadKeepsInv, BeginKeepsInv, CommitKeepsInv
       DEF ApplyMigrations

(* A rollback leaves nothing behind.                                       *)
LEMMA FailKeepsInv ==
    ASSUME MigrationInv, MigrationAssumption, NEW r \in Runners, Fail(r)
    PROVE  MigrationInv'
  <1>1. failures' \in 0..MaxFailures /\ bookkeeping \subseteq Objects
    BY DEF Fail, MigrationInv, MigrationTypeOK, MigrationAssumption
  <1>2. QED
    BY <1>1, MovingKeepsInv DEF Fail, Phases

(* The inductive invariant, for every overlap of runners.                  *)
THEOREM MigrationInvariant == MigrationSpec => []MigrationInv
  <1>1. MigrationInit => MigrationInv
    BY MigrationAssumption, InitMigrationInv
  <1>2. MigrationInv /\ [MigrationNext]_migrationVars => MigrationInv'
    <2> SUFFICES ASSUME MigrationInv, [MigrationNext]_migrationVars
                 PROVE  MigrationInv'
      OBVIOUS
    <2>1. CASE MigrationNext
      BY <2>1, MigrationAssumption, StartKeepsInv, RunKeepsInv, FailKeepsInv
         DEF MigrationNext
    <2>2. CASE UNCHANGED migrationVars
      BY <2>2 DEF migrationVars, MigrationInv, MigrationTypeOK,
                  AppliedOnceInOrder, PrerequisitesApplied,
                  SuccessIsUpToDate, ListsAreBehind, Discovered,
                  TransactionsAreDiscovered, InTransaction, InsertedOnce,
                  Inserting, SchemaComesFirst
    <2>3. QED
      BY <2>1, <2>2
  <1>3. QED
    BY <1>1, <1>2, PTL DEF MigrationSpec

(* Every reachable state of the runners is well typed.                     *)
THEOREM MigrationTypes == MigrationSpec => []MigrationTypeOK
  BY MigrationInvariant, PTL DEF MigrationInv

(* Overlapping and dying runs commit each migration once and in order, and *)
(* the version table says exactly what is committed.                       *)
THEOREM MigrationsApplyOnceInOrder == MigrationSpec => []AppliedOnceInOrder
  BY MigrationInvariant, PTL DEF MigrationInv

(* No migration runs before the ones it builds on are committed.           *)
THEOREM MigrationsBuildOnCommitted == MigrationSpec => []PrerequisitesApplied
  BY MigrationInvariant, PTL DEF MigrationInv

(* A run that returns leaves the schema as new as its files and target.    *)
THEOREM SuccessMeansUpToDate == MigrationSpec => []SuccessIsUpToDate
  BY MigrationInvariant, PTL DEF MigrationInv
=============================================================================
