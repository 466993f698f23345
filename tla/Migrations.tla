----------------------------- MODULE Migrations -----------------------------
(***************************************************************************)
(* mesa-ducklake migrate against Postgres: any number of runners, started  *)
(* at any time from checkouts of different age and with different targets, *)
(* bring the schema up to date.                                            *)
(*                                                                         *)
(* Outside the source: Postgres.  CREATE ... IF NOT EXISTS looks first and *)
(* creates afterwards, so it raises when somebody else created the object  *)
(* in between; an INSERT of a key that an open transaction has inserted    *)
(* waits for that transaction.                                             *)
(***************************************************************************)
EXTENDS Naturals, Sequences

CONSTANTS
    Runners,
    Latest,        \* the newest migration of the repository
    Checkout,      \* [Runners -> the newest migration file the runner has]
    Target,        \* [Runners -> --target; Latest when there is none]
    MaxFailures    \* bound on runs that are killed or whose SQL fails

Versions == 1..Latest

(* Migration files are numbered from 1 and frozen once committed, so a     *)
(* checkout holds those up to some number.                                 *)
ASSUME MigrationAssumption ==
    /\ Latest \in Nat
    /\ Checkout \in [Runners -> 0..Latest]
    /\ Target \in [Runners -> Nat]
    /\ MaxFailures \in Nat

VARIABLES
    bookkeeping,   \* which of the schema and its version table exist
    recorded,      \* the committed rows of mesa.schema_versions
    effects,       \* the versions whose DDL was committed, in that order
    run,           \* the locals of each runner's latest run
    failures       \* how many runs were killed or had their SQL fail

migrationVars == <<bookkeeping, recorded, effects, run, failures>>

Objects == {"schema", "table"}
Phases == {"idle", "schema?", "schema", "table?", "table", "read",
           "next", "execute", "insert", "commit", "succeeded", "raised"}

(* already is the runner's copy of recorded, version the migration whose   *)
(* transaction is open.                                                    *)
Locals == [phase : Phases, already : SUBSET Versions, version : 0..Latest]
Fresh == [phase |-> "idle", already |-> {}, version |-> 0]

MigrationInit ==
    /\ bookkeeping = {}
    /\ recorded = {}
    /\ effects = <<>>
    /\ run = [r \in Runners |-> Fresh]
    /\ failures = 0

Discovered(r) == 1..Checkout[r]

(* Mutant: the target is exclusive.                                        *)
PendingBelowTarget(r) ==
    {v \in Discovered(r) : v \notin run[r].already /\ v < Target[r]}

(* What the loop of r still has to do: it skips what it read as applied    *)
(* and stops at the first version above the target.                        *)
Pending(r) ==
    {v \in Discovered(r) : v \notin run[r].already /\ v <= Target[r]}

EnterPhase(r, phase) == run' = [run EXCEPT ![r].phase = phase]

-----------------------------------------------------------------------------
(* One invocation                                                          *)

Start(r) ==
    /\ run[r].phase \in {"idle", "succeeded", "raised"}
    /\ run' = [run EXCEPT ![r] = [Fresh EXCEPT !.phase = "schema?"]]
    /\ UNCHANGED <<bookkeeping, recorded, effects, failures>>

(* CREATE ... IF NOT EXISTS finds the object, or does not.                 *)
LookFor(r, object, question, create, next) ==
    /\ run[r].phase = question
    /\ EnterPhase(r, IF object \in bookkeeping THEN next ELSE create)
    /\ UNCHANGED <<bookkeeping, recorded, effects, failures>>

(* Mutant: one runner's bootstrap is taken to be done by another.          *)
CreateObjectOrSkip(r, object, create, next) ==
    /\ run[r].phase = create
    /\ EnterPhase(r, next)
    /\ bookkeeping' \in {bookkeeping, bookkeeping \cup {object}}
    /\ UNCHANGED <<recorded, effects, failures>>

(* ... and creates it, autocommitted, unless it exists by now.             *)
CreateObject(r, object, create, next) ==
    /\ run[r].phase = create
    /\ EnterPhase(r, IF object \in bookkeeping THEN "raised" ELSE next)
    /\ bookkeeping' = bookkeeping \cup {object}
    /\ UNCHANGED <<recorded, effects, failures>>

EnsureBookkeepingTable(r) ==
    \/ LookFor(r, "schema", "schema?", "schema", "table?")
    \/ CreateObject(r, "schema", "schema", "table?")
    \/ LookFor(r, "table", "table?", "table", "read")
    \/ CreateObject(r, "table", "table", "read")

AlreadyApplied(r) ==
    /\ run[r].phase = "read"
    /\ run' = [run EXCEPT ![r].already = recorded, ![r].phase = "next"]
    /\ UNCHANGED <<bookkeeping, recorded, effects, failures>>

(* Mutant: the files are taken in no particular order.                     *)
BeginAnyMigration(r) ==
    /\ run[r].phase = "next"
    /\ \E v \in Pending(r) :
        run' = [run EXCEPT ![r].version = v, ![r].phase = "execute"]
    /\ UNCHANGED <<bookkeeping, recorded, effects, failures>>

(* The loop opens a transaction for the next version to apply.             *)
BeginMigration(r) ==
    /\ run[r].phase = "next"
    /\ \E v \in Pending(r) :
        /\ \A u \in Pending(r) : v <= u
        /\ run' = [run EXCEPT ![r].version = v, ![r].phase = "execute"]
    /\ UNCHANGED <<bookkeeping, recorded, effects, failures>>

(* Mutant: the COMMIT inside the file is left there and ends it.           *)
ExecuteSqlUnstripped(r) ==
    /\ run[r].phase = "execute"
    /\ EnterPhase(r, "insert")
    /\ effects' = Append(effects, run[r].version)
    /\ UNCHANGED <<bookkeeping, recorded, failures>>

(* The statements of the file; their effect is the transaction's own.      *)
ExecuteSql(r) ==
    /\ run[r].phase = "execute"
    /\ EnterPhase(r, "insert")
    /\ UNCHANGED <<bookkeeping, recorded, effects, failures>>

Inserting(v) == {r \in Runners : run[r].phase = "commit" /\ run[r].version = v}

(* Mutant: a taken key is not an error, the runner tries again.            *)
InsertVersionOrRetry(r) ==
    /\ run[r].phase = "insert"
    /\ Inserting(run[r].version) = {}
    /\ EnterPhase(r, IF run[r].version \in recorded THEN "execute" ELSE "commit")
    /\ UNCHANGED <<bookkeeping, recorded, effects, failures>>

(* version is the primary key: a row that is there makes the run raise and *)
(* the transaction roll back, an uncommitted one makes it wait.            *)
InsertVersion(r) ==
    /\ run[r].phase = "insert"
    /\ Inserting(run[r].version) = {}
    /\ EnterPhase(r, IF run[r].version \in recorded THEN "raised" ELSE "commit")
    /\ UNCHANGED <<bookkeeping, recorded, effects, failures>>

CommitMigration(r) ==
    /\ run[r].phase = "commit"
    /\ recorded' = recorded \cup {run[r].version}
    /\ effects' = Append(effects, run[r].version)
    /\ run' = [run EXCEPT ![r].already = @ \cup {run[r].version},
                          ![r].phase = "next"]
    /\ UNCHANGED <<bookkeeping, failures>>

Return(r) ==
    /\ run[r].phase = "next"
    /\ Pending(r) = {}
    /\ EnterPhase(r, "succeeded")
    /\ UNCHANGED <<bookkeeping, recorded, effects, failures>>

(* The process is killed, the connection breaks or a statement fails: an   *)
(* open transaction is rolled back, and the operator may start again.      *)
Fail(r) ==
    /\ run[r].phase \notin {"idle", "succeeded", "raised"}
    /\ failures < MaxFailures
    /\ failures' = failures + 1
    /\ EnterPhase(r, "raised")
    /\ UNCHANGED <<bookkeeping, recorded, effects>>

ApplyMigrations(r) ==
    \/ EnsureBookkeepingTable(r)
    \/ AlreadyApplied(r)
    \/ BeginMigration(r)
    \/ ExecuteSql(r)
    \/ InsertVersion(r)
    \/ CommitMigration(r)
    \/ Return(r)

MigrationNext == \E r \in Runners : Start(r) \/ ApplyMigrations(r) \/ Fail(r)

MigrationSpec == MigrationInit /\ [][MigrationNext]_migrationVars

(* A runner goes on until it returns or raises, and is started again.      *)
FairMigrationSpec ==
    /\ MigrationSpec
    /\ \A r \in Runners : WF_migrationVars(ApplyMigrations(r))
    /\ \A r \in Runners : WF_migrationVars(Start(r))
-----------------------------------------------------------------------------
(* Properties                                                              *)

(* Types; a runner past its read has found or created the version table.   *)
MigrationTypeOK ==
    /\ bookkeeping \subseteq Objects
    /\ recorded \subseteq Versions
    /\ effects \in Seq(Versions)
    /\ run \in [Runners -> Locals]
    /\ failures \in 0..MaxFailures
    /\ \A r \in Runners :
        run[r].phase \in {"read", "next", "execute", "insert", "commit"}
            => bookkeeping = Objects

(* Whatever runners overlap or die, the DDL of the migrations is committed *)
(* once each and in order, and the version table lists exactly those:      *)
(* schema.py promises rollback and idempotence per run, and reads what is  *)
(* applied only once.                                                      *)
AppliedOnceInOrder ==
    /\ \A i \in 1..Len(effects) : effects[i] = i
    /\ recorded = 1..Len(effects)

(* The SQL of a migration never runs before those it builds on are         *)
(* committed, also when the runner's list is stale (0002 refers to the     *)
(* tables of 0001).                                                        *)
PrerequisitesApplied ==
    \A r \in Runners :
        run[r].phase \in {"execute", "insert", "commit"}
            => 1..(run[r].version - 1) \subseteq recorded

(* Exit code 0 means that every migration the runner has, up to its        *)
(* target, is applied, although others may have applied them.              *)
SuccessIsUpToDate ==
    \A r \in Runners :
        run[r].phase = "succeeded"
            => \A v \in Discovered(r) : v <= Target[r] => v \in recorded

(* Runs that are repeated end with every migration applied that any runner *)
(* wants: losing the race for a version never leaves a runner stuck.       *)
SchemaCatchesUp ==
    <>[](\A r \in Runners, v \in Versions :
            v <= Checkout[r] /\ v <= Target[r] => v \in recorded)
=============================================================================
