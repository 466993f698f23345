# A verification project for mesa-ducklake

mesa-ducklake keeps the history of iRODS metadata (AVUs). A *snapshot* is one
batch of AVU changes: a row in a metadata catalog (Postgres, a DuckDB file, or
such a file served over Quack) and an immutable Parquet file, written in a
local cache directory and replicated into an iRODS zone. A write-ahead log of
pushes in the catalog lets a recovery task finish what a crash interrupted.

This directory holds TLA+ models of that machinery, TLC configurations that
check them on small instances, and TLAPS proofs for every instance.

## The system

| Component | State it keeps | Operations | What makes it correct |
|---|---|---|---|
| write client (`client.py`) | locals of a call in progress | `record_changes`, `recover_pending_pushes`, read calls | a committed snapshot is durable; a crash anywhere loses nothing that was promised |
| catalog (`catalog.py`, `catalog_duckdb.py`, `catalog_quack.py`) | `mesa.projects`, `mesa.snapshots`, `mesa.pending_pushes` | one autocommitted SQL statement each | every row goes from `pending` to a filename or `failed`, once |
| iRODS sync (`irods_sync.py`) | none; changes the zone | `push`, `pull`, `ensure_cached`, `recover_pending_pushes` | nothing is committed unless the zone has it; the log drains |
| cache (`cache.py`) | files of a host, with mtimes | `evict_if_over` | eviction removes only what can be rebuilt |
| lake store (`lake.py`, `queries.py`, `time_travel.py`) | Parquet files of a project | `write_changes`, effective AVUs as of a time, history, diff | a read answers from exactly the committed snapshots |
| migrations (`schema.py`, `migrations/`) | `mesa.schema_versions` | `apply_migrations` | each migration applied once, in order, also by concurrent runners |
| command line (`cli.py`) | none | `record`, `recover`, `migrate`, `serve-catalog` | a change goes to the nearest enclosing project |
| iRODS rules (`irods-rules/`) | none | mirrors iCAT metadata operations into `record` | the history follows the iCAT |
| backup (`deploy/backup-pg.sh`) | dump files | dump, prune, restore by hand | a restored catalog agrees with the zone |

Writers, recoverers and readers run in different processes, on one or several
hosts. They share the catalog and the zone; processes of one host share its
cache directory. They never talk to each other and take no lock across
statements, so the only atomicity is that of one SQL statement, one file
operation or one iRODS call.
The hard behaviours follow from that: any interleaving of statements, a crash
between any two, a Parquet half written, an upload that took effect although
the client saw an error, an upload that damaged the bytes, recovery working
from rows it read a while ago, and eviction that knows file ages only. Around
that core, any number of migration runners meet in one database, the threads of
a Quack client meet at one connection, rule hooks start command lines that
overlap and outlive them, and a restore takes the catalog, but not the zone,
back in time.

## Modules

| Module | Role |
|---|---|
| `Catalog` | the catalog tables and one operator per SQL statement |
| `WriteProtocol` | writers and recoverers over catalog, caches and zone; one action per statement of `record_changes`, `push`, `recover_pending_pushes` and `evict_if_over` |
| `SnapshotLedger` | abstract specification: what the write path promises, with no rows, log, cache or process |
| `WriteRefinement` | the mapping under which `WriteProtocol` implements `SnapshotLedger` |
| `ReadPath` | readers beside the write path: `ensure_cached`, `pull`, and which files a query takes |
| `CatalogRestore` | dumps and restores of the catalog beside the write path, with ids that are handed out again |
| `RestorableLedger` | abstract specification: `SnapshotLedger` with a copy that it can go back to |
| `RestoreRefinement` | the mapping under which `CatalogRestore` implements `RestorableLedger` |
| `AvuQueries` | the effective-AVU query as operators on rows, with either row of a tie first |
| `AvuHistory` | that query and the diff over change events recorded late, in batches, in any order, twice |
| `RuleMirror` | rule hooks and their command lines: the walk to the project, the clock, the record; clients that register projects meanwhile |
| `Migrations` | concurrent runners of `apply_migrations` against Postgres |
| `AtomicStatements` | abstract specification: what every other module takes a catalog statement to be |
| `QuackStore` | the lock, retry and error handling of a Quack catalog, which implements `AtomicStatements` |
| `WriteInvariants`, `WriteProofs` | inductive invariants and the TLAPS proofs of the write path |
| `ReadInvariants`, `ReadProofs` | the same for `ReadPath` |
| `RestoreInvariants`, `RestoreProofs` | the same for `CatalogRestore` |
| `HistoryProofs`, `RuleProofs`, `MigrationProofs`, `QuackProofs` | invariants and proofs of `AvuHistory`, `RuleMirror`, `Migrations`, `QuackStore` |
| `MCWriteProtocol`, `MCWriteRefinement`, `MCReadPath`, `MCCatalogRestore`, `MCAvuHistory`, `MCRuleMirror`, `MCMigrations`, `MCQuackStore` | instances for TLC |

`WriteProtocol` extends `Catalog`; `ReadPath` and `CatalogRestore` extend
`WriteProtocol`. `AvuHistory` and `RuleMirror` share `AvuQueries`. `Migrations`
and `QuackStore` stand below the others: the one makes the tables `Catalog` has
as variables, the other justifies that `Catalog` has one operator per statement.

### State and code

`parquetFile[id]` is the `parquet_file` column: `"none"` (no row), `"pending"`,
`"failed"`, or `"named"` for `snapshot_<id>.parquet`, the only other value the
library writes. `wal`, `createdAt` and `attempts` are `mesa.pending_pushes`;
`createdAt[id]` and `attempts[id]` keep their value when the row is deleted,
which lets properties speak of the past (`Pushed(id)`: the snapshot took the
WAL path) and is invisible to every statement. `cache[h][id]` and `irods[id]`
are the Parquet on a host and in the zone: absent, `partial` (cut short by a
crash during COPY), `whole`, or in the zone `corrupt`.

`pc[p]` is the next statement of process `p`:

| `pc` | Statement |
|---|---|
| `idle` → `create` | `latest_snapshot_id` (client.py:292) |
| `create` | `create_snapshot` (293) |
| `log` | `insert_pending_push` (337) |
| `copy`, `copying` | `write_changes`: the file appears, then is complete (lake.py:187-208) |
| `rollback` | `delete_snapshot`, local-only (client.py:329) |
| `put`, `verify` | the two halves of `push` (irods_sync.py:182-190, 192-210) |
| `flip`, `drain` | `update_snapshot_parquet_file`, `delete_pending_push` |
| `evict` | `evict_if_over` (client.py:353) |
| `scan`, `look`, `giveup`, `bump` | the loop of `recover_pending_pushes` (irods_sync.py:332-384) |

`Abandon` ends a call at any statement. It stands for a killed process and for
every exception the code lets escape; what the statement did before raising is
covered by taking its action first.

A reader's locals are one record, `call[r]`, whose `phase` is its `pc`:

| `phase` | Statement |
|---|---|
| `idle` → `ensure` or `open` | `list_snapshots(limit=1000)` (client.py:186-195); without a session straight to `open` |
| `ensure` | the loop of `ensure_cached`, newest file first: skip what is cached (irods_sync.py:277), or start a `pull` |
| `pulling` | `pull` creates the file at its final name, then completes it (irods_sync.py:228) |
| `open` | the view over the files in the directory (lake.py:212-236) |
| `query`, `answered` | the query; `files` is what the answer was computed from |

`promised` and `disturbed` are history: the snapshots committed when the call
began, and whether since then a pull failed or a file of its host was evicted.
`get_avus_as_of`, `get_history` and `diff` differ only in their query, which is
left out here. A damaged object and a download cut short are both unreadable,
so both are `partial` in a cache, and a query that meets one raises.

`AvuHistory` has the iCAT as its environment: `Change` is an AVU operation,
which the iCAT accepts only if it changes something, stamped with the clock;
`boundAt[t]` is what was bound at the end of time `t`. The clock may stand
still between changes, so rows can tie. `Record` is the outcome
of `record_changes`: any set of changes becomes one snapshot. A caller that does
not learn of the commit (`done = FALSE`) may record the same changes again.

`RuleMirror` has an AVU operation with its hook as one action, `ModifyAvu(h, x,
option)`. `x` is what the arguments of the hook say: a path with a value, or with
an index or wildcards (`Patterns`). What the operation does to the iCAT is its
own matter: `Binds` is what it adds, `gone` what it removes, which for `set` and
`mod` is anything on the path that is replaced, for `rmw` all that match, for `rmi`
the AVU with that index. The hook sees none of this (mesa_avu_change.re:32-35): it
records `x` with the op of its option. The AVUs that an operation removed without
naming them are kept in `unnamed` until an operation names them. The command
line the hook starts goes through `phase`:

| `phase` | Statement |
|---|---|
| `walk` | `find_project_by_path` at `level` of the path (cli.py:111-119); `Chain` is the path and its parents below the root |
| `skipped` | no level has a project: exit code 2 (cli.py:479-494) |
| `found` → `stamped` | `AvuChange` takes `ts` from the clock, as the payload has none (cli.py:509, models.py:83) |
| `stamped` → `created` | `latest_snapshot_id`, which only fills a column, and `create_snapshot` |
| `created` → `written` | `write_changes`, after which reads of that host see the row |
| `written` → `idle` | `update_snapshot_parquet_file` |

`CommandLineEnds` is a kill or any failure at any of them. The hook waits ten
seconds and then kills the wrapper it started, not what the wrapper started; so
hook and command line are not tied to each other, which also covers hooks that
do wait. `known` (the projects when the hook fired), `unnamed` and `last` are
history and decide no step. `last[x]` is about the last operation that named
`x`: its command line, how far that came, the project its record was committed
in, and whether an earlier change of `x` was stamped or numbered after it.

`Migrations` has a runner's `phase`, `already` and `version` (schema.py:162-183).
A `CREATE ... IF NOT EXISTS` is a lookup (`schema?`, `table?`) and a creation,
since Postgres takes no lock between them; `effects` is the DDL that was
committed, in order. `QuackStore` has the phases of one `_run`: waiting for the
lock, `binding` the variables, `sent`, then `answered` or `refused` by the server,
and `sleeping` before the next attempt. `version[r]` counts the writes of a row
that took effect, and `base` is its value when the call began.

`CatalogRestore` gives each row, file and object the number of restores before
the row was inserted (`rowOf`, `fileOf`, `objectOf`), so that two snapshots with
one id are told apart. `Backup` replaces the dump by the tables as they are;
`Restore` ends all calls, loads the dump and, if `CachesLost`, empties the caches.

Simplifications:
- Files have one size, so the byte cap of the cache is a number of files.
  `evict_if_over` runs as one step; an unlink that fails is as if the cap were
  larger, and the exception its unguarded `stat` can raise is `Abandon`.
- Recovery's summary counters, logging and error texts are left out. Its test
  for a missing local file and `put` of a missing file have the same effect,
  `BumpAttempt`, and are `PutRejected`.
- The branch for an orphaned log row and `KeyError` on a missing snapshot are
  unreachable: rows are deleted by local-only writers only, for snapshots that
  were never logged (`InFlightPushIsLogged` checks the second half, that every
  log row has its snapshot). For the same reason the two-statement
  `delete_snapshot` of the DuckDB backend equals the cascading one of Postgres.
- `ListWal` is enabled when the log has rows: a run on an empty log does nothing.
- An unknown checksum algorithm is accepted like a missing checksum; both are
  `ZoneChecksums = FALSE`.
- Ids are never reused, as the sequence guarantees, except in `CatalogRestore`.
- `CatalogRestore` has no readers: a read pulls only objects of committed
  snapshots, and `ReadPath` has what it does to the caches.
- Migration files are numbered from 1 without gaps and a checkout holds those up
  to some number, as in the repository.

External behaviour is modelled from how the code uses it: DuckDB writes COPY
output at the path it is given, complete only when the statement returns
(`AtomicCopy = FALSE`; `TRUE` is the idealisation the code relies on); a `put`
overwrites, may store damaged bytes and may raise after storing. Postgres makes
an INSERT of a key that an open transaction inserted wait for that transaction,
and rolls back what is not committed. A Quack server aborts a statement when
another one committed a write of the same row since it began, and drops the
statement a session is running when that session sends the next
(catalog_quack.py:22-25). The iCAT refuses to add a bound AVU, to remove an
unbound one with `rm` and to remove by index or pattern what is not there, and a
refused operation calls no hook. A `mod` hook is taken to name the new AVU, as
mesa_avu_change.re:41 says. All command lines see one clock.

## Properties

| Property | Meaning |
|---|---|
| `TypeOK` | types, and that a call past `create` has an id |
| `ParentIsSettled` | a parent pointer leads to an older, settled row of the same project |
| `InFlightPushIsLogged` | a pushed snapshot is settled or in the log, and log rows have snapshots |
| `GaveUpOnlyAfterAttempts` | `failed` means at least `MaxAttempts` recorded failures |
| `AttemptsAreBounded` | a push fails at most one time more than `MaxAttempts` allows for each other recovery |
| `CommittedIsDurable` | a committed snapshot of the WAL path is whole in the zone |
| `SettledIsFinal` | a filename or `failed` is never replaced |
| `PendingPushesDrain` | every logged push is eventually settled and leaves the log |
| `ImplementsLedger` | parents, durability and finality as one statement: the protocol implements `SnapshotLedger` |
| `AnswerIsComplete` | a read answers from all snapshots that were committed when it began, unless a pull failed, a file was evicted, or a snapshot was recorded without a session |
| `RemoteAnswerIsSettled` | a host that does not write answers from settled snapshots only |
| `HistoryTypeOK` | types, and that ids are handed out once |
| `TimeTravelIsExact` | when all changes up to `t` are recorded, the query as of `t` shows a triple exactly if iRODS had it at `t`, whichever row of a tie comes first, unless the latest rows of the triple tie in time and disagree |
| `DiffBridges` | a triple's rows in the diff of two snapshots decide what the newer shows of it, unless a row of the older was made after all of them: then the older still stands. No order of recording is assumed |
| `MirrorTypeOK` | types, and that a walk stays below the root |
| `WalkFindsNearest` | a change goes to a project above its path with none nearer among those known when its hook fired, and is skipped only if none of those covered the path |
| `MirrorAgrees` | once the last change that named an AVU is recorded, the history shows it exactly if iRODS has it or lost it to an operation that did not name it, however earlier records overlapped with it, outlived their hook or ended half done, unless one of them was stamped or numbered after it |
| `MigrationTypeOK` | types, and that nobody reads the version table before it exists |
| `AppliedOnceInOrder` | the DDL of each migration is committed once and in order, and the version table says exactly that |
| `PrerequisitesApplied` | no SQL of a migration runs before those below it are committed |
| `SuccessIsUpToDate` | exit code 0 means all migrations up to the target are applied |
| `SchemaCatchesUp` | repeated runs end with every migration some runner wants |
| `StoreTypeOK` | types, and that attempts stay within the limit |
| `NothingSuperseded` | threads of a store never interrupt each other's statements |
| `ConflictMeansProgress` | a statement raises a conflict only if more writes of its row took effect meanwhile than it had retries |
| `StatementsEnd` | every statement ends, although threads take the lock from each other between attempts, conflicts recur and connections break |
| `ImplementsAtomicStatements` | a statement takes effect once if it returns, at most once if it raises |
| `RestoreTypeOK` | types, and that the sequence never falls behind the dump |
| `CommittedHoldsItsChanges` | a committed snapshot has its own Parquet in the zone, not that of an earlier snapshot with its id |
| `DumpedCommitsAreKept` | what the last dump calls committed is in the zone as it was, so it can be restored |
| `OutcomesLastUntilRestore` | only a restore takes back a committed name or 'failed' |
| `ImplementsRestorableLedger` | a restore takes the ledger back to its copy, and nothing committed there has lost its data |

## Runs

Three writers or recoverers are the least that show the races between a writer
and a recovery, two recoveries, and two writers; three snapshots the least in
which a parent has a parent, or eviction (cap of one file) can choose.
`MaxAttempts` is 1 or 2 where the code has 5: it is compared with `>=` and
counted by one, so 2 has every case (none, some, enough). `DrainLimit` 1 below
the number of rows is what makes the FIFO limit matter. `MaxSnapshots` bounds
the sequence; `ReadParent` starts a call only when an id is left for it, so the
bound cuts no call short. When ids run out and nothing is in progress the
instance stops, hence `CHECK_DEADLOCK FALSE`.

| Run | Instance | Shows |
|---|---|---|
| `write_exclusive` | 2 projects, a pushing and a local-only writer, a recovery that runs alone, one host, cap 1, atomic COPY, checksums | durability, finality and the refinement hold under crashes, damaged and half-acknowledged uploads, rollbacks and eviction |
| `write_overlap` | 1 + 1 writers, 2 recoveries on 2 hosts, everything overlaps, torn COPY, no checksums | the four guarantees that need no hypothesis |
| `write_drain` | 1 writer, 1 recovery overlapping it, limit 1, 2 attempts | the log drains under fairness |
| `read_shared` | 1 + 1 writers, 1 recovery and a reader on one host, cap 1 | reads are complete though their files are evicted and pulled back; their pulls do not endanger commits |
| `read_remote` | 1 + 1 writers and an overlapping recovery on one host, a reader on another | nothing in flight reaches the reader |
| `catalog_restore` | 1 + 1 writers, 1 recovery that runs alone, one host, cap 1, 2 snapshots, any number of dumps, 1 restore that empties the caches | ids handed out again do no harm to commits, parents, the log or the dump; the whole is a ledger that can go back |
| `rule_mirror` | 2 command lines, a project path in another, 2 values and 1 index on each path, 3 operations of any option, 2 clock readings, 3 snapshots, projects registered at any time | records go to the nearest project known and tell what iRODS has or lost unnamed |
| `quack_store` | 2 threads on one store, 1 on another, one row, 1 retry, 5 statements, broken connections | statements are atomic, undisturbed, and end |
| `migrations` | 3 runners, one with an old checkout and one with a lower target, 3 migrations, 1 failure | the schema advances in order; repeated runs finish |
| `avu_history` | 1 attribute, 2 values, 4 changes at 3 clock readings, 3 snapshots; late, batched, reordered and repeated recording | time travel and diffs, also with ties |

In the read runs `ReadLimit` is `MaxSnapshots`, as 1000 is meant to be; when a
project has more snapshots than the limit, older ones are not pulled, and
`AnswersAreComplete` below names that hypothesis. `PullsMayFail` lets every pull
raise. With four changes at three clock readings a triple can be added, removed
and added again in one reading, which ties rows of one or of two snapshots, while
another triple changes. In `rule_mirror` two values
on one path let `set` and `mod` replace, and let `rmw` take away several AVUs at
once; three operations let one name an AVU that another took away.
The disagreements that `MirrorAgrees` and `TimeTravelIsExact` leave out do occur
in these instances: TLC finds each property violated without its exception.

The newer instances are as small as their races allow. Two command lines are the
least that overlap, and two levels the least in which a nearer project can
appear under a walk. A conflict needs two stores, an interrupt two threads of
one, and the limit of retries is reached with one retry as with three, at the
cost of one more writer's statement each. Three runners make one lose a
race against each of the others, and three migrations give a stale list more
than one version to be wrong about. One restore is enough for an id to be used
twice; two restores were also checked once, without error. Symmetry is used for
the command lines of `rule_mirror` and the values of it and of `avu_history`,
which have no liveness property.

Two runs expect a violation. Each states what a document of the repository says
and shows a behaviour of the code that contradicts it:

| Run | Statement | Behaviour TLC finds |
|---|---|---|
| `recovery_uncommits` | "A committed filename is never changed" (docs/dev/schema.md:90) | recovery reads the row as pending, the writer commits, recovery writes `failed` |
| `torn_copy_committed` | a row is pending "until the Parquet is durable" (docs/dev/architecture.md:147) | crash during COPY; recovery uploads the torn file, which matches its own checksum |

Not runs, but limits that follow from the models and that a reader of the docs
should know:

- Two writers may commit with the same parent, so the chain of
  `parent_snapshot` (docs/dev/schema.md:78) can fork.
- Reads take the files they find. A read on the writer's host sees a snapshot
  that is still pending (against docs/dev/architecture.md:254), and the Parquet
  of a failed one, which stays in the cache (against docs/dev/schema.md:88).
- A snapshot recorded without a session ends `ensure_cached` on every other
  host, and older ones are silently missing from the answer (client.py:204-206
  expects an error). A pull that dies leaves a cut-short file that no later read
  replaces (against cache.py:30-32). `AnswerIsComplete` excludes both.
- Eviction knows no snapshot that is not pushed yet, so it can take the only
  copy (against cache.py:60-62); the push then fails and is given up, which is
  why `CommittedIsDurable` still holds. It also takes local-only snapshots.
- A recovery that overlaps a writer can push a snapshot again after the writer
  committed it; if that upload is damaged, a committed snapshot has no whole
  Parquet in the zone until a later push. With `OverlapAllowed`, TLC finds
  `CommittedIsDurable` violated this way even with atomic COPY and checksums.
- Two changes of one triple at one clock reading are not ordered by what the rows
  say. `ORDER BY ts DESC, snapshot_id DESC` takes the one that was recorded last,
  and either if both are in one snapshot, although docs/dev/queries.md:109-111
  calls it a total order: the exclusion (`Ambiguous`) in `TimeTravelIsExact`.
- The rule's payload has no `ts`. Two changes of one AVU that are recorded at
  once are stamped in the order of their command lines, and one that outlives
  its hook may be stamped after a later change, so the history can end up with
  the wrong one as the last: the exclusion (`overtaken`) in `MirrorAgrees`.
- A command line that fails or is killed loses its change, and the output that
  would tell is captured and dropped (mesa_avu_change.py:34-45), although "every
  AVU change is auditable" (mesa_avu_change.re:13). `MirrorAgrees` therefore
  speaks of AVUs whose last change was recorded.
- What `set` and `mod` replace and what `rmi` and `rmw` remove is not named by the
  hook (for `mod`, mesa_avu_change.re:41-43 expects iRODS to report the implicit
  delete). The history goes on showing these AVUs until an operation names them,
  and has a `delete` row of an index or a pattern instead, although
  mesa_avu_change.re:33-35 records it "so the snapshot history stays consistent".
  `MirrorAgrees` says so openly: what it requires the history to show is
  `bound \cup unnamed`. With `bound` alone TLC finds it violated.
- A nested project that is registered later splits the history of the paths
  below it: their earlier rows stay with the outer project.
- Two runners that bootstrap at once can make one of them raise (schema.py:103
  calls it safe); nothing is lost and the next run succeeds (`SchemaCatchesUp`).
- A restore beside a cache that was kept, which docs/deploy/backup.md:106 allows
  when only the database was lost, can let recovery push the file an earlier
  snapshot left under the same id: with `CachesLost = FALSE`, TLC finds
  `CommittedHoldsItsChanges` violated. And pushes that the dump has as pending
  but that were committed after it are given up as `failed` once the caches are
  gone, although their objects are in the zone.

Known to the maintainers and not repeated as findings
(docs/dev/architecture-review-2026-09.md): zones without checksums (D4), the
limit of 1000 (D7), `record` being local-only (D13) and failed rows in listings
(D14).

The two violations are why `CommittedIsDurable` and `SettledIsFinal` are stated for
recovery that runs alone with atomic COPY. Nothing in the code enforces that;
an operator gets it by running `recover` on service start, before writers.

## Fairness

`PendingPushesDrain` is checked under `FairSpec`. A call that started ends: no
statement blocks for ever, and `Abandon` is always a way to end. Recovery is
run again and again, as docs/user/cli.md:199 tells operators ("on service
start, after an iRODS outage"). Strong fairness of each statement of recovery
says that not every run of it dies at that same statement; weak fairness would
not do, because a crash disables the statement. Nothing is assumed of the
pushes themselves: `PutReturns` is satisfied by a put that is rejected each
time, and then the attempts run out. The run overlaps recovery with the writer.

`SchemaCatchesUp` assumes `FairMigrationSpec`: a runner that has started goes on
until it returns or raises, and the operator runs it again, since migrate is
idempotent (cli.py:225). Postgres ends the waits: the transaction that is waited
for belongs to a runner that goes on too, or is rolled back with it. `MaxFailures`
bounds kills, without which a schema may never be finished; losing a race is not
counted as one, and raises as often as it happens.

`StatementsEnd` assumes `FairStoreSpec`: a thread that can take its next step
takes it, the server answers or refuses, and a sleep ends. The lock is not fair;
weak fairness of `TakeLock` is enough because `MaxCalls` is finite, and it is
what a lock gives that is not contended for ever. Nothing is assumed of broken
connections. The other runs check safety only.

## Proofs

`WriteProofs` proves for all values of the constants (any number of projects,
snapshots, processes, hosts, attempts), from the assumptions on constants that
`Catalog` and `WriteProtocol` name:

- `TypeCorrect`, `CoreInvariant`, `PushesAreFindable`, `ParentsAreSettled` and
  `FailedAfterAttempts`, with no hypothesis on overlap, COPY or checksums, and
  `AttemptsStayBounded` for every finite number of recoveries;
- `CommittedStaysDurable`, `OutcomesAreFinal` and `ProtocolImplementsLedger`,
  assuming `Exclusive`: recovery runs alone, COPY is atomic, the zone reports
  checksums. `recovery_uncommits` and `torn_copy_committed` show that the first
  two are needed.

The invariants in `WriteInvariants` are the argument. `CoreInv` strengthens
the three unconditional properties with: ids not handed out leave no trace
(`UnusedIds`), or else a new row could inherit a log entry; a logged snapshot
keeps its row and a row never logged has no attempts (`LoggedRows`); writers
hold distinct ids, and what the catalog knows of each follows from `pc`
(`WriterIds`), so no writer rolls back or commits another's snapshot; a parent
that was read is still settled when it is written (`ParentsRead`), because
settled rows never become pending again; recoverers hold logged snapshots, and
the attempts they listed are at most the true ones (`RecovererRows`), which is
why a stale list never gives up early. `ExclusiveInv` adds that recovery is
alone while it runs, that a torn file in a cache is one that a reader pulled and
so belongs to a settled snapshot (`TornFilesSettled`), and that whoever is about to push, verify, commit or give up a snapshot finds it still pending
(`PushesPending`); then the flip is the only way to `named`, it follows a
matching checksum of a whole file, and nothing touches the object afterwards.

`BoundedInv` counts. A recovery is late for a push if its list shows attempts
left and it has the row to come or in hand (`LateRecoverers`). Once the attempts
are used up nobody becomes late any more, and a late recovery that records one
more failure has thereby left the row behind, so attempts and late recoveries
together do not grow (`OvershootIsPaid`). TLC checks `BoundedInv` on the instance
of `write_overlap`, where two recoveries that listed a row before its only
attempt failed do record two failures.

`ReadProofs` proves, for every set of readers on any hosts and with no
hypothesis on overlap, COPY, checksums or eviction, `RemoteAnswersAreSettled`
and `ReadersStrandNoPush`, and `AnswersAreComplete` assuming `ReadLimit >=
MaxSnapshots`. `ReadInv` adds to `CoreInv` that an object is in the zone before
its snapshot is committed and for good (`PutsPrecedeFlips`), that only pulls
bring files to a host that does not write (`RemoteFilesSettled`), and that what
a call was promised stays settled (`PromisesKept`); `CompleteInv` follows each
promised snapshot from the listing to the cache to the view. The proof of a
step has two halves: whatever others do, a call under way loses nothing or is
marked disturbed (`WaitingCallsKept`), and each step of its own keeps the
promise. `CommittedStaysDurableBesideReads`, `OutcomesAreFinalBesideReads` and
`ReadsLeaveTheLedger` carry the durability and finality of commits and the
refinement of `SnapshotLedger` over to `ReadSpec`, assuming `Exclusive`: a pull may leave a torn file in the cache that pushes read
from, but only of a snapshot that is settled, and those nobody pushes.

`RestoreProofs` proves, for any number of dumps and restores:

- `RestoreCoreInvariant`, `RestoreTypes`, `RestoredParentsAreSettled` and
  `RestoredPushesAreFindable`, with no hypothesis;
- `CommittedStaysDurableAcrossRestores` and `OutcomesLast`, assuming
  `Exclusive`, whether the caches are lost or kept: what is committed is whole in
  the zone, if not always with its own changes, and settled until a restore;
- `CommittedHoldTheirChanges`, `DumpsStayRestorable` and
  `RestoresImplementLedger`, assuming `Exclusive` and that the caches are lost
  with the catalog. Without the latter TLC finds the first violated (see the
  limits above).

`RestoreCore` says of the dump what `CoreInv` says of the tables alone
(`RowsLogged`, `RowsHang`): a restored catalog with no call under way satisfies
`CoreInv` again. `OutcomeInv` adds that what the dump has as committed is still
committed and the same row (`DumpIsPast`), because ids past it are all that is
handed out again, and that no file is cut short (`NoTornFiles`); `RestoreInv`
that a cached file is of the row that has its id
(`FilesAreOfRows`), so that a matching checksum proves an object to be of that
row (`FlipsHoldTheirChanges`). For the refinement the ledger counts data as
durable only if they are of the snapshot's own row; an object left behind by an
earlier holder of the id must not look like that when the new row is logged,
which `RestorableInv` gets from the eras of rows and objects. Each other step is
taken from the proof that the write path implements `SnapshotLedger`.

`HistoryProofs` proves `TimeTravelExact` and `DiffsBridge` for every set of
triples, clock and number of changes and snapshots, with no hypothesis on the
clock or on the order of recording. The query sees recorded rows only, so its
answer is not inductive; `HistoryInv` says instead that among the latest changes
of a triple up to `t`, recorded or not, one tells whether it was bound at `t`
(`LatestChangeTells`), and that a change recorded twice has a newest record. If
the latest rows do not disagree, each of them then gives the same answer
(`EffectiveIsBound`). For diffs, the rows of the older snapshot and those after it
are two sets, the second with larger ids: whichever has the latest change, the
second if they tie, holds the rows that come first (`LatestRowsDecide`).

`RuleProofs` proves `ChangesGoToNearest` and `HistoryAgrees` for any number of
command lines, any tree of paths, any values and patterns, and any clock.
`MirrorInv` follows, for each AVU or pattern (`Story`), the command line of the
last operation that named it. From the hook to the commit, the op it carries is
what the property wants shown (`WillTell`): operations that do not name the AVU
may unbind it, but then it is in `unnamed`. Unless it is overtaken, its `ts` is
past all rows of the AVU when it is stamped and its id past those with that `ts`
when it is numbered, rows that are only pending included (`RowsOf`, `Tells`); a
command line that could come past it later marks the record as overtaken when it
does. So the row it writes is the newest and stays the newest (`FiledTells`).
`RecordsArePast` keeps stamps and ids behind the clock and the sequence.
`WalkSoFar` says that what was climbed over was no project when the hook fired.

`MigrationProofs` proves the four safety properties for any number of runners,
checkouts and targets. The list a runner read is only ever behind
(`ListsAreBehind`), and whoever has inserted a key is the only one and finds it
uncommitted (`InsertedOnce`); with `PrerequisitesApplied` that makes each commit
the next number. `QuackProofs` proves that a thread in an attempt has the lock
of its store (`AttemptsAreLocked`) and that each refusal stands for a write of
the row (`RefusalsAreWrites`), hence `StatementsNotSuperseded`,
`ConflictsMeanProgress`, and `StoreIsAtomic`: each step of `QuackStore` is a step
of `AtomicStatements` or a stutter.

Only TLC: liveness (`PendingPushesDrain`, `SchemaCatchesUp`, `StatementsEnd`),
which is outside the prover's reach, and the violation runs. Every invariant and
every refinement that a passing run checks is also a theorem.

## Not modelled

- `parse_as_of`, field validation, path concatenation, argument parsing, the
  rewriting of `?` into session variables: pure input conversion.
- `read_history`: a sorted page of the rows `AvuHistory` has as `events`.
- A `DuckLakeClient` shared by threads, each of which may open a catalog: what
  is lost is a connection.
- Opening a catalog: the bootstrap of a DuckDB file, the table check and
  `ATTACH` of a Quack client, and `serve-catalog`, which keeps a process alive.
- A `project_id` in the payload of `record`, which the rules never send.
- Pruning of old dumps, which keeps the newest, and the preflight of the backup.
- `tests/llm_e2e`, a test harness.

## Plan

1. Readers beside restores, if reads ever keep state of their own across one.
2. A client shared by threads over `AtomicStatements`, if its handle is ever
   used for more than one statement at a time.
