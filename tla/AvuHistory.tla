----------------------------- MODULE AvuHistory -----------------------------
(***************************************************************************)
(* The queries over the change events of one iRODS path, and the metadata  *)
(* they reconstruct.  A change is made in iRODS (the iCAT) and carries the *)
(* time it was made; it is recorded in a snapshot some time later, in any  *)
(* order, alone or in a batch, and perhaps twice when the caller retries a *)
(* record_changes that raised after its commit.  A triple may change again *)
(* before the clock moves, and then two changes share their time.          *)
(*                                                                         *)
(* A triple (attribute, value, unit) is an attribute and one "value" that  *)
(* stands for value and unit.                                              *)
(***************************************************************************)
EXTENDS AvuQueries, FiniteSets

CONSTANTS
    Attributes,
    Values,
    MaxTime,         \* bound on the clock
    MaxSnapshots,    \* bound on the snapshots recorded
    MaxChanges       \* bound on the different changes made

ASSUME BoundsAssumption ==
    /\ MaxTime \in Nat \ {0}
    /\ MaxSnapshots \in Nat
    /\ MaxChanges \in Nat

VARIABLES
    now,          \* the clock
    bound,        \* the triples bound in the iCAT
    boundAt,      \* [Times -> the triples that were bound at the end of it]
    unrecorded,   \* changes made and not yet known to be recorded
    events,       \* the rows of avu_changes
    nextId        \* next snapshot id

historyVars == <<now, bound, boundAt, unrecorded, events, nextId>>

Times == 1..MaxTime
Ids == 1..MaxSnapshots
Triples == Attributes \X Values
Ops == {"add", "delete"}
Changes == [triple : Triples, op : Ops, ts : Times]
Events == [snapshot : Ids, triple : Triples, op : Ops, ts : Times]

HistoryInit ==
    /\ now = 1
    /\ bound = {}
    /\ boundAt = [t \in Times |-> {}]
    /\ unrecorded = {}
    /\ events = {}
    /\ nextId = 1

-----------------------------------------------------------------------------
(* The queries *)

AsOf(t) == {e \in events : e.ts <= t}

(* Mutant: excludes the upper endpoint.                                    *)
DiffExclusive(from, to) ==
    {e \in events : \/ from < e.snapshot /\ e.snapshot < to
                    \/ to < e.snapshot /\ e.snapshot < from}

(* LakeStore.diff, which swaps endpoints given in the wrong order.         *)
Diff(from, to) ==
    {e \in events : \/ from < e.snapshot /\ e.snapshot <= to
                    \/ to < e.snapshot /\ e.snapshot <= from}

-----------------------------------------------------------------------------
(* The change that a row records.                                          *)
AsChange(e) == [triple |-> e.triple, op |-> e.op, ts |-> e.ts]

(* The changes that were made, recorded or not.                            *)
Made == unrecorded \cup {AsChange(e) : e \in events}

(* The iCAT refuses to add what is bound and to remove what is not.        *)
Change(triple, op) ==
    /\ Cardinality(Made) < MaxChanges
    /\ op = "add" <=> triple \notin bound
    /\ bound' = IF op = "add" THEN bound \cup {triple} ELSE bound \ {triple}
    /\ boundAt' = [boundAt EXCEPT ![now] = bound']
    /\ unrecorded' = unrecorded \cup {[triple |-> triple, op |-> op, ts |-> now]}
    /\ UNCHANGED <<now, events, nextId>>

Tick ==
    /\ now < MaxTime
    /\ now' = now + 1
    /\ boundAt' = [boundAt EXCEPT ![now + 1] = bound]
    /\ UNCHANGED <<bound, unrecorded, events, nextId>>

(* Mutant: the id of the snapshot before is handed out again.              *)
RecordReusesId(batch, done) ==
    /\ nextId <= MaxSnapshots
    /\ batch # {}
    /\ events' = events \cup {[snapshot |-> nextId, triple |-> c.triple,
                               op |-> c.op, ts |-> c.ts] : c \in batch}
    /\ unrecorded' = IF done THEN unrecorded \ batch ELSE unrecorded
    /\ UNCHANGED <<now, bound, boundAt, nextId>>

(* record_changes commits a batch; done is whether the caller learns it.   *)
Record(batch, done) ==
    /\ nextId <= MaxSnapshots
    /\ batch # {}
    /\ events' = events \cup {[snapshot |-> nextId, triple |-> c.triple,
                               op |-> c.op, ts |-> c.ts] : c \in batch}
    /\ nextId' = nextId + 1
    /\ unrecorded' = IF done THEN unrecorded \ batch ELSE unrecorded
    /\ UNCHANGED <<now, bound, boundAt>>

HistoryNext ==
    \/ \E triple \in Triples, op \in Ops : Change(triple, op)
    \/ Tick
    \/ \E batch \in SUBSET unrecorded, done \in BOOLEAN : Record(batch, done)

HistorySpec == HistoryInit /\ [][HistoryNext]_historyVars

-----------------------------------------------------------------------------
(* The types, and that no event is from the future or of a later snapshot. *)
HistoryTypeOK ==
    /\ now \in Times
    /\ bound \subseteq Triples
    /\ boundAt \in [Times -> SUBSET Triples]
    /\ unrecorded \subseteq Changes
    /\ events \subseteq Events
    /\ nextId \in 1..(MaxSnapshots + 1)
    /\ \A e \in events : e.snapshot < nextId

(* The latest rows of x were made at one clock reading and disagree: the   *)
(* rows no longer say which change came last.                              *)
Ambiguous(x, rows) ==
    \E e, f \in {r \in rows : r.triple = x} :
       /\ e.ts = f.ts /\ e.op # f.op
       /\ \A g \in rows : g.triple = x => g.ts <= e.ts

(* Once every change made up to t is recorded, in whatever order, batches  *)
(* and number of retries, the query as of t shows a triple if and only if  *)
(* it was bound in iRODS at t, whichever row ROW_NUMBER puts first in a    *)
(* tie (queries.py:15-32, docs/dev/queries.md:84-102).  Nothing is said of *)
(* a triple that was added and removed within its last clock reading.      *)
TimeTravelIsExact ==
    \A t \in 1..now :
       (\A c \in unrecorded : c.ts > t) =>
          \A x \in Triples :
             Ambiguous(x, AsOf(t)) \/ QueryTells(x, AsOf(t), x \in boundAt[t])

RecordedBy(x, id) == {e \in events : e.triple = x /\ e.snapshot <= id}

(* The rows of a triple in the diff of two snapshots decide what the query *)
(* over the newer one shows of it, unless a change recorded by the older   *)
(* one was made after all of them: then the older one still stands.  So a  *)
(* reader of diffs misses no change and takes none twice, in whatever      *)
(* order changes were recorded (lake.py:357-387).                          *)
DiffBridges ==
    \A from, to \in Ids, x \in Triples : from <= to =>
       LET older == RecordedBy(x, from)
           rows  == {e \in Diff(to, from) : e.triple = x}
       IN FirstOps(x, RecordedBy(x, to)) =
             IF \E r \in rows : \A o \in older : o.ts <= r.ts
             THEN FirstOps(x, rows)
             ELSE FirstOps(x, older)
=============================================================================
