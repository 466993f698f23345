----------------------------- MODULE RuleMirror -----------------------------
(***************************************************************************)
(* The iRODS rule that mirrors AVU operations into the history.  After an  *)
(* operation the rule hook starts the command line, mesa-ducklake record,  *)
(* which walks from the changed path up to a registered project, stamps    *)
(* the change with its own clock and records it without an iRODS session.  *)
(*                                                                         *)
(* The hook waits, but for ten seconds only, and drops whatever goes       *)
(* wrong; the iRODS agent then serves its client's next operation.  So any *)
(* number of command lines run side by side, each may end anywhere, and    *)
(* one may outlive its hook.  What the hook waits for is thus invisible    *)
(* here: a step of this module is a step of iRODS, of a client that        *)
(* registers a project, or of one command line.                            *)
(*                                                                         *)
(* The hook knows an operation by its arguments and records them as they   *)
(* come: a removal by index or by pattern names no AVU, or one of several, *)
(* and what set and mod replace is not named either.                       *)
(***************************************************************************)
EXTENDS AvuQueries, Sequences

CONSTANTS
    Processes,       \* command lines that may run at the same time
    Paths,           \* iRODS paths, the root excepted
    Values,          \* attribute, value and unit
    Patterns,        \* an index or wildcards in place of a value
    Chain,           \* [Paths -> the path, its parent, ... below the root]
    MaxTime,         \* bound on the clock
    MaxSnapshots,    \* bound on the snapshots recorded
    MaxOperations    \* bound on the AVU operations

ASSUME ChainAssumption ==
    \A path \in Paths : /\ Chain[path] \in Seq(Paths)
                        /\ Len(Chain[path]) >= 1

ASSUME PatternsAssumption == Values \cap Patterns = {}

ASSUME MirrorBoundsAssumption ==
    MaxTime \in Nat \ {0} /\ MaxSnapshots \in Nat /\ MaxOperations \in Nat

VARIABLES
    now,          \* the clock
    operations,   \* how many AVU operations there were
    bound,        \* the AVUs bound in the iCAT
    projects,     \* the paths registered as projects
    events,       \* the rows of avu_changes of all projects
    nextId,       \* next snapshot id
    cli,          \* [Processes -> what a command line knows]
    unnamed,      \* AVUs removed by an operation that named another, since
                  \* an operation last named them
    last          \* [Named -> how far the record of its last change came]

mirrorVars ==
    <<now, operations, bound, projects, events, nextId, cli, unnamed, last>>

NoProject == "none"
Nobody == "nobody"

ASSUME NoProjectAssumption == NoProject \notin Paths

AVUs == Paths \X Values

(* What the arguments of a hook can say.                                   *)
Named == Paths \X (Values \cup Patterns)
Ids == 1..MaxSnapshots
Times == 1..MaxTime
Ops == {"add", "delete"}
Options == {"add", "set", "mod", "rm", "rmw", "rmi"}
Events == [triple : Named, op : Ops, ts : Times, snapshot : Ids, project : Paths]

(* A command line not yet started; one that ended keeps only its outcome.  *)
Idle == [phase |-> "idle"]

Running(h) == cli[h].phase \notin {"idle", "skipped"}

PathOf(x) == x[1]

(* by is the command line that records the last change that named a        *)
(* triple, project where it was recorded in the end; overtaken is whether  *)
(* an earlier change was stamped or numbered after it.                     *)
Unrecorded(h) == [by |-> h, stage |-> "made", overtaken |-> FALSE,
                  project |-> NoProject]

MirrorInit ==
    /\ now = 1
    /\ operations = 0
    /\ bound = {}
    /\ projects = {}
    /\ events = {}
    /\ nextId = 1
    /\ cli = [h \in Processes |-> Idle]
    /\ unnamed = {}
    /\ last = [x \in Named |-> Unrecorded(Nobody)]

-----------------------------------------------------------------------------
(* iRODS and the clients                                                   *)

(* Mutant: a removal by index is missing and takes the default.            *)
OpOfWithoutIndex(option) ==
    IF option \in {"rm", "rmw"} THEN "delete" ELSE "add"

(* _OP_MAP.get(option, "add").                                             *)
OpOf(option) ==
    IF option \in {"rm", "rmw", "rmi"} THEN "delete" ELSE "add"

OnPath(x) == {y \in bound : PathOf(y) = PathOf(x)}

(* What an operation with arguments x removes from the iCAT: add refuses   *)
(* an AVU that is bound and rm one that is not; set and mod replace; rmw   *)
(* removes all that match; rmi removes by index.                           *)
Unbinds(x, option, gone) ==
    \/ option = "add" /\ x \in AVUs \ bound /\ gone = {}
    \/ option \in {"set", "mod"} /\ x \in AVUs /\ x \notin gone
    \/ option = "rm" /\ x \in bound /\ gone = {x}
    \/ option = "rmw" /\ gone # {} /\ (x \in bound => x \in gone)
    \/ option = "rmi" /\ x \notin AVUs /\ \E y \in bound : gone = {y}

Binds(x, option) == IF option \in {"add", "set", "mod"} THEN {x} ELSE {}

(* The operation takes effect and its hook starts a command line for its   *)
(* arguments.                                                              *)
ModifyAvu(h, x, option) ==
    /\ ~Running(h)
    /\ operations < MaxOperations
    /\ operations' = operations + 1
    /\ \E gone \in SUBSET OnPath(x) :
          /\ Unbinds(x, option, gone)
          /\ bound' = (bound \ gone) \cup Binds(x, option)
          /\ unnamed' = (unnamed \cup gone) \ {x}
    /\ cli' = [cli EXCEPT ![h] = [phase |-> "walk", triple |-> x,
                                  op |-> OpOf(option), level |-> 1,
                                  known |-> projects]]
    /\ last' = [last EXCEPT ![x] = Unrecorded(h)]
    /\ UNCHANGED <<now, projects, events, nextId>>

(* projects.irods_path is UNIQUE.                                          *)
RegisterProject(path) ==
    /\ path \notin projects
    /\ projects' = projects \cup {path}
    /\ UNCHANGED <<now, operations, bound, events, nextId, cli, unnamed, last>>

Tick ==
    /\ now < MaxTime
    /\ now' = now + 1
    /\ UNCHANGED <<operations, bound, projects, events, nextId, cli, unnamed, last>>

-----------------------------------------------------------------------------
(* The command line                                                        *)

Looked(h) == Chain[PathOf(cli[h].triple)][cli[h].level]

LastLevel(h) == cli[h].level = Len(Chain[PathOf(cli[h].triple)])

(* find_project_by_path answers at this level.                             *)
FindProject(h) ==
    /\ cli[h].phase = "walk"
    /\ Looked(h) \in projects
    /\ cli' = [cli EXCEPT ![h] = [phase |-> "found", triple |-> cli[h].triple,
                                  op |-> cli[h].op, project |-> Looked(h),
                                  known |-> cli[h].known]]
    /\ UNCHANGED <<now, operations, bound, projects, events, nextId, unnamed, last>>

(* Mutant: climbs beyond the top level.                                    *)
ClimbOn(h) ==
    /\ cli[h].phase = "walk"
    /\ Looked(h) \notin projects
    /\ cli' = [cli EXCEPT ![h].level = @ + 1]
    /\ UNCHANGED <<now, operations, bound, projects, events, nextId, unnamed, last>>

(* It does not, and there is a parent below the root.                      *)
Climb(h) ==
    /\ cli[h].phase = "walk"
    /\ Looked(h) \notin projects
    /\ ~LastLevel(h)
    /\ cli' = [cli EXCEPT ![h].level = @ + 1]
    /\ UNCHANGED <<now, operations, bound, projects, events, nextId, unnamed, last>>

(* Mutant: asks only whether the path itself is a project.                 *)
SkipWithoutClimb(h) ==
    /\ cli[h].phase = "walk"
    /\ Looked(h) \notin projects
    /\ cli' = [cli EXCEPT ![h] = [phase |-> "skipped",
                                  triple |-> cli[h].triple,
                                  known |-> cli[h].known]]
    /\ UNCHANGED <<now, operations, bound, projects, events, nextId, unnamed, last>>

(* No level has a project: exit code 2.                                    *)
Skip(h) ==
    /\ cli[h].phase = "walk"
    /\ Looked(h) \notin projects
    /\ LastLevel(h)
    /\ cli' = [cli EXCEPT ![h] = [phase |-> "skipped",
                                  triple |-> cli[h].triple,
                                  known |-> cli[h].known]]
    /\ UNCHANGED <<now, operations, bound, projects, events, nextId, unnamed, last>>

(* The record l of a triple's last change after command line h reached a   *)
(* stage: it came further, or it was overtaken if it had come that far.    *)
Reached(l, h, stage, passed) ==
    IF l.by = h THEN [l EXCEPT !.stage = stage]
                ELSE [l EXCEPT !.overtaken = l.overtaken \/ l.stage \in passed]

(* The payload of the rule has no ts, so AvuChange takes the clock.        *)
StampChange(h) ==
    /\ cli[h].phase = "found"
    /\ cli' = [cli EXCEPT ![h] = [phase |-> "stamped", triple |-> cli[h].triple,
                                  op |-> cli[h].op, project |-> cli[h].project,
                                  ts |-> now]]
    /\ last' = [last EXCEPT ![cli[h].triple] =
                   Reached(last[cli[h].triple], h, "stamped",
                           {"stamped", "numbered"})]
    /\ UNCHANGED <<now, operations, bound, projects, events, nextId, unnamed>>

(* record_changes: the pending row.                                        *)
CreateSnapshot(h) ==
    /\ cli[h].phase = "stamped"
    /\ nextId <= MaxSnapshots
    /\ nextId' = nextId + 1
    /\ cli' = [cli EXCEPT ![h] = [phase |-> "created", triple |-> cli[h].triple,
                                  op |-> cli[h].op, project |-> cli[h].project,
                                  ts |-> cli[h].ts, id |-> nextId]]
    /\ last' = [last EXCEPT ![cli[h].triple] =
                   Reached(last[cli[h].triple], h, "numbered", {"numbered"})]
    /\ UNCHANGED <<now, operations, bound, projects, events, unnamed>>

RowOf(h) == [triple |-> cli[h].triple, op |-> cli[h].op, ts |-> cli[h].ts,
             snapshot |-> cli[h].id, project |-> cli[h].project]

(* record_changes: the Parquet, which reads see from here on.              *)
WriteChanges(h) ==
    /\ cli[h].phase = "created"
    /\ events' = events \cup {RowOf(h)}
    /\ cli' = [cli EXCEPT ![h] = [phase |-> "written", triple |-> cli[h].triple,
                                  row |-> RowOf(h)]]
    /\ UNCHANGED <<now, operations, bound, projects, nextId, unnamed, last>>

(* record_changes: the commit.                                             *)
CommitSnapshot(h) ==
    /\ cli[h].phase = "written"
    /\ last' = IF last[cli[h].triple].by = h
               THEN [last EXCEPT ![cli[h].triple].project = cli[h].row.project]
               ELSE last
    /\ cli' = [cli EXCEPT ![h] = Idle]
    /\ UNCHANGED <<now, operations, bound, projects, events, nextId, unnamed>>

(* Killed by the timeout, or exit code 1 at any statement: the change is   *)
(* not tried again, and nothing tells iRODS.  A write_changes that raises  *)
(* deletes its snapshot, so it leaves no more than an unused id.           *)
CommandLineEnds(h) ==
    /\ Running(h)
    /\ cli' = [cli EXCEPT ![h] = Idle]
    /\ UNCHANGED <<now, operations, bound, projects, events, nextId, unnamed, last>>

CommandLineStep(h) ==
    \/ FindProject(h)
    \/ Climb(h)
    \/ Skip(h)
    \/ StampChange(h)
    \/ CreateSnapshot(h)
    \/ WriteChanges(h)
    \/ CommitSnapshot(h)
    \/ CommandLineEnds(h)

MirrorNext ==
    \/ \E h \in Processes, x \in Named, option \in Options : ModifyAvu(h, x, option)
    \/ \E path \in Paths : RegisterProject(path)
    \/ Tick
    \/ \E h \in Processes : CommandLineStep(h)

MirrorSpec == MirrorInit /\ [][MirrorNext]_mirrorVars

-----------------------------------------------------------------------------
Walks == [phase : {"walk"}, triple : Named, op : Ops, level : Nat \ {0},
          known : SUBSET Paths]
Skips == [phase : {"skipped"}, triple : Named, known : SUBSET Paths]
Founds == [phase : {"found"}, triple : Named, op : Ops, project : Paths,
           known : SUBSET Paths]
Stampeds == [phase : {"stamped"}, triple : Named, op : Ops, project : Paths,
             ts : Times]
Createds == [phase : {"created"}, triple : Named, op : Ops, project : Paths,
             ts : Times, id : Ids]
Writtens == [phase : {"written"}, triple : Named, row : Events]
Lasts == [by : Processes \cup {Nobody}, stage : {"made", "stamped", "numbered"},
          overtaken : BOOLEAN, project : Paths \cup {NoProject}]

(* The types, that the walk stays below the root, and that a command line  *)
(* works for one triple and only in a project that is registered.          *)
MirrorTypeOK ==
    /\ now \in Times
    /\ operations \in 0..MaxOperations
    /\ bound \subseteq AVUs
    /\ projects \subseteq Paths
    /\ events \subseteq Events
    /\ nextId \in 1..(MaxSnapshots + 1)
    /\ \A h \in Processes :
          /\ cli[h] \in {Idle} \cup Walks \cup Skips \cup Founds
                        \cup Stampeds \cup Createds \cup Writtens
          /\ cli[h].phase = "walk" =>
                cli[h].level <= Len(Chain[PathOf(cli[h].triple)])
    /\ DOMAIN cli = Processes
    /\ unnamed \subseteq AVUs
    /\ last \in [Named -> Lasts]

(* Although projects may be registered while the walk is under way, it     *)
(* ends in a project that covers the path with no nearer one known when    *)
(* the hook fired, and it is skipped only when no known project covered    *)
(* the path then (cli.py:99-120).                                          *)
WalkFindsNearest ==
    \A h \in Processes :
        LET levels == Chain[PathOf(cli[h].triple)] IN
        /\ cli[h].phase = "found" =>
              \E i \in 1..Len(levels) :
                 /\ levels[i] = cli[h].project
                 /\ \A j \in 1..(i - 1) : levels[j] \notin cli[h].known
        /\ cli[h].phase = "skipped" =>
              \A i \in 1..Len(levels) : levels[i] \notin cli[h].known

ProjectRows(path) == {e \in events : e.project = path}

(* When the last change that named a triple was recorded, the history of   *)
(* the project it was recorded in shows the triple if and only if iRODS    *)
(* has it or lost it to an operation that did not name it: whatever the    *)
(* option, however the records of earlier changes overlapped with it,      *)
(* outlived their hook or ended half done, as long as none of them was     *)
(* stamped or numbered after it (mesa_avu_change.py:23-118,                *)
(* mesa_avu_change.re:31-45, queries.py:16-31).                            *)
MirrorAgrees ==
    \A x \in Named :
        last[x].project # NoProject /\ ~last[x].overtaken =>
           QueryTells(x, ProjectRows(last[x].project), x \in bound \cup unnamed)
=============================================================================
