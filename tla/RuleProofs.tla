----------------------------- MODULE RuleProofs -----------------------------
(* The walk and the agreement of history and iCAT, for any number of       *)
(* command lines, paths, AVUs and snapshots.                               *)
EXTENDS RuleMirror, TLAPS

Levels(h) == Chain[PathOf(cli[h].triple)]

(* What was climbed over was no project when the hook fired.               *)
WalkSoFar ==
    \A h \in Processes : cli[h].phase = "walk" =>
        /\ cli[h].known \subseteq projects
        /\ \A j \in 1..(cli[h].level - 1) : Levels(h)[j] \notin cli[h].known

(* Nothing is recorded from the future.                                    *)
RecordsArePast ==
    /\ \A e \in events : e.ts <= now /\ e.snapshot < nextId
    /\ \A h \in Processes :
          /\ cli[h].phase \in {"stamped", "created"} => cli[h].ts <= now
          /\ cli[h].phase = "created" => cli[h].id < nextId

(* The rows of x, those with a snapshot that are not written yet included. *)
EventsOf(x) == {e \in events : e.triple = x}

PendingOf(x) ==
    {RowOf(g) : g \in {f \in Processes : cli[f].phase = "created"
                                       /\ cli[f].triple = x}}

RowsOf(x) == EventsOf(x) \cup PendingOf(x)

(* What the history is to show.                                            *)
Shown == bound \cup unnamed

(* Row e is the newest of x and tells whether x is to be shown.            *)
Tells(e, x) ==
    /\ e \in RowsOf(x)
    /\ e.op = "add" <=> x \in Shown
    /\ \A f \in RowsOf(x) : f # e => Precedes(e, f)

(* Neither a row of x nor one that will get a snapshot is later than ts.   *)
LatestStamp(x, ts) ==
    /\ \A e \in RowsOf(x) : e.ts <= ts
    /\ \A g \in Processes :
          cli[g].phase = "stamped" /\ cli[g].triple = x => cli[g].ts <= ts

(* Command line h works for the last change that named x.                  *)
RecordsLast(h, x) == Running(h) /\ cli[h].triple = x /\ last[x].by = h

(* It is about to add the newest row of x, or has added it, unless an      *)
(* earlier change of x overtook it.                                        *)
WillTell(h, x) ==
    /\ last[x].project = NoProject
    /\ cli[h].phase # "written" => (cli[h].op = "add" <=> x \in Shown)
    /\ cli[h].phase \in {"walk", "found"} => last[x].stage = "made"
    /\ cli[h].phase = "stamped" => last[x].stage = "stamped"
    /\ cli[h].phase \in {"created", "written"} => last[x].stage = "numbered"
    /\ ~last[x].overtaken =>
          /\ cli[h].phase = "stamped" => LatestStamp(x, cli[h].ts)
          /\ cli[h].phase = "created" => Tells(RowOf(h), x)
          /\ cli[h].phase = "written" => /\ cli[h].row \in EventsOf(x)
                                         /\ Tells(cli[h].row, x)

(* The record of the last change of x was committed and is its newest row. *)
FiledTells(x) ==
    last[x].project # NoProject =>
        /\ last[x].stage = "numbered"
        /\ ~last[x].overtaken =>
              \E e \in EventsOf(x) : e.project = last[x].project /\ Tells(e, x)

Story(x) ==
    /\ \A h \in Processes : RecordsLast(h, x) => WillTell(h, x)
    /\ FiledTells(x)

(* MirrorAgrees says nothing of a change that is still being recorded; it  *)
(* is kept because such a record will be the newest of its triple.         *)
MirrorInv ==
    /\ MirrorTypeOK
    /\ WalkSoFar
    /\ WalkFindsNearest
    /\ RecordsArePast
    /\ \A x \in Named : Story(x)

-----------------------------------------------------------------------------
(* Types                                                                   *)

LEMMA BoundsAreNumbers ==
    /\ Times \subseteq Nat
    /\ Ids \subseteq Nat
    /\ \A path \in Paths : /\ Chain[path] \in Seq(Paths)
                           /\ Len(Chain[path]) \in Nat
                           /\ Len(Chain[path]) >= 1
                           /\ \A i \in 1..Len(Chain[path]) : Chain[path][i] \in Paths
  <1>1. Times \subseteq Nat /\ Ids \subseteq Nat
    BY MirrorBoundsAssumption DEF Times, Ids
  <1>2. ASSUME NEW path \in Paths
        PROVE  /\ Chain[path] \in Seq(Paths)
               /\ Len(Chain[path]) \in Nat
               /\ Len(Chain[path]) >= 1
               /\ \A i \in 1..Len(Chain[path]) : Chain[path][i] \in Paths
    BY ChainAssumption
  <1>3. QED
    BY <1>1, <1>2

(* The phase tells the type.                                               *)
LEMMA PhaseTypes ==
    ASSUME MirrorTypeOK, NEW h \in Processes
    PROVE  /\ cli[h].phase = "walk" => cli[h] \in Walks
           /\ cli[h].phase = "skipped" => cli[h] \in Skips
           /\ cli[h].phase = "found" => cli[h] \in Founds
           /\ cli[h].phase = "stamped" => cli[h] \in Stampeds
           /\ cli[h].phase = "created" => cli[h] \in Createds
           /\ cli[h].phase = "written" => cli[h] \in Writtens
           /\ cli[h].phase \in {"idle", "walk", "skipped", "found", "stamped",
                                "created", "written"}
           /\ Running(h) \/ cli[h].phase = "skipped" => cli[h].triple \in Named
  <1>1. cli[h] \in {Idle} \cup Walks \cup Skips \cup Founds
                   \cup Stampeds \cup Createds \cup Writtens
    BY DEF MirrorTypeOK
  <1>2. QED
    BY <1>1 DEF Idle, Walks, Skips, Founds, Stampeds, Createds, Writtens, Running

(* A step of h that gives it a well-typed record keeps the records typed.  *)
CliTyped(call) ==
    /\ call \in {Idle} \cup Walks \cup Skips \cup Founds
                \cup Stampeds \cup Createds \cup Writtens
    /\ call.phase = "walk" => call.level <= Len(Chain[PathOf(call.triple)])

LEMMA OneCallChanges ==
    ASSUME MirrorTypeOK, NEW h \in Processes, NEW call, CliTyped(call),
           cli' = [cli EXCEPT ![h] = call]
    PROVE  /\ DOMAIN cli' = Processes
           /\ cli'[h] = call
           /\ \A g \in Processes : g # h => cli'[g] = cli[g]
           /\ \A g \in Processes : CliTyped(cli'[g])
  <1>1. DOMAIN cli = Processes
    BY DEF MirrorTypeOK
  <1>2. /\ DOMAIN cli' = Processes
        /\ cli'[h] = call
        /\ \A g \in Processes : g # h => cli'[g] = cli[g]
    BY <1>1
  <1>3. \A g \in Processes : CliTyped(cli[g])
    BY DEF MirrorTypeOK, CliTyped
  <1>4. QED
    BY <1>2, <1>3

LEMMA PathTyped ==
    ASSUME NEW x \in Named PROVE PathOf(x) \in Paths
  BY DEF Named, PathOf

(* The record each step leaves behind.                                     *)
LEMMA ModifyCalls ==
    ASSUME MirrorTypeOK, NEW h \in Processes, NEW x \in Named,
           NEW option \in Options, ModifyAvu(h, x, option)
    PROVE  LET call == [phase |-> "walk", triple |-> x, op |-> OpOf(option),
                        level |-> 1, known |-> projects]
           IN  CliTyped(call) /\ cli' = [cli EXCEPT ![h] = call]
  <1> DEFINE call == [phase |-> "walk", triple |-> x, op |-> OpOf(option),
                      level |-> 1, known |-> projects]
  <1>1. OpOf(option) \in Ops
    BY DEF OpOf, Ops
  <1>2. projects \in SUBSET Paths
    BY DEF MirrorTypeOK
  <1>3. call \in Walks
    BY <1>1, <1>2 DEF Walks
  <1>4. call.level <= Len(Chain[PathOf(call.triple)])
    BY PathTyped, BoundsAreNumbers
  <1>5. QED
    BY <1>3, <1>4 DEF CliTyped, ModifyAvu

LEMMA FindCalls ==
    ASSUME MirrorTypeOK, NEW h \in Processes, FindProject(h)
    PROVE  LET call == [phase |-> "found", triple |-> cli[h].triple,
                        op |-> cli[h].op, project |-> Looked(h),
                        known |-> cli[h].known]
           IN  CliTyped(call) /\ cli' = [cli EXCEPT ![h] = call]
  <1>1. cli[h] \in Walks
    BY PhaseTypes DEF FindProject
  <1>2. Looked(h) \in Paths
    BY DEF FindProject, MirrorTypeOK
  <1>3. QED
    BY <1>1, <1>2 DEF CliTyped, FindProject, Walks, Founds

LEMMA ClimbCalls ==
    ASSUME MirrorTypeOK, NEW h \in Processes, Climb(h)
    PROVE  LET call == [cli[h] EXCEPT !.level = @ + 1]
           IN  CliTyped(call) /\ cli' = [cli EXCEPT ![h] = call]
  <1> DEFINE call == [cli[h] EXCEPT !.level = @ + 1]
  <1>1. cli[h] \in Walks /\ cli[h].phase = "walk"
    BY PhaseTypes DEF Climb
  <1>2. call \in Walks
    BY <1>1 DEF Walks
  <1>3. call.level = cli[h].level + 1 /\ call.triple = cli[h].triple
    BY <1>1 DEF Walks
  <1>4. /\ cli[h].level \in Nat
        /\ cli[h].level <= Len(Chain[PathOf(cli[h].triple)])
        /\ cli[h].level # Len(Chain[PathOf(cli[h].triple)])
        /\ Len(Chain[PathOf(cli[h].triple)]) \in Nat
    BY <1>1, PathTyped, BoundsAreNumbers
       DEF Climb, LastLevel, MirrorTypeOK, Walks
  <1>5. CliTyped(call)
    BY <1>2, <1>3, <1>4 DEF CliTyped
  <1>6. cli' = [cli EXCEPT ![h] = call]
    BY <1>1 DEF Climb, Walks
  <1>7. QED
    BY <1>5, <1>6

LEMMA SkipCalls ==
    ASSUME MirrorTypeOK, NEW h \in Processes, Skip(h)
    PROVE  LET call == [phase |-> "skipped", triple |-> cli[h].triple,
                        known |-> cli[h].known]
           IN  CliTyped(call) /\ cli' = [cli EXCEPT ![h] = call]
  <1>1. cli[h] \in Walks
    BY PhaseTypes DEF Skip
  <1>2. QED
    BY <1>1 DEF CliTyped, Skip, Walks, Skips

LEMMA StampCalls ==
    ASSUME MirrorTypeOK, NEW h \in Processes, StampChange(h)
    PROVE  LET call == [phase |-> "stamped", triple |-> cli[h].triple,
                        op |-> cli[h].op, project |-> cli[h].project,
                        ts |-> now]
           IN  CliTyped(call) /\ cli' = [cli EXCEPT ![h] = call]
  <1>1. cli[h] \in Founds /\ now \in Times
    BY PhaseTypes DEF StampChange, MirrorTypeOK
  <1>2. QED
    BY <1>1 DEF CliTyped, StampChange, Founds, Stampeds

LEMMA CreateCalls ==
    ASSUME MirrorTypeOK, NEW h \in Processes, CreateSnapshot(h)
    PROVE  /\ nextId \in Ids
           /\ LET call == [phase |-> "created", triple |-> cli[h].triple,
                           op |-> cli[h].op, project |-> cli[h].project,
                           ts |-> cli[h].ts, id |-> nextId]
              IN  CliTyped(call) /\ cli' = [cli EXCEPT ![h] = call]
  <1>1. cli[h] \in Stampeds
    BY PhaseTypes DEF CreateSnapshot
  <1>2. nextId \in Ids
    BY MirrorBoundsAssumption DEF CreateSnapshot, MirrorTypeOK, Ids
  <1>3. QED
    BY <1>1, <1>2 DEF CliTyped, CreateSnapshot, Stampeds, Createds

LEMMA WriteCalls ==
    ASSUME MirrorTypeOK, NEW h \in Processes, WriteChanges(h)
    PROVE  /\ RowOf(h) \in Events
           /\ LET call == [phase |-> "written", triple |-> cli[h].triple,
                           row |-> RowOf(h)]
              IN  CliTyped(call) /\ cli' = [cli EXCEPT ![h] = call]
  <1>1. cli[h] \in Createds
    BY PhaseTypes DEF WriteChanges
  <1>2. RowOf(h) \in Events
    BY <1>1 DEF RowOf, Createds, Events
  <1>3. QED
    BY <1>1, <1>2 DEF CliTyped, WriteChanges, Createds, Writtens

LEMMA IdleTyped == CliTyped(Idle)
  BY DEF CliTyped, Idle

(* Whatever an operation removes, no other triple is shown for it or not.  *)
LEMMA ModifyChanges ==
    ASSUME MirrorTypeOK, NEW h \in Processes, NEW x \in Named,
           NEW option \in Options, ModifyAvu(h, x, option)
    PROVE  /\ bound' \subseteq AVUs /\ unnamed' \subseteq AVUs
           /\ OpOf(option) = "add" <=> x \in Shown'
           /\ \A y : y # x => (y \in Shown' <=> y \in Shown)
  <1>1. PICK gone \in SUBSET OnPath(x) :
            /\ Unbinds(x, option, gone)
            /\ bound' = (bound \ gone) \cup Binds(x, option)
            /\ unnamed' = (unnamed \cup gone) \ {x}
    BY DEF ModifyAvu
  <1>2. bound \subseteq AVUs /\ unnamed \subseteq AVUs /\ gone \subseteq bound
    BY <1>1 DEF MirrorTypeOK, OnPath
  <1>3. CASE option \in {"add", "set", "mod"}
    <2>1. /\ Binds(x, option) = {x} /\ OpOf(option) = "add" /\ x \in AVUs
      BY <1>1, <1>3 DEF Binds, OpOf, Unbinds
    <2>2. QED
      BY <1>1, <1>2, <2>1 DEF Shown
  <1>4. CASE option \in {"rm", "rmw", "rmi"}
    <2>1. /\ Binds(x, option) = {} /\ OpOf(option) # "add"
          /\ x \in bound => x \in gone
      BY <1>1, <1>2, <1>4 DEF Binds, OpOf, Unbinds
    <2>2. QED
      BY <1>1, <1>2, <2>1 DEF Shown
  <1>5. QED
    BY <1>3, <1>4 DEF Options

(* How far the record of the last change of x came.                        *)
LEMMA ReachedTyped ==
    ASSUME NEW l \in Lasts, NEW h \in Processes,
           NEW stage \in {"made", "stamped", "numbered"},
           NEW passed \in SUBSET {"made", "stamped", "numbered"}
    PROVE  /\ Reached(l, h, stage, passed) \in Lasts
           /\ Reached(l, h, stage, passed).by = l.by
           /\ Reached(l, h, stage, passed).project = l.project
           /\ l.by = h => /\ Reached(l, h, stage, passed).stage = stage
                          /\ Reached(l, h, stage, passed).overtaken = l.overtaken
           /\ l.by # h =>
                 /\ Reached(l, h, stage, passed).stage = l.stage
                 /\ l.overtaken => Reached(l, h, stage, passed).overtaken
                 /\ l.stage \in passed => Reached(l, h, stage, passed).overtaken
  BY DEF Reached, Lasts

LEMMA ModifyTypes ==
    ASSUME MirrorTypeOK, NEW h \in Processes, NEW x \in Named,
           NEW option \in Options, ModifyAvu(h, x, option)
    PROVE  MirrorTypeOK'
  <1>1. DOMAIN cli' = Processes /\ \A g \in Processes : CliTyped(cli'[g])
    BY ModifyCalls, OneCallChanges
  <1>2. bound' \subseteq AVUs /\ unnamed' \subseteq AVUs
    BY ModifyChanges
  <1>3. last' \in [Named -> Lasts]
    <2>1. Unrecorded(h) \in Lasts
      BY DEF Unrecorded, Lasts
    <2>2. QED
      BY <2>1 DEF ModifyAvu, MirrorTypeOK
  <1>4. operations' \in 0..MaxOperations
    BY MirrorBoundsAssumption DEF ModifyAvu, MirrorTypeOK
  <1>5. QED
    BY <1>1, <1>2, <1>3, <1>4 DEF ModifyAvu, MirrorTypeOK, CliTyped

(* What stamping and numbering a change does to the last change.           *)
LEMMA LastReaches ==
    ASSUME MirrorTypeOK, NEW h \in Processes,
           StampChange(h) \/ CreateSnapshot(h)
    PROVE  LET x == cli[h].triple
               stage == IF cli[h].phase = "found" THEN "stamped" ELSE "numbered"
               passed == {"numbered"} \cup
                         (IF cli[h].phase = "found" THEN {"stamped"} ELSE {})
           IN /\ last' \in [Named -> Lasts]
              /\ last'[x] = Reached(last[x], h, stage, passed)
              /\ \A y \in Named : y # x => last'[y] = last[y]
  <1> DEFINE x == cli[h].triple
             stage == IF cli[h].phase = "found" THEN "stamped" ELSE "numbered"
             passed == {"numbered"} \cup
                       (IF cli[h].phase = "found" THEN {"stamped"} ELSE {})
  <1>1. x \in Named /\ last \in [Named -> Lasts]
    BY PhaseTypes DEF StampChange, CreateSnapshot, Running, MirrorTypeOK
  <1>2. last' = [last EXCEPT ![x] = Reached(last[x], h, stage, passed)]
    BY DEF StampChange, CreateSnapshot
  <1>3. Reached(last[x], h, stage, passed) \in Lasts
    BY <1>1, ReachedTyped
  <1> HIDE DEF x, stage, passed
  <1>4. /\ last' \in [Named -> Lasts]
        /\ last'[x] = Reached(last[x], h, stage, passed)
        /\ \A y \in Named : y # x => last'[y] = last[y]
    BY <1>1, <1>2, <1>3
  <1>5. QED
    BY <1>4 DEF x, stage, passed

(* And what committing it does.                                            *)
LEMMA LastFiled ==
    ASSUME MirrorTypeOK, NEW h \in Processes, CommitSnapshot(h)
    PROVE  LET x == cli[h].triple
           IN /\ last' \in [Named -> Lasts]
              /\ \A y \in Named : y # x => last'[y] = last[y]
              /\ last[x].by # h => last'[x] = last[x]
              /\ last[x].by = h => /\ last'[x].by = h
                                   /\ last'[x].project = cli[h].row.project
                                   /\ last'[x].stage = last[x].stage
                                   /\ last'[x].overtaken = last[x].overtaken
  <1>1. /\ cli[h].triple \in Named /\ cli[h].row.project \in Paths
        /\ last \in [Named -> Lasts]
    BY PhaseTypes DEF CommitSnapshot, Running, MirrorTypeOK, Writtens, Events
  <1>2. QED
    BY <1>1 DEF CommitSnapshot, Lasts

LEMMA CommandLineTypes ==
    ASSUME MirrorTypeOK, NEW h \in Processes, CommandLineStep(h)
    PROVE  MirrorTypeOK'
  <1> DEFINE Kept == /\ DOMAIN cli' = Processes
                     /\ \A g \in Processes : CliTyped(cli'[g])
  <1>1. CASE FindProject(h)
    <2>1. Kept
      BY <1>1, FindCalls, OneCallChanges
    <2>2. QED
      BY <1>1, <2>1 DEF FindProject, MirrorTypeOK, CliTyped
  <1>2. CASE Climb(h)
    <2>1. Kept
      BY <1>2, ClimbCalls, OneCallChanges
    <2>2. QED
      BY <1>2, <2>1 DEF Climb, MirrorTypeOK, CliTyped
  <1>3. CASE Skip(h)
    <2>1. Kept
      BY <1>3, SkipCalls, OneCallChanges
    <2>2. QED
      BY <1>3, <2>1 DEF Skip, MirrorTypeOK, CliTyped
  <1>4. CASE StampChange(h)
    <2>1. Kept
      BY <1>4, StampCalls, OneCallChanges
    <2>2. last' \in [Named -> Lasts]
      BY <1>4, LastReaches
    <2>3. QED
      BY <1>4, <2>1, <2>2 DEF StampChange, MirrorTypeOK, CliTyped
  <1>5. CASE CreateSnapshot(h)
    <2>1. Kept
      BY <1>5, CreateCalls, OneCallChanges
    <2>2. nextId \in 1..MaxSnapshots /\ nextId' = nextId + 1
      BY <1>5, CreateCalls DEF CreateSnapshot, Ids
    <2>a. nextId' \in 1..(MaxSnapshots + 1)
      BY <2>2, MirrorBoundsAssumption
    <2>b. last' \in [Named -> Lasts]
      BY <1>5, LastReaches
    <2>3. QED
      BY <1>5, <2>1, <2>a, <2>b DEF CreateSnapshot, MirrorTypeOK, CliTyped
  <1>6. CASE WriteChanges(h)
    <2>1. Kept
      BY <1>6, WriteCalls, OneCallChanges
    <2>2. events' \subseteq Events
      BY <1>6, WriteCalls DEF WriteChanges, MirrorTypeOK
    <2>3. QED
      BY <1>6, <2>1, <2>2 DEF WriteChanges, MirrorTypeOK, CliTyped
  <1>7. CASE CommitSnapshot(h)
    <2>1. Kept
      BY <1>7, IdleTyped, OneCallChanges DEF CommitSnapshot
    <2>2. last' \in [Named -> Lasts]
      BY <1>7, LastFiled
    <2>3. QED
      BY <1>7, <2>1, <2>2 DEF CommitSnapshot, MirrorTypeOK, CliTyped
  <1>8. CASE CommandLineEnds(h)
    <2>1. Kept
      BY <1>8, IdleTyped, OneCallChanges DEF CommandLineEnds
    <2>2. QED
      BY <1>8, <2>1 DEF CommandLineEnds, MirrorTypeOK, CliTyped
  <1>9. QED
    BY <1>1, <1>2, <1>3, <1>4, <1>5, <1>6, <1>7, <1>8 DEF CommandLineStep

LEMMA StepTypes ==
    ASSUME MirrorTypeOK, [MirrorNext]_mirrorVars
    PROVE  MirrorTypeOK'
  <1>1. CASE \E path \in Paths : RegisterProject(path)
    BY <1>1 DEF RegisterProject, MirrorTypeOK
  <1>2. CASE Tick
    <2>1. now' \in Times
      BY <1>2, MirrorBoundsAssumption DEF Tick, MirrorTypeOK, Times
    <2>2. QED
      BY <1>2, <2>1 DEF Tick, MirrorTypeOK
  <1>3. CASE UNCHANGED mirrorVars
    BY <1>3 DEF mirrorVars, MirrorTypeOK
  <1>4. QED
    BY <1>1, <1>2, <1>3, ModifyTypes, CommandLineTypes DEF MirrorNext

LEMMA InitTypes ==
    ASSUME MirrorInit PROVE MirrorTypeOK
  <1>1. Unrecorded(Nobody) \in Lasts
    BY DEF Unrecorded, Lasts
  <1>2. last \in [Named -> Lasts]
    BY <1>1 DEF MirrorInit
  <1>3. QED
    BY <1>2, MirrorBoundsAssumption DEF MirrorInit, MirrorTypeOK, Times, Idle

(* Every reachable state is well typed: no command line climbs above the   *)
(* root or works for a project that is not a path.                         *)
THEOREM MirrorTypes == MirrorSpec => []MirrorTypeOK
  <1>1. MirrorInit => MirrorTypeOK
    BY InitTypes
  <1>2. MirrorTypeOK /\ [MirrorNext]_mirrorVars => MirrorTypeOK'
    BY StepTypes
  <1>3. QED
    BY <1>1, <1>2, PTL DEF MirrorSpec

-----------------------------------------------------------------------------
(* The walk                                                                *)

(* Registering adds projects, so what was no project when it was climbed   *)
(* over was none when the hook fired.                                      *)
LEMMA StepWalks ==
    ASSUME MirrorTypeOK, WalkSoFar, WalkFindsNearest, [MirrorNext]_mirrorVars
    PROVE  WalkSoFar' /\ WalkFindsNearest'
  <1> DEFINE Fine(call) ==
        LET levels == Chain[PathOf(call.triple)] IN
        /\ call.phase = "walk" =>
              /\ call.known \subseteq projects'
              /\ \A j \in 1..(call.level - 1) : levels[j] \notin call.known
        /\ call.phase = "found" =>
              \E i \in 1..Len(levels) :
                 /\ levels[i] = call.project
                 /\ \A j \in 1..(i - 1) : levels[j] \notin call.known
        /\ call.phase = "skipped" =>
              \A i \in 1..Len(levels) : levels[i] \notin call.known
  <1>1. SUFFICES \A g \in Processes : Fine(cli'[g])
    BY DEF WalkSoFar, WalkFindsNearest, Levels
  <1>2. projects \subseteq projects'
    BY DEF MirrorNext, mirrorVars, ModifyAvu, RegisterProject, Tick,
           CommandLineStep, FindProject, Climb, Skip, StampChange,
           CreateSnapshot, WriteChanges, CommitSnapshot, CommandLineEnds
  <1>3. \A g \in Processes : Fine(cli[g])
    BY <1>2 DEF WalkSoFar, WalkFindsNearest, Levels
  <1>4. ASSUME NEW h \in Processes, NEW call, CliTyped(call),
               cli' = [cli EXCEPT ![h] = call], Fine(call)
        PROVE  \A g \in Processes : Fine(cli'[g])
    <2>1. cli'[h] = call /\ \A g \in Processes : g # h => cli'[g] = cli[g]
      BY <1>4, OneCallChanges
    <2> HIDE DEF Fine
    <2>2. QED
      BY <1>3, <1>4, <2>1
  <1>5. CASE UNCHANGED cli
    <2> HIDE DEF Fine
    <2>1. QED
      BY <1>3, <1>5
  <1>6. ASSUME NEW h \in Processes, NEW x \in Named, NEW option \in Options,
               ModifyAvu(h, x, option)
        PROVE  \A g \in Processes : Fine(cli'[g])
    <2> DEFINE call == [phase |-> "walk", triple |-> x, op |-> OpOf(option),
                        level |-> 1, known |-> projects]
    <2>1. CliTyped(call) /\ cli' = [cli EXCEPT ![h] = call]
      BY <1>6, ModifyCalls
    <2>2. Fine(call)
      BY <1>2
    <2> HIDE DEF Fine, call
    <2>3. QED
      BY <1>4, <2>1, <2>2
  <1>7. ASSUME NEW h \in Processes, CommandLineStep(h)
        PROVE  \A g \in Processes : Fine(cli'[g])
    <2> DEFINE levels == Chain[PathOf(cli[h].triple)]
    <2>1. CASE cli[h].phase = "walk"
      <3>1. /\ cli[h] \in Walks /\ cli[h].level \in Nat /\ cli[h].level >= 1
            /\ levels \in Seq(Paths) /\ Len(levels) \in Nat
            /\ cli[h].level <= Len(levels)
        <4>1. cli[h] \in Walks /\ cli[h].level <= Len(levels)
          BY <2>1, PhaseTypes DEF MirrorTypeOK
        <4>2. cli[h].level \in Nat \ {0} /\ PathOf(cli[h].triple) \in Paths
          BY <4>1, PathTyped DEF Walks
        <4>3. QED
          BY <4>1, <4>2, BoundsAreNumbers
      <3>2. /\ cli[h].known \subseteq projects
            /\ \A j \in 1..(cli[h].level - 1) : levels[j] \notin cli[h].known
        BY <2>1 DEF WalkSoFar, Levels
      <3>3. Looked(h) = levels[cli[h].level]
        BY DEF Looked
      <3>4. CASE FindProject(h)
        <4> DEFINE call == [phase |-> "found", triple |-> cli[h].triple,
                            op |-> cli[h].op, project |-> Looked(h),
                            known |-> cli[h].known]
        <4>1. CliTyped(call) /\ cli' = [cli EXCEPT ![h] = call]
          BY <3>4, FindCalls
        <4>2. Fine(call)
          BY <3>1, <3>2, <3>3
        <4> HIDE DEF Fine, call
        <4>3. QED
          BY <1>4, <4>1, <4>2
      <3>5. CASE Climb(h)
        <4> DEFINE call == [cli[h] EXCEPT !.level = @ + 1]
        <4>1. CliTyped(call) /\ cli' = [cli EXCEPT ![h] = call]
          BY <3>5, ClimbCalls
        <4>2. /\ call.level = cli[h].level + 1 /\ call.triple = cli[h].triple
              /\ call.known = cli[h].known /\ call.phase = "walk"
          BY <2>1, <3>1 DEF Walks
        <4>3. levels[cli[h].level] \notin cli[h].known
          BY <3>2, <3>3, <3>5 DEF Climb
        <4> HIDE DEF call
        <4>4. \A j \in 1..(call.level - 1) :
                 j = cli[h].level \/ j \in 1..(cli[h].level - 1)
          BY <3>1, <4>2
        <4>5. Fine(call)
          BY <1>2, <3>2, <4>2, <4>3, <4>4
        <4> HIDE DEF Fine
        <4>6. QED
          BY <1>4, <4>1, <4>5
      <3>6. CASE Skip(h)
        <4> DEFINE call == [phase |-> "skipped", triple |-> cli[h].triple,
                            known |-> cli[h].known]
        <4>1. CliTyped(call) /\ cli' = [cli EXCEPT ![h] = call]
          BY <3>6, SkipCalls
        <4>2. levels[cli[h].level] \notin cli[h].known
              /\ cli[h].level = Len(levels)
          BY <3>2, <3>3, <3>6 DEF Skip, LastLevel
        <4>3. \A i \in 1..Len(levels) :
                 i = cli[h].level \/ i \in 1..(cli[h].level - 1)
          BY <3>1, <4>2
        <4>4. Fine(call)
          BY <3>2, <4>2, <4>3
        <4> HIDE DEF Fine, call
        <4>5. QED
          BY <1>4, <4>1, <4>4
      <3>7. CASE CommandLineEnds(h)
        <4>1. CliTyped(Idle) /\ Fine(Idle)
          BY IdleTyped DEF Idle
        <4> HIDE DEF Fine
        <4>2. QED
          BY <1>4, <3>7, <4>1 DEF CommandLineEnds
      <3>8. QED
        BY <1>7, <2>1, <3>4, <3>5, <3>6, <3>7
           DEF CommandLineStep, StampChange, CreateSnapshot, WriteChanges,
               CommitSnapshot
    <2>2. CASE cli[h].phase # "walk"
      <3> DEFINE stamped == [phase |-> "stamped", triple |-> cli[h].triple,
                             op |-> cli[h].op, project |-> cli[h].project,
                             ts |-> now]
                 created == [phase |-> "created", triple |-> cli[h].triple,
                             op |-> cli[h].op, project |-> cli[h].project,
                             ts |-> cli[h].ts, id |-> nextId]
                 written == [phase |-> "written", triple |-> cli[h].triple,
                             row |-> RowOf(h)]
      <3>1. Fine(stamped) /\ Fine(created) /\ Fine(written)
        OBVIOUS
      <3>2. Fine(Idle)
        BY DEF Idle
      <3>3. StampChange(h) => CliTyped(stamped) /\ cli' = [cli EXCEPT ![h] = stamped]
        BY StampCalls
      <3>4. CreateSnapshot(h) => CliTyped(created) /\ cli' = [cli EXCEPT ![h] = created]
        BY CreateCalls
      <3>5. WriteChanges(h) => CliTyped(written) /\ cli' = [cli EXCEPT ![h] = written]
        BY WriteCalls
      <3>6. CommitSnapshot(h) \/ CommandLineEnds(h) =>
               CliTyped(Idle) /\ cli' = [cli EXCEPT ![h] = Idle]
        BY IdleTyped DEF CommitSnapshot, CommandLineEnds
      <3>7. \/ StampChange(h) \/ CreateSnapshot(h) \/ WriteChanges(h)
            \/ CommitSnapshot(h) \/ CommandLineEnds(h)
        BY <1>7, <2>2 DEF CommandLineStep, FindProject, Climb, Skip
      <3> HIDE DEF Fine, stamped, created, written
      <3>8. QED
        BY <1>4, <3>1, <3>2, <3>3, <3>4, <3>5, <3>6, <3>7
    <2>3. QED
      BY <2>1, <2>2
  <1> HIDE DEF Fine
  <1>8. QED
    BY <1>5, <1>6, <1>7 DEF MirrorNext, mirrorVars, RegisterProject, Tick

-----------------------------------------------------------------------------
(* The order of the records                                                *)

(* The same, field by field.                                               *)
OthersKept(h) == \A g \in Processes : g # h => cli'[g] = cli[g]

LEMMA FindMoves ==
    ASSUME MirrorTypeOK, NEW h \in Processes, FindProject(h)
    PROVE  /\ OthersKept(h)
           /\ cli'[h].phase = "found"
           /\ cli'[h].triple = cli[h].triple
           /\ cli'[h].op = cli[h].op
           /\ cli'[h].project = Looked(h)
           /\ cli'[h].known = cli[h].known
  BY DEF FindProject, OthersKept, MirrorTypeOK

LEMMA SkipMoves ==
    ASSUME MirrorTypeOK, NEW h \in Processes, Skip(h)
    PROVE  /\ OthersKept(h)
           /\ cli'[h].phase = "skipped"
           /\ cli'[h].triple = cli[h].triple
           /\ cli'[h].known = cli[h].known
  BY DEF Skip, OthersKept, MirrorTypeOK

LEMMA StampMoves ==
    ASSUME MirrorTypeOK, NEW h \in Processes, StampChange(h)
    PROVE  /\ OthersKept(h)
           /\ cli'[h].phase = "stamped"
           /\ cli'[h].triple = cli[h].triple
           /\ cli'[h].op = cli[h].op
           /\ cli'[h].project = cli[h].project
           /\ cli'[h].ts = now
  BY DEF StampChange, OthersKept, MirrorTypeOK

LEMMA CreateMoves ==
    ASSUME MirrorTypeOK, NEW h \in Processes, CreateSnapshot(h)
    PROVE  /\ OthersKept(h)
           /\ cli'[h].phase = "created"
           /\ cli'[h].triple = cli[h].triple
           /\ cli'[h].op = cli[h].op
           /\ cli'[h].project = cli[h].project
           /\ cli'[h].ts = cli[h].ts
           /\ cli'[h].id = nextId
  BY DEF CreateSnapshot, OthersKept, MirrorTypeOK

LEMMA WriteMoves ==
    ASSUME MirrorTypeOK, NEW h \in Processes, WriteChanges(h)
    PROVE  /\ OthersKept(h)
           /\ cli'[h].phase = "written"
           /\ cli'[h].triple = cli[h].triple
           /\ cli'[h].row = RowOf(h)
  BY DEF WriteChanges, OthersKept, MirrorTypeOK

LEMMA ClimbMoves ==
    ASSUME MirrorTypeOK, NEW h \in Processes, Climb(h)
    PROVE  /\ OthersKept(h)
           /\ cli'[h].phase = "walk"
           /\ cli'[h].triple = cli[h].triple
           /\ cli'[h].op = cli[h].op
  BY PhaseTypes DEF Climb, OthersKept, MirrorTypeOK, Walks

LEMMA EndMoves ==
    ASSUME MirrorTypeOK, NEW h \in Processes,
           CommitSnapshot(h) \/ CommandLineEnds(h)
    PROVE  OthersKept(h) /\ cli'[h].phase = "idle"
  BY DEF CommitSnapshot, CommandLineEnds, Idle, OthersKept, MirrorTypeOK

LEMMA ModifyMoves ==
    ASSUME MirrorTypeOK, NEW h \in Processes, NEW x \in Named,
           NEW option \in Options, ModifyAvu(h, x, option)
    PROVE  /\ OthersKept(h)
           /\ cli'[h].phase = "walk"
           /\ cli'[h].triple = x
           /\ cli'[h].op = OpOf(option)
  BY DEF ModifyAvu, OthersKept, MirrorTypeOK

LEMMA RecordNumbers ==
    ASSUME MirrorTypeOK
    PROVE  /\ now \in Nat /\ nextId \in Nat
           /\ \A e \in events : e.ts \in Nat /\ e.snapshot \in Nat
           /\ \A h \in Processes :
                 /\ cli[h].phase \in {"stamped", "created"} => cli[h].ts \in Nat
                 /\ cli[h].phase = "created" => cli[h].id \in Nat
  <1>1. now \in Nat /\ nextId \in Nat
    BY BoundsAreNumbers DEF MirrorTypeOK
  <1>2. \A e \in events : e.ts \in Nat /\ e.snapshot \in Nat
    BY BoundsAreNumbers DEF MirrorTypeOK, Events
  <1>3. \A h \in Processes : cli[h].phase = "stamped" => cli[h].ts \in Nat
    BY PhaseTypes, BoundsAreNumbers DEF Stampeds
  <1>4. \A h \in Processes :
           cli[h].phase = "created" => cli[h].ts \in Nat /\ cli[h].id \in Nat
    BY PhaseTypes, BoundsAreNumbers DEF Createds
  <1>5. QED
    BY <1>1, <1>2, <1>3, <1>4

(* A step that neither stamps nor records.                                 *)
LEMMA QuietStepIsPast ==
    ASSUME MirrorTypeOK, RecordsArePast, UNCHANGED <<events, nextId>>,
           now' \in Nat, now <= now',
           \A g \in Processes :
              cli'[g].phase \in {"stamped", "created"} => cli'[g] = cli[g]
    PROVE  RecordsArePast'
  <1>1. \A e \in events : e.ts <= now' /\ e.snapshot < nextId
    BY RecordNumbers DEF RecordsArePast
  <1>2. ASSUME NEW g \in Processes, cli'[g].phase \in {"stamped", "created"}
        PROVE  /\ cli'[g].ts <= now'
               /\ cli'[g].phase = "created" => cli'[g].id < nextId
    <2>1. cli'[g] = cli[g]
      BY <1>2
    <2>2. /\ cli[g].ts <= now /\ cli[g].ts \in Nat /\ now \in Nat
          /\ cli[g].phase = "created" => cli[g].id < nextId
      BY <1>2, <2>1, RecordNumbers DEF RecordsArePast
    <2>3. QED
      BY <2>1, <2>2
  <1>3. QED
    BY <1>1, <1>2 DEF RecordsArePast

LEMMA StepPast ==
    ASSUME MirrorTypeOK, RecordsArePast, [MirrorNext]_mirrorVars
    PROVE  RecordsArePast'
  <1>0. now \in Nat
    BY RecordNumbers
  <1>1. CASE UNCHANGED mirrorVars
    BY <1>0, <1>1, QuietStepIsPast DEF mirrorVars
  <1>2. CASE Tick
    <2>1. now' \in Nat /\ now <= now'
      BY <1>0, <1>2 DEF Tick
    <2>2. QED
      BY <1>2, <2>1, QuietStepIsPast DEF Tick
  <1>3. CASE \E path \in Paths : RegisterProject(path)
    BY <1>0, <1>3, QuietStepIsPast DEF RegisterProject
  <1>4. ASSUME NEW h \in Processes, NEW x \in Named, NEW option \in Options,
               ModifyAvu(h, x, option)
        PROVE  RecordsArePast'
    <2>1. \A g \in Processes : g # h => cli'[g] = cli[g]
      BY <1>4, ModifyMoves DEF OthersKept
    <2>2. cli'[h].phase = "walk"
      BY <1>4, ModifyMoves DEF OthersKept
    <2>3. UNCHANGED <<now, events, nextId>>
      BY <1>4 DEF ModifyAvu
    <2>4. QED
      BY <1>0, <2>1, <2>2, <2>3, QuietStepIsPast
  <1>5. ASSUME NEW h \in Processes, CommandLineStep(h)
        PROVE  RecordsArePast'
    <2>1. CASE FindProject(h)
      <3>1. cli'[h].phase = "found" /\ \A g \in Processes : g # h => cli'[g] = cli[g]
        BY <2>1, FindMoves DEF OthersKept
      <3>2. QED
        BY <1>0, <2>1, <3>1, QuietStepIsPast DEF FindProject
    <2>2. CASE Climb(h)
      <3>1. cli'[h].phase = "walk" /\ \A g \in Processes : g # h => cli'[g] = cli[g]
        BY <2>2, ClimbMoves DEF OthersKept
      <3>2. QED
        BY <1>0, <2>2, <3>1, QuietStepIsPast DEF Climb
    <2>3. CASE Skip(h)
      <3>1. cli'[h].phase = "skipped" /\ \A g \in Processes : g # h => cli'[g] = cli[g]
        BY <2>3, SkipMoves DEF OthersKept
      <3>2. QED
        BY <1>0, <2>3, <3>1, QuietStepIsPast DEF Skip
    <2>4. CASE CommitSnapshot(h) \/ CommandLineEnds(h)
      <3>1. cli'[h].phase = "idle" /\ \A g \in Processes : g # h => cli'[g] = cli[g]
        BY <2>4, EndMoves DEF OthersKept
      <3>3. UNCHANGED <<now, events, nextId>>
        BY <2>4 DEF CommitSnapshot, CommandLineEnds
      <3>4. QED
        BY <1>0, <3>1, <3>3, QuietStepIsPast
    <2>5. CASE StampChange(h)
      <3>1. /\ cli'[h].phase = "stamped" /\ cli'[h].ts = now
            /\ \A g \in Processes : g # h => cli'[g] = cli[g]
        BY <2>5, StampMoves DEF OthersKept
      <3>2. UNCHANGED <<now, events, nextId>>
        BY <2>5 DEF StampChange
      <3>3. QED
        BY <1>0, <3>1, <3>2 DEF RecordsArePast
    <2>6. CASE CreateSnapshot(h)
      <3>1. /\ cli'[h].phase = "created" /\ cli'[h].ts = cli[h].ts
            /\ cli'[h].id = nextId
            /\ \A g \in Processes : g # h => cli'[g] = cli[g]
        BY <2>6, CreateMoves DEF OthersKept
      <3>2. /\ UNCHANGED <<now, events>> /\ nextId' = nextId + 1
            /\ cli[h].phase = "stamped"
        BY <2>6 DEF CreateSnapshot
      <3>3. QED
        BY <3>1, <3>2, RecordNumbers DEF RecordsArePast
    <2>7. CASE WriteChanges(h)
      <3>1. /\ cli'[h].phase = "written"
            /\ \A g \in Processes : g # h => cli'[g] = cli[g]
        BY <2>7, WriteMoves DEF OthersKept
      <3>2. /\ UNCHANGED <<now, nextId>> /\ events' = events \cup {RowOf(h)}
            /\ cli[h].phase = "created"
        BY <2>7 DEF WriteChanges
      <3>3. RowOf(h).ts <= now /\ RowOf(h).snapshot < nextId
        BY <3>2 DEF RecordsArePast, RowOf
      <3>4. QED
        BY <3>1, <3>2, <3>3 DEF RecordsArePast
    <2>8. QED
      BY <1>5, <2>1, <2>2, <2>3, <2>4, <2>5, <2>6, <2>7 DEF CommandLineStep
  <1>6. QED
    BY <1>1, <1>2, <1>3, <1>4, <1>5 DEF MirrorNext

-----------------------------------------------------------------------------
(* The newest record of a triple                                           *)

LEMMA RowNumbers ==
    ASSUME MirrorTypeOK, RecordsArePast, NEW x \in Named, NEW e \in RowsOf(x)
    PROVE  /\ e.ts \in Nat /\ e.snapshot \in Nat
           /\ e.ts <= now /\ e.snapshot < nextId
  <1>1. CASE e \in EventsOf(x)
    BY <1>1, RecordNumbers DEF EventsOf, RecordsArePast
  <1>2. CASE e \in PendingOf(x)
    <2>1. PICK g \in Processes : cli[g].phase = "created" /\ e = RowOf(g)
      BY <1>2 DEF PendingOf
    <2>2. e.ts = cli[g].ts /\ e.snapshot = cli[g].id
      BY <2>1 DEF RowOf
    <2>3. QED
      BY <2>1, <2>2, RecordNumbers DEF RecordsArePast
  <1>3. QED
    BY <1>1, <1>2 DEF RowsOf

(* A command line that keeps what it knows keeps its row.                  *)
LEMMA RowKept ==
    ASSUME NEW g \in Processes, cli'[g] = cli[g] PROVE RowOf(g)' = RowOf(g)
  BY DEF RowOf

(* A step that adds no row and no stamp of x, of one command line or none. *)
LEMMA SameStory ==
    ASSUME NEW h \in Processes, NEW x \in Named, Story(x), OthersKept(h),
           EventsOf(x)' = EventsOf(x), last'[x] = last[x],
           x \in Shown' <=> x \in Shown,
           cli'[h].phase \in {"stamped", "created"} => cli'[h].triple # x,
           RecordsLast(h, x)' =>
              /\ RecordsLast(h, x) /\ cli'[h].op = cli[h].op
              /\ cli[h].phase = "walk" /\ cli'[h].phase \in {"walk", "found"}
    PROVE  Story(x)'
  <1>1. PendingOf(x)' \subseteq PendingOf(x)
    <2> SUFFICES ASSUME NEW e \in PendingOf(x)' PROVE e \in PendingOf(x)
      OBVIOUS
    <2>1. PICK g \in Processes : /\ cli'[g].phase = "created"
                                 /\ cli'[g].triple = x
                                 /\ e = RowOf(g)'
      BY DEF PendingOf
    <2>2. g # h /\ cli'[g] = cli[g]
      BY <2>1 DEF OthersKept
    <2>3. QED
      BY <2>1, <2>2, RowKept DEF PendingOf
  <1>2. RowsOf(x)' \subseteq RowsOf(x) /\ EventsOf(x) \subseteq RowsOf(x)'
    BY <1>1 DEF RowsOf
  <1>3. ASSUME NEW e, Tells(e, x), e \in RowsOf(x)' PROVE Tells(e, x)'
    BY <1>2, <1>3 DEF Tells
  <1>4. ASSUME NEW ts, LatestStamp(x, ts) PROVE LatestStamp(x, ts)'
    <2>1. ASSUME NEW g \in Processes, cli'[g].phase = "stamped",
                 cli'[g].triple = x
          PROVE  cli'[g].ts <= ts
      <3>1. g # h /\ cli'[g] = cli[g]
        BY <2>1 DEF OthersKept
      <3>2. QED
        BY <1>4, <2>1, <3>1 DEF LatestStamp
    <2>2. \A e \in RowsOf(x)' : e.ts <= ts
      BY <1>2, <1>4 DEF LatestStamp
    <2>3. QED
      BY <2>1, <2>2 DEF LatestStamp
  <1>5. ASSUME NEW g \in Processes, RecordsLast(g, x)' PROVE WillTell(g, x)'
    <2>1. CASE g = h
      <3>1. WillTell(h, x)
        BY <1>5, <2>1 DEF Story
      <3>2. QED
        BY <1>5, <2>1, <3>1 DEF WillTell
    <2>2. CASE g # h
      <3>1. cli'[g] = cli[g] /\ RowOf(g)' = RowOf(g)
        BY <2>2, RowKept DEF OthersKept
      <3>2. RecordsLast(g, x) /\ WillTell(g, x) /\ cli[g].triple = x
        BY <1>5, <3>1 DEF RecordsLast, Running, Story
      <3>3. cli[g].phase = "created" => RowOf(g) \in RowsOf(x)'
        BY <3>1, <3>2 DEF RowsOf, PendingOf
      <3>4. ASSUME ~last[x].overtaken
            PROVE  /\ cli[g].phase = "stamped" => LatestStamp(x, cli[g].ts)'
                   /\ cli[g].phase = "created" => Tells(RowOf(g), x)'
                   /\ cli[g].phase = "written" =>
                         /\ cli[g].row \in EventsOf(x)'
                         /\ Tells(cli[g].row, x)'
        <4>1. cli[g].phase = "stamped" => LatestStamp(x, cli[g].ts)'
          <5> SUFFICES ASSUME NEW ts, ts = cli[g].ts, cli[g].phase = "stamped"
                       PROVE  LatestStamp(x, cli[g].ts)'
            OBVIOUS
          <5>1. LatestStamp(x, ts)'
            BY <1>4, <3>2, <3>4 DEF WillTell
          <5>2. QED
            BY <3>1, <5>1
        <4>2. cli[g].phase = "created" => Tells(RowOf(g), x)'
          <5> SUFFICES ASSUME NEW row, row = RowOf(g), cli[g].phase = "created"
                       PROVE  Tells(RowOf(g), x)'
            OBVIOUS
          <5>1. Tells(row, x)'
            BY <1>3, <3>2, <3>3, <3>4 DEF WillTell
          <5>2. QED
            BY <3>1, <5>1
        <4>3. cli[g].phase = "written" => /\ cli[g].row \in EventsOf(x)'
                                          /\ Tells(cli[g].row, x)'
          <5> SUFFICES ASSUME NEW row, row = cli[g].row, cli[g].phase = "written"
                       PROVE  /\ cli[g].row \in EventsOf(x)'
                              /\ Tells(cli[g].row, x)'
            OBVIOUS
          <5>1. row \in EventsOf(x)' /\ Tells(row, x)'
            BY <1>2, <1>3, <3>2, <3>4 DEF WillTell
          <5>2. QED
            BY <3>1, <5>1
        <4>4. QED
          BY <4>1, <4>2, <4>3
      <3>5. QED
        BY <3>1, <3>2, <3>4 DEF WillTell
    <2>3. QED
      BY <2>1, <2>2
  <1>6. FiledTells(x)'
    BY <1>2, <1>3 DEF Story, FiledTells
  <1>7. QED
    BY <1>5, <1>6 DEF Story
(* Before a record of the last change of x has a stamp, nothing is known   *)
(* of the order, so nothing is claimed.                                    *)
LEMMA UnstampedTells ==
    ASSUME NEW g \in Processes, NEW x, WillTell(g, x), cli'[g] = cli[g],
           last'[x].project = last[x].project, last'[x].stage = last[x].stage,
           x \in Shown' <=> x \in Shown,
           cli[g].phase \in {"walk", "found", "stamped", "created", "written"},
           last[x].stage = "made" \/ last'[x].overtaken
    PROVE  WillTell(g, x)'
  BY DEF WillTell

LEMMA RunningPhases ==
    ASSUME MirrorTypeOK, NEW h \in Processes, Running(h)
    PROVE  /\ cli[h].phase \in {"walk", "found", "stamped", "created", "written"}
           /\ cli[h].triple \in Named
           /\ last[cli[h].triple] \in Lasts
           /\ last[cli[h].triple].stage \in {"made", "stamped", "numbered"}
  BY PhaseTypes DEF Running, MirrorTypeOK, Lasts

(* A stamp is the latest so far.                                           *)
LEMMA StampTells ==
    ASSUME MirrorTypeOK, RecordsArePast, NEW h \in Processes, StampChange(h),
           Story(cli[h].triple), NEW x, x = cli[h].triple
    PROVE  Story(x)'
  <1>1. /\ OthersKept(h) /\ cli'[h].phase = "stamped" /\ cli'[h].ts = now
        /\ cli'[h].triple = x /\ cli'[h].op = cli[h].op
        /\ cli[h].phase = "found" /\ Running(h)
        /\ UNCHANGED <<now, events, bound, unnamed>>
    BY StampMoves DEF StampChange, Running
  <1>2. /\ x \in Named /\ last[x] \in Lasts
        /\ last[x].stage \in {"made", "stamped", "numbered"}
    BY <1>1, RunningPhases
  <1>3. /\ last'[x].by = last[x].by /\ last'[x].project = last[x].project
        /\ last[x].by = h => /\ last'[x].stage = "stamped"
                             /\ last'[x].overtaken = last[x].overtaken
        /\ last[x].by # h =>
              /\ last'[x].stage = last[x].stage
              /\ last[x].stage # "made" => last'[x].overtaken
    <2> DEFINE passed == {"numbered"} \cup {"stamped"}
    <2>1. last'[x] = Reached(last[x], h, "stamped", passed)
      BY <1>1, LastReaches
    <2>2. passed \in SUBSET {"made", "stamped", "numbered"}
      OBVIOUS
    <2>3. /\ "numbered" \in passed
          /\ "stamped" = "stamped" => "stamped" \in passed
      OBVIOUS
    <2>4. PICK r : r = Reached(last[x], h, "stamped", passed)
      OBVIOUS
    <2> HIDE DEF passed
    <2>5. /\ r.by = last[x].by /\ r.project = last[x].project
          /\ last[x].by = h => r.stage = "stamped" /\ r.overtaken = last[x].overtaken
          /\ last[x].by # h => /\ r.stage = last[x].stage
                               /\ last[x].overtaken => r.overtaken
                               /\ last[x].stage \in passed => r.overtaken
      BY <1>2, <2>2, <2>4, ReachedTyped
    <2>6. last'[x] = r
      BY <2>1, <2>4
    <2>7. QED
      BY <1>2, <2>3, <2>5, <2>6
  <1>4. Shown' = Shown /\ EventsOf(x)' = EventsOf(x)
    BY <1>1 DEF Shown, EventsOf
  <1>5. RowsOf(x)' \subseteq RowsOf(x)
    <2>1. ASSUME NEW e \in PendingOf(x)' PROVE e \in PendingOf(x)
      <3>1. PICK g \in Processes : /\ cli'[g].phase = "created"
                                   /\ cli'[g].triple = x
                                   /\ e = RowOf(g)'
        BY DEF PendingOf
      <3>2. cli'[g] = cli[g]
        BY <1>1, <3>1 DEF OthersKept
      <3>3. QED
        BY <3>1, <3>2, RowKept DEF PendingOf
    <2>2. QED
      BY <1>4, <2>1 DEF RowsOf
  <1>6. ASSUME NEW g \in Processes, RecordsLast(g, x)' PROVE WillTell(g, x)'
    <2>1. CASE g = h
      <3>1. last[x].by = h /\ WillTell(h, x)
        BY <1>1, <1>3, <1>6, <2>1 DEF RecordsLast, Story
      <3>2. LatestStamp(x, now)'
        <4>1. \A e \in RowsOf(x)' : e.ts <= now
          BY <1>2, <1>5, RowNumbers
        <4>2. ASSUME NEW f \in Processes, cli'[f].phase = "stamped"
              PROVE  cli'[f].ts <= now
          <5>1. CASE f = h
            BY <1>1, <5>1, RecordNumbers
          <5>2. CASE f # h
            BY <1>1, <4>2, <5>2 DEF OthersKept, RecordsArePast
          <5>3. QED
            BY <5>1, <5>2
        <4>3. QED
          BY <1>1, <4>1, <4>2 DEF LatestStamp
      <3>3. LatestStamp(x, cli[h].ts)'
        BY <1>1, <3>2
      <3>4. QED
        BY <1>1, <1>3, <1>4, <2>1, <3>1, <3>3 DEF WillTell
    <2>2. CASE g # h
      <3>1. cli'[g] = cli[g] /\ last[x].by # h
        BY <1>1, <1>3, <1>6, <2>2 DEF OthersKept, RecordsLast
      <3>2. RecordsLast(g, x) /\ WillTell(g, x)
        BY <1>3, <1>6, <3>1 DEF RecordsLast, Running, Story
      <3>3. QED
        BY <1>2, <1>3, <1>4, <3>1, <3>2, RunningPhases, UnstampedTells
           DEF RecordsLast
    <2>3. QED
      BY <2>1, <2>2
  <1>7. FiledTells(x)'
    <2>1. last[x].by = h => last[x].project = NoProject
      BY <1>1 DEF Story, RecordsLast, WillTell
    <2>2. QED
      BY <1>3, <2>1 DEF Story, FiledTells
  <1>8. QED
    BY <1>6, <1>7 DEF Story

(* The row that gets a snapshot is the only one that becomes a row.        *)
LEMMA CreateRows ==
    ASSUME MirrorTypeOK, NEW h \in Processes, CreateSnapshot(h),
           NEW x, x = cli[h].triple
    PROVE  /\ RowsOf(x)' \subseteq RowsOf(x) \cup {RowOf(h)'}
           /\ RowOf(h)' \in RowsOf(x)'
           /\ RowOf(h)'.ts = cli[h].ts /\ RowOf(h)'.snapshot = nextId
           /\ RowOf(h)'.op = cli[h].op
  <1>1. /\ OthersKept(h) /\ cli'[h].phase = "created"
        /\ cli'[h].triple = x /\ cli'[h].op = cli[h].op
        /\ cli'[h].ts = cli[h].ts /\ cli'[h].id = nextId
        /\ events' = events
    BY CreateMoves DEF CreateSnapshot
  <1>2. EventsOf(x)' = EventsOf(x)
    BY <1>1 DEF EventsOf
  <1>3. ASSUME NEW e \in PendingOf(x)' PROVE e \in PendingOf(x) \cup {RowOf(h)'}
    <2>1. PICK g \in Processes : /\ cli'[g].phase = "created"
                                 /\ cli'[g].triple = x
                                 /\ e = RowOf(g)'
      BY DEF PendingOf
    <2>2. CASE g = h
      BY <2>1, <2>2
    <2>3. CASE g # h
      <3>1. cli'[g] = cli[g]
        BY <1>1, <2>3 DEF OthersKept
      <3>2. QED
        BY <2>1, <3>1, RowKept DEF PendingOf
    <2>4. QED
      BY <2>2, <2>3
  <1>4. RowOf(h)' \in PendingOf(x)'
    BY <1>1 DEF PendingOf
  <1>5. QED
    BY <1>1, <1>2, <1>3, <1>4 DEF RowsOf, RowOf

(* The latest stamp with the highest id makes the newest row.              *)
LEMMA CreateTells ==
    ASSUME MirrorTypeOK, RecordsArePast, NEW h \in Processes, CreateSnapshot(h),
           Story(cli[h].triple), NEW x, x = cli[h].triple
    PROVE  Story(x)'
  <1>1. /\ OthersKept(h) /\ cli'[h].phase = "created"
        /\ cli'[h].triple = x /\ cli'[h].op = cli[h].op
        /\ cli'[h].ts = cli[h].ts
        /\ cli[h].phase = "stamped" /\ Running(h)
        /\ UNCHANGED <<now, events, bound, unnamed>>
    BY CreateMoves DEF CreateSnapshot, Running
  <1>2. /\ x \in Named /\ last[x] \in Lasts
        /\ last[x].stage \in {"made", "stamped", "numbered"}
    BY <1>1, RunningPhases
  <1>3. /\ last'[x].by = last[x].by /\ last'[x].project = last[x].project
        /\ last[x].by = h => /\ last'[x].stage = "numbered"
                             /\ last'[x].overtaken = last[x].overtaken
        /\ last[x].by # h =>
              /\ last'[x].stage = last[x].stage
              /\ last[x].stage = "numbered" => last'[x].overtaken
              /\ last[x].overtaken => last'[x].overtaken
    <2> DEFINE passed == {"numbered"} \cup {}
    <2>1. last'[x] = Reached(last[x], h, "numbered", passed)
      BY <1>1, LastReaches
    <2>2. passed \in SUBSET {"made", "stamped", "numbered"}
      OBVIOUS
    <2>3. /\ "numbered" \in passed
          /\ "numbered" = "stamped" => "stamped" \in passed
      OBVIOUS
    <2>4. PICK r : r = Reached(last[x], h, "numbered", passed)
      OBVIOUS
    <2> HIDE DEF passed
    <2>5. /\ r.by = last[x].by /\ r.project = last[x].project
          /\ last[x].by = h => r.stage = "numbered" /\ r.overtaken = last[x].overtaken
          /\ last[x].by # h => /\ r.stage = last[x].stage
                               /\ last[x].overtaken => r.overtaken
                               /\ last[x].stage \in passed => r.overtaken
      BY <1>2, <2>2, <2>4, ReachedTyped
    <2>6. last'[x] = r
      BY <2>1, <2>4
    <2>7. QED
      BY <1>2, <2>3, <2>5, <2>6
  <1>4. Shown' = Shown
    BY <1>1 DEF Shown
  <1>5. PICK row : /\ row = RowOf(h)' /\ row \in RowsOf(x)'
                   /\ RowsOf(x)' \subseteq RowsOf(x) \cup {row}
                   /\ row.ts = cli[h].ts /\ row.snapshot = nextId
                   /\ row.op = cli[h].op
    BY CreateRows
  <1>6. ASSUME NEW g \in Processes, RecordsLast(g, x)' PROVE WillTell(g, x)'
    <2>1. CASE g = h
      <3>1. last[x].by = h /\ WillTell(h, x)
        BY <1>1, <1>3, <1>6, <2>1 DEF RecordsLast, Story
      <3>2. ASSUME ~last[x].overtaken PROVE Tells(row, x)'
        <4>1. LatestStamp(x, cli[h].ts)
          BY <1>1, <3>1, <3>2 DEF WillTell
        <4>2. ASSUME NEW f \in RowsOf(x)', f # row PROVE Precedes(row, f)
          <5>1. f \in RowsOf(x)
            BY <1>5, <4>2
          <5>2. /\ f.ts \in Nat /\ f.snapshot \in Nat /\ f.snapshot < nextId
                /\ f.ts <= row.ts /\ row.ts \in Nat /\ row.snapshot \in Nat
            BY <1>1, <1>2, <1>5, <4>1, <5>1, RowNumbers, RecordNumbers
               DEF LatestStamp
          <5>3. QED
            BY <1>5, <5>2 DEF Precedes
        <4>3. row.op = "add" <=> x \in Shown'
          BY <1>1, <1>4, <1>5, <3>1 DEF WillTell
        <4>4. QED
          BY <1>5, <4>2, <4>3 DEF Tells
      <3>3. ASSUME ~last[x].overtaken PROVE Tells(RowOf(h), x)'
        BY <1>5, <3>2, <3>3
      <3>4. QED
        BY <1>1, <1>3, <1>4, <2>1, <3>1, <3>3 DEF WillTell
    <2>2. CASE g # h
      <3>1. cli'[g] = cli[g] /\ last[x].by # h
        BY <1>1, <1>3, <1>6, <2>2 DEF OthersKept, RecordsLast
      <3>2. RecordsLast(g, x) /\ WillTell(g, x)
        BY <1>3, <1>6, <3>1 DEF RecordsLast, Running, Story
      <3>3. CASE cli[g].phase = "stamped" /\ ~last'[x].overtaken
        <4>1. LatestStamp(x, cli[g].ts)
          BY <1>3, <3>1, <3>2, <3>3 DEF WillTell
        <4>2. cli[h].ts <= cli[g].ts
          BY <1>1, <4>1 DEF LatestStamp
        <4>3. \A e \in RowsOf(x)' : e.ts <= cli[g].ts
          BY <1>5, <4>1, <4>2 DEF LatestStamp
        <4>4. ASSUME NEW f \in Processes, cli'[f].phase = "stamped",
                     cli'[f].triple = x
              PROVE  cli'[f].ts <= cli[g].ts
          <5>1. cli'[f] = cli[f]
            BY <1>1, <4>4 DEF OthersKept
          <5>2. QED
            BY <4>1, <4>4, <5>1 DEF LatestStamp
        <4>5. LatestStamp(x, cli[g].ts)'
          BY <3>1, <4>3, <4>4 DEF LatestStamp
        <4>6. QED
          BY <1>3, <1>4, <3>1, <3>2, <3>3, <4>5 DEF WillTell
      <3>4. CASE ~(cli[g].phase = "stamped" /\ ~last'[x].overtaken)
        <4>1. last[x].stage = "made" \/ last'[x].overtaken
          BY <1>3, <3>1, <3>2, <3>4, RunningPhases DEF WillTell, RecordsLast
        <4>2. QED
          BY <1>3, <1>4, <3>1, <3>2, <4>1, RunningPhases, UnstampedTells
             DEF RecordsLast
      <3>5. QED
        BY <3>3, <3>4
    <2>3. QED
      BY <2>1, <2>2
  <1>7. FiledTells(x)'
    <2>1. last[x].by = h => last[x].project = NoProject
      BY <1>1 DEF Story, RecordsLast, WillTell
    <2>2. QED
      BY <1>3, <2>1 DEF Story, FiledTells
  <1>8. QED
    BY <1>6, <1>7 DEF Story
(* Writing a row changes nothing: it was counted since it got its id.      *)
LEMMA WriteRows ==
    ASSUME MirrorTypeOK, NEW h \in Processes, WriteChanges(h),
           NEW x, x = cli[h].triple
    PROVE  /\ RowsOf(x)' = RowsOf(x)
           /\ EventsOf(x)' = EventsOf(x) \cup {RowOf(h)}
           /\ RowOf(h) \in RowsOf(x)
  <1>1. /\ OthersKept(h) /\ cli'[h].phase = "written"
        /\ cli[h].phase = "created"
        /\ events' = events \cup {RowOf(h)}
    BY WriteMoves DEF WriteChanges
  <1>2. RowOf(h).triple = x /\ RowOf(h) \in PendingOf(x)
    BY <1>1 DEF RowOf, PendingOf
  <1>3. EventsOf(x)' = EventsOf(x) \cup {RowOf(h)}
    BY <1>1, <1>2 DEF EventsOf
  <1>4. ASSUME NEW e \in PendingOf(x)' PROVE e \in PendingOf(x)
    <2>1. PICK g \in Processes : /\ cli'[g].phase = "created"
                                 /\ cli'[g].triple = x
                                 /\ e = RowOf(g)'
      BY DEF PendingOf
    <2>2. cli'[g] = cli[g]
      BY <1>1, <2>1 DEF OthersKept
    <2>3. QED
      BY <2>1, <2>2, RowKept DEF PendingOf
  <1>5. ASSUME NEW e \in PendingOf(x) PROVE e \in PendingOf(x)' \cup {RowOf(h)}
    <2>1. PICK g \in Processes : /\ cli[g].phase = "created"
                                 /\ cli[g].triple = x
                                 /\ e = RowOf(g)
      BY DEF PendingOf
    <2>2. CASE g = h
      BY <2>1, <2>2
    <2>3. CASE g # h
      <3>1. cli'[g] = cli[g] /\ RowOf(g)' = RowOf(g)
        BY <1>1, <2>3, RowKept DEF OthersKept
      <3>2. QED
        BY <2>1, <3>1 DEF PendingOf
    <2>4. QED
      BY <2>2, <2>3
  <1>6. QED
    BY <1>2, <1>3, <1>4, <1>5 DEF RowsOf

LEMMA WriteTells ==
    ASSUME MirrorTypeOK, NEW h \in Processes, WriteChanges(h),
           Story(cli[h].triple), NEW x, x = cli[h].triple
    PROVE  Story(x)'
  <1>1. /\ OthersKept(h) /\ cli'[h].phase = "written" /\ cli'[h].triple = x
        /\ cli'[h].row = RowOf(h) /\ cli[h].phase = "created" /\ Running(h)
        /\ UNCHANGED <<bound, unnamed, last>>
    BY WriteMoves DEF WriteChanges, Running
  <1>2. PICK row : /\ row = RowOf(h) /\ row \in RowsOf(x)
                   /\ EventsOf(x)' = EventsOf(x) \cup {row}
                   /\ RowsOf(x)' = RowsOf(x)
    BY WriteRows
  <1>3. Shown' = Shown
    BY <1>1 DEF Shown
  <1>4. ASSUME NEW e, Tells(e, x) PROVE Tells(e, x)'
    BY <1>2, <1>3, <1>4 DEF Tells
  <1>5. ASSUME NEW ts, LatestStamp(x, ts) PROVE LatestStamp(x, ts)'
    <2>1. ASSUME NEW g \in Processes, cli'[g].phase = "stamped",
                 cli'[g].triple = x
          PROVE  cli'[g].ts <= ts
      <3>1. cli'[g] = cli[g]
        BY <1>1, <2>1 DEF OthersKept
      <3>2. QED
        BY <1>5, <2>1, <3>1 DEF LatestStamp
    <2>2. QED
      BY <1>2, <1>5, <2>1 DEF LatestStamp
  <1>6. ASSUME NEW g \in Processes, RecordsLast(g, x)' PROVE WillTell(g, x)'
    <2>1. CASE g = h
      <3>1. WillTell(h, x)
        BY <1>1, <1>6, <2>1 DEF RecordsLast, Story
      <3>2. ASSUME ~last[x].overtaken
            PROVE  row \in EventsOf(x)' /\ Tells(row, x)'
        <4>1. Tells(row, x)
          BY <1>1, <1>2, <3>1, <3>2 DEF WillTell
        <4>2. QED
          BY <1>2, <1>4, <4>1
      <3>3. ASSUME ~last[x].overtaken
            PROVE  cli'[h].row \in EventsOf(x)' /\ Tells(cli[h].row, x)'
        BY <1>1, <1>2, <3>2, <3>3
      <3>4. QED
        BY <1>1, <2>1, <3>1, <3>3 DEF WillTell
    <2>2. CASE g # h
      <3>1. cli'[g] = cli[g] /\ RowOf(g)' = RowOf(g)
        BY <1>1, <2>2, RowKept DEF OthersKept
      <3>2. RecordsLast(g, x) /\ WillTell(g, x)
        BY <1>1, <1>6, <3>1 DEF RecordsLast, Running, Story
      <3>3. cli[g].phase = "stamped" /\ ~last[x].overtaken
               => LatestStamp(x, cli[g].ts)'
        <4> SUFFICES ASSUME NEW ts, ts = cli[g].ts,
                            cli[g].phase = "stamped", ~last[x].overtaken
                     PROVE  LatestStamp(x, cli[g].ts)'
          OBVIOUS
        <4>1. LatestStamp(x, ts)'
          BY <1>5, <3>2 DEF WillTell
        <4>2. QED
          BY <3>1, <4>1
      <3>4. cli[g].phase = "created" /\ ~last[x].overtaken
               => Tells(RowOf(g), x)'
        <4> SUFFICES ASSUME NEW r, r = RowOf(g),
                            cli[g].phase = "created", ~last[x].overtaken
                     PROVE  Tells(RowOf(g), x)'
          OBVIOUS
        <4>1. Tells(r, x)'
          BY <1>4, <3>2 DEF WillTell
        <4>2. QED
          BY <3>1, <4>1
      <3>5. cli[g].phase = "written" /\ ~last[x].overtaken
               => cli[g].row \in EventsOf(x)' /\ Tells(cli[g].row, x)'
        <4> SUFFICES ASSUME NEW r, r = cli[g].row,
                            cli[g].phase = "written", ~last[x].overtaken
                     PROVE  cli[g].row \in EventsOf(x)' /\ Tells(cli[g].row, x)'
          OBVIOUS
        <4>1. r \in EventsOf(x)' /\ Tells(r, x)'
          BY <1>2, <1>4, <3>2 DEF WillTell
        <4>2. QED
          BY <3>1, <4>1
      <3>6. QED
        BY <1>1, <1>3, <3>1, <3>2, <3>3, <3>4, <3>5 DEF WillTell
    <2>3. QED
      BY <2>1, <2>2
  <1>7. FiledTells(x)'
    BY <1>1, <1>2, <1>4 DEF Story, FiledTells
  <1>8. QED
    BY <1>6, <1>7 DEF Story

(* What is committed for the last change of a triple is its newest row.    *)
LEMMA CommitTells ==
    ASSUME MirrorTypeOK, NEW h \in Processes, CommitSnapshot(h),
           Story(cli[h].triple), NEW x, x = cli[h].triple, last[x].by = h
    PROVE  Story(x)'
  <1>1. /\ OthersKept(h) /\ cli'[h].phase = "idle"
        /\ cli[h].phase = "written" /\ Running(h)
        /\ UNCHANGED <<events, bound, unnamed>>
    BY EndMoves DEF CommitSnapshot, Running
  <1>2. /\ last'[x].by = h /\ last'[x].project = cli[h].row.project
        /\ last'[x].stage = last[x].stage
        /\ last'[x].overtaken = last[x].overtaken
    BY LastFiled
  <1>3. WillTell(h, x)
    BY <1>1 DEF Story, RecordsLast
  <1>4. \A g \in Processes : ~RecordsLast(g, x)'
    BY <1>1, <1>2 DEF RecordsLast, Running
  <1>5. Shown' = Shown /\ EventsOf(x)' = EventsOf(x)
    BY <1>1 DEF Shown, EventsOf
  <1>6. RowsOf(x)' \subseteq RowsOf(x)
    <2>1. ASSUME NEW e \in PendingOf(x)' PROVE e \in PendingOf(x)
      <3>1. PICK g \in Processes : /\ cli'[g].phase = "created"
                                   /\ cli'[g].triple = x
                                   /\ e = RowOf(g)'
        BY DEF PendingOf
      <3>2. cli'[g] = cli[g]
        BY <1>1, <3>1 DEF OthersKept
      <3>3. QED
        BY <3>1, <3>2, RowKept DEF PendingOf
    <2>2. QED
      BY <1>5, <2>1 DEF RowsOf
  <1>7. ASSUME ~last[x].overtaken
        PROVE  \E e \in EventsOf(x)' : e.project = last'[x].project /\ Tells(e, x)'
    <2>1. PICK row : row = cli[h].row
      OBVIOUS
    <2>2. row \in EventsOf(x) /\ Tells(row, x) /\ row.project = last'[x].project
      BY <1>1, <1>2, <1>3, <1>7, <2>1 DEF WillTell
    <2>3. Tells(row, x)'
      BY <1>5, <1>6, <2>2 DEF Tells, RowsOf
    <2>4. QED
      BY <1>5, <2>2, <2>3
  <1>8. last'[x].stage = "numbered"
    BY <1>1, <1>2, <1>3 DEF WillTell
  <1>9. FiledTells(x)'
    BY <1>2, <1>7, <1>8 DEF FiledTells
  <1>10. QED
    BY <1>4, <1>9 DEF Story

(* The record of a new last change starts from nothing.                    *)
LEMMA ModifyTells ==
    ASSUME MirrorTypeOK, NEW h \in Processes, NEW x \in Named,
           NEW option \in Options, ModifyAvu(h, x, option), NEW y \in Named,
           Story(y)
    PROVE  Story(y)'
  <1>1. /\ OthersKept(h) /\ cli'[h].phase = "walk"
        /\ cli'[h].triple = x /\ cli'[h].op = OpOf(option)
        /\ events' = events
    BY ModifyMoves DEF ModifyAvu
  <1>2. /\ OpOf(option) = "add" <=> x \in Shown'
        /\ y # x => (y \in Shown' <=> y \in Shown)
    BY ModifyChanges
  <1>3. /\ last'[x] = Unrecorded(h)
        /\ y # x => last'[y] = last[y]
    BY DEF ModifyAvu, MirrorTypeOK
  <1>4. CASE y = x
    <2>1. /\ last'[x].by = h /\ last'[x].project = NoProject
          /\ last'[x].stage = "made"
      BY <1>3 DEF Unrecorded
    <2>2. ASSUME NEW g \in Processes, RecordsLast(g, x)' PROVE WillTell(g, x)'
      <3>1. g = h
        BY <2>1, <2>2 DEF RecordsLast
      <3>2. QED
        BY <1>1, <1>2, <2>1, <3>1 DEF WillTell
    <2>3. FiledTells(x)'
      BY <2>1 DEF FiledTells
    <2>4. QED
      BY <1>4, <2>2, <2>3 DEF Story
  <1>5. CASE y # x
    <2>1. EventsOf(y)' = EventsOf(y)
      BY <1>1 DEF EventsOf
    <2>2. ~RecordsLast(h, y)'
      BY <1>1, <1>5 DEF RecordsLast
    <2>3. QED
      BY <1>1, <1>2, <1>3, <1>5, <2>1, <2>2, SameStory
  <1>6. QED
    BY <1>4, <1>5

LEMMA CommandLineTells ==
    ASSUME MirrorTypeOK, RecordsArePast, NEW h \in Processes,
           CommandLineStep(h), NEW y \in Named, Story(y)
    PROVE  Story(y)'
  <1>1. Shown' = Shown
    BY DEF CommandLineStep, FindProject, Climb, Skip, StampChange,
           CreateSnapshot, WriteChanges, CommitSnapshot, CommandLineEnds, Shown
  <1>2. CASE FindProject(h) \/ Climb(h)
    <2>1. /\ OthersKept(h) /\ cli'[h].phase \in {"walk", "found"}
          /\ cli'[h].triple = cli[h].triple /\ cli'[h].op = cli[h].op
      BY <1>2, FindMoves, ClimbMoves
    <2>2. /\ cli[h].phase = "walk" /\ Running(h)
          /\ UNCHANGED <<events, last>>
      BY <1>2 DEF FindProject, Climb, Running
    <2>3. RecordsLast(h, y)' => RecordsLast(h, y)
      BY <2>1, <2>2 DEF RecordsLast
    <2>4. EventsOf(y)' = EventsOf(y)
      BY <2>2 DEF EventsOf
    <2>5. QED
      BY <1>1, <2>1, <2>2, <2>3, <2>4, SameStory
  <1>3. CASE Skip(h) \/ CommandLineEnds(h)
    <2>1. OthersKept(h) /\ cli'[h].phase \in {"idle", "skipped"}
      BY <1>3, SkipMoves, EndMoves
    <2>2. UNCHANGED <<events, last>>
      BY <1>3 DEF Skip, CommandLineEnds
    <2>3. ~RecordsLast(h, y)'
      BY <2>1 DEF RecordsLast, Running
    <2>4. EventsOf(y)' = EventsOf(y)
      BY <2>2 DEF EventsOf
    <2>5. QED
      BY <1>1, <2>1, <2>2, <2>3, <2>4, SameStory
  <1>4. CASE StampChange(h)
    <2>1. /\ OthersKept(h) /\ cli'[h].triple = cli[h].triple
          /\ events' = events /\ cli[h].phase = "found"
      BY <1>4, StampMoves DEF StampChange
    <2>2. CASE y = cli[h].triple
      BY <1>4, <2>2, StampTells
    <2>3. CASE y # cli[h].triple
      <3>1. ~RecordsLast(h, y)' /\ EventsOf(y)' = EventsOf(y)
        BY <2>1, <2>3 DEF RecordsLast, EventsOf
      <3>2. last'[y] = last[y]
        BY <1>4, <2>3, LastReaches
      <3>3. QED
        BY <1>1, <2>1, <2>3, <3>1, <3>2, SameStory
    <2>4. QED
      BY <2>2, <2>3
  <1>5. CASE CreateSnapshot(h)
    <2>1. /\ OthersKept(h) /\ cli'[h].triple = cli[h].triple
          /\ events' = events
      BY <1>5, CreateMoves DEF CreateSnapshot
    <2>2. CASE y = cli[h].triple
      BY <1>5, <2>2, CreateTells
    <2>3. CASE y # cli[h].triple
      <3>1. ~RecordsLast(h, y)' /\ EventsOf(y)' = EventsOf(y)
        BY <2>1, <2>3 DEF RecordsLast, EventsOf
      <3>2. last'[y] = last[y]
        BY <1>5, <2>3, LastReaches
      <3>3. QED
        BY <1>1, <2>1, <2>3, <3>1, <3>2, SameStory
    <2>4. QED
      BY <2>2, <2>3
  <1>6. CASE WriteChanges(h)
    <2>1. /\ OthersKept(h) /\ cli'[h].triple = cli[h].triple
          /\ events' = events \cup {RowOf(h)} /\ last' = last
          /\ RowOf(h).triple = cli[h].triple
      BY <1>6, WriteMoves DEF WriteChanges, RowOf
    <2>2. CASE y = cli[h].triple
      BY <1>6, <2>2, WriteTells
    <2>3. CASE y # cli[h].triple
      <3>1. ~RecordsLast(h, y)' /\ EventsOf(y)' = EventsOf(y)
        BY <2>1, <2>3 DEF RecordsLast, EventsOf
      <3>2. QED
        BY <1>1, <2>1, <2>3, <3>1, SameStory
    <2>4. QED
      BY <2>2, <2>3
  <1>7. CASE CommitSnapshot(h)
    <2>1. CASE y = cli[h].triple /\ last[y].by = h
      BY <1>7, <2>1, CommitTells
    <2>2. CASE ~(y = cli[h].triple /\ last[y].by = h)
      <3>1. OthersKept(h) /\ cli'[h].phase = "idle" /\ events' = events
        BY <1>7, EndMoves DEF CommitSnapshot
      <3>2. last'[y] = last[y]
        BY <1>7, <2>2, LastFiled
      <3>3. ~RecordsLast(h, y)' /\ EventsOf(y)' = EventsOf(y)
        BY <3>1 DEF RecordsLast, Running, EventsOf
      <3>4. QED
        BY <1>1, <3>1, <3>2, <3>3, SameStory
    <2>3. QED
      BY <2>1, <2>2
  <1>8. QED
    BY <1>2, <1>3, <1>4, <1>5, <1>6, <1>7 DEF CommandLineStep

LEMMA StepTells ==
    ASSUME MirrorTypeOK, RecordsArePast, [MirrorNext]_mirrorVars,
           NEW y \in Named, Story(y)
    PROVE  Story(y)'
  <1>1. CASE UNCHANGED <<events, bound, unnamed, last, cli>>
    BY <1>1 DEF Story, RecordsLast, WillTell, FiledTells, Tells, LatestStamp,
                RowsOf, EventsOf, PendingOf, RowOf, Shown, Running
  <1>2. CASE Tick \/ UNCHANGED mirrorVars
             \/ \E path \in Paths : RegisterProject(path)
    BY <1>1, <1>2 DEF Tick, RegisterProject, mirrorVars
  <1>3. QED
    BY <1>2, ModifyTells, CommandLineTells DEF MirrorNext

LEMMA InitMirrorInv ==
    ASSUME MirrorInit PROVE MirrorInv
  <1>1. MirrorTypeOK
    BY InitTypes
  <1>2. /\ \A h \in Processes : cli[h] = Idle /\ cli[h].phase = "idle"
        /\ events = {}
        /\ \A x \in Named : last[x].project = NoProject
    BY DEF MirrorInit, Idle, Unrecorded
  <1>3. WalkSoFar /\ WalkFindsNearest
    BY <1>2 DEF WalkSoFar, WalkFindsNearest
  <1>4. RecordsArePast
    BY <1>2 DEF RecordsArePast
  <1>5. \A x \in Named : Story(x)
    BY <1>2 DEF Story, RecordsLast, Running, FiledTells
  <1>6. QED
    BY <1>1, <1>3, <1>4, <1>5 DEF MirrorInv

(* The inductive invariant holds with any number of command lines, killed  *)
(* at any statement, beside registrations and AVU operations of any option.*)
THEOREM MirrorInvariant == MirrorSpec => []MirrorInv
  <1>1. MirrorInit => MirrorInv
    BY InitMirrorInv
  <1>2. MirrorInv /\ [MirrorNext]_mirrorVars => MirrorInv'
    <2> SUFFICES ASSUME MirrorInv, [MirrorNext]_mirrorVars PROVE MirrorInv'
      OBVIOUS
    <2>1. MirrorTypeOK' /\ WalkSoFar' /\ WalkFindsNearest' /\ RecordsArePast'
      BY StepTypes, StepWalks, StepPast DEF MirrorInv
    <2>2. \A x \in Named : Story(x)'
      BY StepTells DEF MirrorInv
    <2>3. QED
      BY <2>1, <2>2 DEF MirrorInv
  <1>3. QED
    BY <1>1, <1>2, PTL DEF MirrorSpec

(* However registrations interleave with the walk, a change goes to a      *)
(* project that covers it and has no nearer one known when it was made.    *)
THEOREM ChangesGoToNearest == MirrorSpec => []WalkFindsNearest
  <1>1. MirrorInv => WalkFindsNearest
    BY DEF MirrorInv
  <1>2. QED
    BY <1>1, MirrorInvariant, PTL

(* The newest row of a triple decides the effective-AVU query.             *)
LEMMA NewestDecides ==
    ASSUME MirrorTypeOK, NEW P, NEW x, NEW e \in EventsOf(x), e.project = P,
           Tells(e, x)
    PROVE  QueryTells(x, ProjectRows(P), x \in bound \cup unnamed)
  <1> DEFINE rows == ProjectRows(P)
  <1>1. /\ e \in rows /\ e.triple = x /\ e \in events
        /\ PartitionOf(e, rows) = {f \in rows : f.triple = x}
        /\ \A f \in rows : f \in events
    BY DEF ProjectRows, PartitionOf, EventsOf
  <1>2. \A f \in rows : f.triple = x /\ f # e => Precedes(e, f)
    BY <1>1 DEF Tells, RowsOf, EventsOf
  <1>3. ASSUME NEW f \in rows, f.triple = x PROVE ~Precedes(f, e)
    <2>1. f.ts \in Nat /\ f.snapshot \in Nat /\ e.ts \in Nat /\ e.snapshot \in Nat
      BY <1>1, RecordNumbers
    <2>2. CASE f = e
      BY <2>1, <2>2 DEF Precedes
    <2>3. CASE f # e
      BY <1>2, <1>3, <2>1, <2>3 DEF Precedes
    <2>4. QED
      BY <2>2, <2>3
  <1>4. e \in Firsts(rows)
    BY <1>1, <1>3 DEF Firsts
  <1>5. \A f \in Firsts(rows) : f.triple = x => f = e
    BY <1>1, <1>2 DEF Firsts, PartitionOf
  <1> HIDE DEF rows
  <1>6. FirstOps(x, rows) = {e.op}
    BY <1>1, <1>4, <1>5 DEF FirstOps
  <1>7. e.op = "add" <=> x \in bound \cup unnamed
    BY DEF Tells, Shown
  <1>8. QED
    BY <1>6, <1>7 DEF QueryTells, rows

(* Where the last change that named a triple was recorded, and no earlier  *)
(* change was stamped or numbered after it, the history shows the triple   *)
(* if and only if iRODS has it or lost it without naming it.               *)
THEOREM HistoryAgrees == MirrorSpec => []MirrorAgrees
  <1>1. MirrorInv => MirrorAgrees
    <2> SUFFICES ASSUME MirrorInv, NEW x \in Named,
                        last[x].project # NoProject, ~last[x].overtaken
                 PROVE  QueryTells(x, ProjectRows(last[x].project),
                                   x \in bound \cup unnamed)
      BY DEF MirrorAgrees
    <2>1. PICK e \in EventsOf(x) : e.project = last[x].project /\ Tells(e, x)
      BY DEF MirrorInv, Story, FiledTells
    <2>2. QED
      BY <2>1, NewestDecides DEF MirrorInv
  <1>2. QED
    BY <1>1, MirrorInvariant, PTL
=============================================================================
