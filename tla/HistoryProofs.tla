---------------------------- MODULE HistoryProofs ----------------------------
(* The effective-AVU and diff queries answer what was bound in iRODS, for  *)
(* any number of triples, changes and snapshots and any order of recording.*)
EXTENDS AvuHistory, TLAPS

Upto(x, t) == {c \in Made : c.triple = x /\ c.ts <= t}

(* What was bound at t is told by the latest change before t.              *)
LatestChangeTells ==
    \A t \in 1..now, x \in Triples :
        \/ Upto(x, t) = {} /\ x \notin boundAt[t]
        \/ \E c \in Upto(x, t) :
              /\ \A d \in Upto(x, t) : d.ts <= c.ts
              /\ x \in boundAt[t] <=> c.op = "add"

(* A change that was recorded twice has a newest record.                   *)
LatestRecordExists ==
    \A e \in events : \E f \in events :
        /\ AsChange(f) = AsChange(e)
        /\ \A g \in events : AsChange(g) = AsChange(e) => g.snapshot <= f.snapshot

(* TimeTravelIsExact is about recorded rows; to keep it, the changes on    *)
(* their way into the history must tell the same story.                    *)
HistoryInv ==
    /\ HistoryTypeOK
    /\ bound = boundAt[now]
    /\ \A c \in Made : c.ts <= now
    /\ LatestChangeTells
    /\ LatestRecordExists

-----------------------------------------------------------------------------
LEMMA TimesAreNumbers ==
    ASSUME BoundsAssumption
    PROVE  Times \subseteq Nat /\ Ids \subseteq Nat /\ MaxTime \in Nat
  BY DEF BoundsAssumption, Times, Ids

(* A record of a change holds the change.                                  *)
LEMMA MadeTyped ==
    ASSUME HistoryTypeOK PROVE Made \subseteq Changes
  BY DEF HistoryTypeOK, Made, AsChange, Changes, Events

LEMMA ChangesRebuilt ==
    ASSUME NEW c \in Changes PROVE AsChange(c) = c
  BY DEF AsChange, Changes

(* The row that record_changes writes for a change.                        *)
Row(c, id) == [snapshot |-> id, triple |-> c.triple, op |-> c.op, ts |-> c.ts]

LEMMA RowOfChange ==
    ASSUME NEW c \in Changes, NEW id \in Ids
    PROVE  /\ Row(c, id) \in Events
           /\ AsChange(Row(c, id)) = c
           /\ Row(c, id).snapshot = id
  BY DEF Row, AsChange, Changes, Events

-----------------------------------------------------------------------------
(* Types                                                                   *)

LEMMA InitTyped ==
    ASSUME HistoryInit, BoundsAssumption PROVE HistoryTypeOK
  BY DEF HistoryInit, HistoryTypeOK, BoundsAssumption, Times, Ids

LEMMA ChangeTyped ==
    ASSUME HistoryTypeOK, BoundsAssumption,
           NEW triple \in Triples, NEW op \in Ops, Change(triple, op)
    PROVE  HistoryTypeOK'
  <1>1. bound' \subseteq Triples
    BY DEF Change, HistoryTypeOK
  <1>2. boundAt' \in [Times -> SUBSET Triples]
    BY <1>1 DEF Change, HistoryTypeOK
  <1>3. [triple |-> triple, op |-> op, ts |-> now] \in Changes
    BY DEF HistoryTypeOK, Changes
  <1>4. unrecorded' \subseteq Changes
    BY <1>3 DEF Change, HistoryTypeOK
  <1>5. QED
    BY <1>1, <1>2, <1>4 DEF Change, HistoryTypeOK

LEMMA TickTyped ==
    ASSUME HistoryTypeOK, BoundsAssumption, Tick
    PROVE  /\ HistoryTypeOK'
           /\ now + 1 \in Times
           /\ boundAt'[now + 1] = bound
           /\ \A t \in 1..now : boundAt'[t] = boundAt[t]
  <1>1. now \in Nat /\ now >= 1 /\ now < MaxTime /\ MaxTime \in Nat
    BY DEF HistoryTypeOK, Tick, Times, BoundsAssumption
  <1>2. now + 1 \in Times /\ 1..now \subseteq Times
    BY <1>1 DEF Times
  <1>3. boundAt' \in [Times -> SUBSET Triples]
    BY DEF Tick, HistoryTypeOK
  <1>4. HistoryTypeOK'
    BY <1>2, <1>3 DEF Tick, HistoryTypeOK
  <1>5. boundAt'[now + 1] = bound /\ \A t \in 1..now : boundAt'[t] = boundAt[t]
    BY <1>1, <1>2 DEF Tick, HistoryTypeOK
  <1>6. QED
    BY <1>2, <1>4, <1>5

LEMMA RecordTyped ==
    ASSUME HistoryTypeOK, BoundsAssumption,
           NEW batch \in SUBSET unrecorded, NEW done \in BOOLEAN,
           Record(batch, done)
    PROVE  /\ HistoryTypeOK'
           /\ nextId \in Ids
           /\ batch \subseteq Changes
           /\ events' = events \cup {Row(c, nextId) : c \in batch}
  <1>1. nextId \in Ids /\ nextId \in Nat /\ nextId' = nextId + 1
    BY DEF HistoryTypeOK, Record, Ids, BoundsAssumption
  <1>2. batch \subseteq Changes /\ unrecorded' \subseteq Changes
    BY DEF HistoryTypeOK, Record
  <1>3. events' = events \cup {Row(c, nextId) : c \in batch}
    BY DEF Record, Row
  <1>4. \A e \in events' : e \in Events /\ e.snapshot < nextId'
    <2>1. ASSUME NEW e \in events PROVE e \in Events /\ e.snapshot < nextId'
      <3>1. e \in Events /\ e.snapshot < nextId
        BY DEF HistoryTypeOK
      <3>2. e.snapshot \in Nat
        BY <3>1, TimesAreNumbers DEF Events
      <3>3. QED
        BY <1>1, <3>1, <3>2
    <2>2. ASSUME NEW c \in batch
          PROVE  Row(c, nextId) \in Events /\ Row(c, nextId).snapshot < nextId'
      BY <1>1, <1>2, RowOfChange
    <2>3. QED
      BY <1>3, <2>1, <2>2
  <1>5. nextId' \in 1..(MaxSnapshots + 1)
    BY <1>1 DEF Ids, BoundsAssumption
  <1>6. HistoryTypeOK'
    BY <1>2, <1>4, <1>5 DEF HistoryTypeOK, Record
  <1>7. QED
    BY <1>1, <1>2, <1>3, <1>6

(* Every reachable history is well typed, whatever the clock.              *)
THEOREM HistoryTypes == HistorySpec => []HistoryTypeOK
  <1>1. HistoryInit => HistoryTypeOK
    BY BoundsAssumption, InitTyped
  <1>2. HistoryTypeOK /\ [HistoryNext]_historyVars => HistoryTypeOK'
    <2> SUFFICES ASSUME HistoryTypeOK, [HistoryNext]_historyVars
                 PROVE  HistoryTypeOK'
      OBVIOUS
    <2>1. CASE HistoryNext
      BY <2>1, BoundsAssumption, ChangeTyped, TickTyped, RecordTyped
         DEF HistoryNext
    <2>2. CASE UNCHANGED historyVars
      BY <2>2 DEF historyVars, HistoryTypeOK
    <2>3. QED
      BY <2>1, <2>2
  <1>3. QED
    BY <1>1, <1>2, PTL DEF HistorySpec

-----------------------------------------------------------------------------
(* The inductive invariant                                                 *)

LEMMA InitHistoryInv ==
    ASSUME HistoryInit, BoundsAssumption PROVE HistoryInv
  <1>1. HistoryTypeOK
    BY InitTyped
  <1>2. Made = {} /\ now = 1 /\ bound = {} /\ events = {}
    BY DEF HistoryInit, Made
  <1>3. \A t \in Times : boundAt[t] = {}
    BY DEF HistoryInit
  <1>4. 1 \in Times /\ \A t \in 1..now : t \in Times
    BY <1>2 DEF Times, BoundsAssumption
  <1>5. LatestChangeTells
    BY <1>2, <1>3, <1>4 DEF LatestChangeTells, Upto
  <1>6. QED
    BY <1>1, <1>2, <1>3, <1>4, <1>5
       DEF HistoryInv, LatestRecordExists

(* A new change is the latest of its triple and touches no other.          *)
LEMMA ChangeKeepsInv ==
    ASSUME HistoryInv, BoundsAssumption,
           NEW triple \in Triples, NEW op \in Ops, Change(triple, op)
    PROVE  HistoryInv'
  <1> DEFINE new == [triple |-> triple, op |-> op, ts |-> now]
  <1>1. HistoryTypeOK' /\ HistoryTypeOK
    BY ChangeTyped DEF HistoryInv
  <1>2. now' = now /\ now \in Nat /\ now \in Times /\ events' = events
    BY <1>1, TimesAreNumbers DEF Change, HistoryTypeOK
  <1>3. Made' = Made \cup {new}
    BY DEF Change, Made, AsChange
  <1>4. \A c \in Made : c \in Changes /\ c.ts \in Nat /\ c.ts <= now
    BY <1>1, MadeTyped, TimesAreNumbers DEF HistoryInv, Changes
  <1>5. \A t \in Times : boundAt'[t] = IF t = now THEN bound' ELSE boundAt[t]
    BY <1>1 DEF Change, HistoryTypeOK
  <1>6. bound' = boundAt'[now']
    BY <1>2, <1>5
  <1>7. \A c \in Made' : c.ts <= now'
    BY <1>2, <1>3, <1>4
  <1>8. LatestChangeTells'
    <2> SUFFICES ASSUME NEW t \in 1..now, NEW x \in Triples
                 PROVE  \/ Upto(x, t)' = {} /\ x \notin boundAt'[t]
                        \/ \E c \in Upto(x, t)' :
                              /\ \A d \in Upto(x, t)' : d.ts <= c.ts
                              /\ x \in boundAt'[t] <=> c.op = "add"
      BY <1>2 DEF LatestChangeTells
    <2>1. t \in Nat /\ t <= now /\ t \in Times
      BY <1>2 DEF Times
    <2>2. \/ Upto(x, t) = {} /\ x \notin boundAt[t]
          \/ \E c \in Upto(x, t) :
                /\ \A d \in Upto(x, t) : d.ts <= c.ts
                /\ x \in boundAt[t] <=> c.op = "add"
      BY DEF HistoryInv, LatestChangeTells
    <2>3. CASE t = now /\ x = triple
      <3>1. new \in Upto(x, t)'
        BY <1>2, <1>3, <2>3 DEF Upto
      <3>2. \A d \in Upto(x, t)' : d.ts <= new.ts
        BY <1>2, <1>3, <1>4 DEF Upto
      <3>3. x \in boundAt'[t] <=> new.op = "add"
        BY <1>5, <2>1, <2>3 DEF Change, Ops
      <3>4. QED
        BY <3>1, <3>2, <3>3
    <2>4. CASE ~(t = now /\ x = triple)
      <3>1. Upto(x, t)' = Upto(x, t)
        BY <1>2, <1>3, <2>1, <2>4 DEF Upto
      <3>2. x \in boundAt'[t] <=> x \in boundAt[t]
        <4>1. CASE t # now
          BY <1>5, <2>1, <4>1
        <4>2. CASE t = now
          BY <1>5, <2>1, <2>4, <4>2 DEF Change, HistoryInv
        <4>3. QED
          BY <4>1, <4>2
      <3>3. QED
        BY <2>2, <3>1, <3>2
    <2>5. QED
      BY <2>3, <2>4
  <1>9. LatestRecordExists'
    BY <1>2 DEF HistoryInv, LatestRecordExists
  <1>10. QED
    BY <1>1, <1>6, <1>7, <1>8, <1>9 DEF HistoryInv

(* Time passes, and nothing happens at the new time yet.                   *)
LEMMA TickKeepsInv ==
    ASSUME HistoryInv, BoundsAssumption, Tick PROVE HistoryInv'
  <1>1. /\ HistoryTypeOK' /\ HistoryTypeOK
        /\ boundAt'[now + 1] = bound
        /\ \A t \in 1..now : boundAt'[t] = boundAt[t]
    BY TickTyped DEF HistoryInv
  <1>2. /\ now' = now + 1 /\ now \in Nat /\ now >= 1
        /\ UNCHANGED <<bound, unrecorded, events>>
    BY <1>1, TimesAreNumbers DEF Tick, HistoryTypeOK, Times
  <1>3. Made' = Made
    BY <1>2 DEF Made
  <1>4. \A c \in Made : c.ts \in Nat /\ c.ts <= now
    BY <1>1, MadeTyped, TimesAreNumbers DEF HistoryInv, Changes
  <1>5. LatestChangeTells'
    <2> SUFFICES ASSUME NEW t \in 1..(now + 1), NEW x \in Triples
                 PROVE  \/ Upto(x, t)' = {} /\ x \notin boundAt'[t]
                        \/ \E c \in Upto(x, t)' :
                              /\ \A d \in Upto(x, t)' : d.ts <= c.ts
                              /\ x \in boundAt'[t] <=> c.op = "add"
      BY <1>2 DEF LatestChangeTells
    <2>1. CASE t \in 1..now
      BY <1>1, <1>3, <2>1 DEF Upto, HistoryInv, LatestChangeTells
    <2>2. CASE t = now + 1
      <3>1. Upto(x, t)' = Upto(x, now)
        BY <1>2, <1>3, <1>4, <2>2 DEF Upto
      <3>2. boundAt'[t] = boundAt[now] /\ now \in 1..now
        BY <1>1, <1>2, <2>2 DEF HistoryInv
      <3>3. QED
        BY <3>1, <3>2 DEF HistoryInv, LatestChangeTells
    <2>3. QED
      BY <1>2, <2>1, <2>2
  <1>6. \A c \in Made' : c.ts <= now'
    BY <1>2, <1>3, <1>4
  <1>7. LatestRecordExists'
    BY <1>2 DEF HistoryInv, LatestRecordExists
  <1>8. QED
    BY <1>1, <1>2, <1>5, <1>6, <1>7 DEF HistoryInv

(* Recording moves changes into the history and makes none.                *)
LEMMA RecordKeepsInv ==
    ASSUME HistoryInv, BoundsAssumption,
           NEW batch \in SUBSET unrecorded, NEW done \in BOOLEAN,
           Record(batch, done)
    PROVE  HistoryInv'
  <1>1. /\ HistoryTypeOK' /\ HistoryTypeOK
        /\ nextId \in Ids /\ nextId \in Nat
        /\ batch \subseteq Changes
        /\ events' = events \cup {Row(c, nextId) : c \in batch}
    BY RecordTyped, TimesAreNumbers DEF HistoryInv
  <1>2. UNCHANGED <<now, bound, boundAt>>
    BY DEF Record
  <1>3. {AsChange(e) : e \in events'} = {AsChange(e) : e \in events} \cup batch
    BY <1>1, RowOfChange
  <1>4. Made' = Made
    BY <1>3 DEF Made, Record
  <1>5. LatestRecordExists'
    <2> SUFFICES ASSUME NEW e \in events'
                 PROVE  \E f \in events' :
                            /\ AsChange(f) = AsChange(e)
                            /\ \A g \in events' :
                                  AsChange(g) = AsChange(e)
                                     => g.snapshot <= f.snapshot
      BY DEF LatestRecordExists
    <2>1. CASE AsChange(e) \in batch
      <3> DEFINE f == Row(AsChange(e), nextId)
      <3>1. f \in events' /\ AsChange(f) = AsChange(e) /\ f.snapshot = nextId
        BY <1>1, <2>1, RowOfChange
      <3>2. \A g \in events' : g.snapshot <= nextId
        <4>1. \A g \in events : g.snapshot \in Nat /\ g.snapshot < nextId
          BY <1>1, TimesAreNumbers DEF HistoryTypeOK, Events
        <4>2. \A c \in batch : Row(c, nextId).snapshot = nextId
          BY <1>1, RowOfChange
        <4>3. QED
          BY <1>1, <4>1, <4>2
      <3>3. QED
        BY <3>1, <3>2
    <2>2. CASE AsChange(e) \notin batch
      <3>1. \A g \in events' : AsChange(g) = AsChange(e) => g \in events
        BY <1>1, <2>2, RowOfChange
      <3>2. e \in events
        BY <3>1
      <3>3. PICK f \in events :
                /\ AsChange(f) = AsChange(e)
                /\ \A g \in events : AsChange(g) = AsChange(e)
                                        => g.snapshot <= f.snapshot
        BY <3>2 DEF HistoryInv, LatestRecordExists
      <3>4. QED
        BY <1>1, <3>1, <3>3
    <2>3. QED
      BY <2>1, <2>2
  <1>6. LatestChangeTells'
    BY <1>2, <1>4 DEF HistoryInv, LatestChangeTells, Upto
  <1>7. QED
    BY <1>1, <1>2, <1>4, <1>5, <1>6 DEF HistoryInv

(* The changes on their way and the recorded ones tell what was bound.     *)
THEOREM HistoryInvariant == HistorySpec => []HistoryInv
  <1>1. HistoryInit => HistoryInv
    BY BoundsAssumption, InitHistoryInv
  <1>2. HistoryInv /\ [HistoryNext]_historyVars => HistoryInv'
    <2> SUFFICES ASSUME HistoryInv, [HistoryNext]_historyVars
                 PROVE  HistoryInv'
      OBVIOUS
    <2>1. CASE HistoryNext
      BY <2>1, BoundsAssumption, ChangeKeepsInv, TickKeepsInv,
         RecordKeepsInv DEF HistoryNext
    <2>2. CASE UNCHANGED historyVars
      BY <2>2 DEF historyVars, HistoryInv, HistoryTypeOK, Made, Upto,
                  LatestChangeTells, LatestRecordExists
    <2>3. QED
      BY <2>1, <2>2
  <1>3. QED
    BY <1>1, <1>2, PTL DEF HistorySpec

-----------------------------------------------------------------------------
(* What the queries answer                                                 *)

(* Rows of x that tie as its latest agree, unless x is ambiguous.          *)
LEMMA EffectiveIsBound ==
    ASSUME HistoryInv, BoundsAssumption, NEW t \in 1..now, NEW x \in Triples,
           \A c \in unrecorded : c.ts > t,
           ~Ambiguous(x, AsOf(t))
    PROVE  QueryTells(x, AsOf(t), x \in boundAt[t])
  <1>1. /\ HistoryTypeOK /\ t \in Nat
        /\ \A c \in Made : c.ts \in Nat
        /\ \A e \in events : e.ts \in Nat /\ e.snapshot \in Nat
    BY TimesAreNumbers, MadeTyped
       DEF HistoryInv, HistoryTypeOK, Times, Changes, Events
  <1>2. ASSUME NEW c \in Upto(x, t)
        PROVE  \E e \in AsOf(t) : AsChange(e) = c /\ e.triple = x /\ e.ts = c.ts
                                                /\ e.op = c.op
    <2>1. c \in Made /\ c.ts <= t /\ c.triple = x /\ c \notin unrecorded
      BY <1>1 DEF Upto
    <2>2. PICK e \in events : AsChange(e) = c
      BY <2>1 DEF Made
    <2>3. e.ts = c.ts /\ e.triple = x /\ e.op = c.op
      BY <2>1, <2>2 DEF AsChange
    <2>4. QED
      BY <2>1, <2>2, <2>3 DEF AsOf
  <1>3. ASSUME NEW e \in AsOf(t), e.triple = x
        PROVE  /\ AsChange(e) \in Upto(x, t) /\ AsChange(e).ts = e.ts
               /\ AsChange(e).op = e.op /\ e \in events
    BY <1>3 DEF AsOf, Upto, Made, AsChange
  <1>4. CASE Upto(x, t) = {} /\ x \notin boundAt[t]
    <2>1. \A e \in AsOf(t) : e.triple # x
      BY <1>3, <1>4
    <2>2. FirstOps(x, AsOf(t)) = {}
      BY <2>1 DEF FirstOps, Firsts
    <2>3. QED
      BY <1>4, <2>2 DEF QueryTells
  <1>5. ASSUME NEW c \in Upto(x, t), \A d \in Upto(x, t) : d.ts <= c.ts,
               x \in boundAt[t] <=> c.op = "add"
        PROVE  QueryTells(x, AsOf(t), x \in boundAt[t])
    <2>1. PICK e \in AsOf(t) :
              AsChange(e) = c /\ e.triple = x /\ e.ts = c.ts /\ e.op = c.op
      BY <1>2, <1>5
    <2>2. PICK f \in events :
              /\ AsChange(f) = AsChange(e)
              /\ \A g \in events : AsChange(g) = AsChange(e)
                                      => g.snapshot <= f.snapshot
      BY <1>3, <2>1 DEF HistoryInv, LatestRecordExists
    <2>3. f.ts = e.ts /\ f.triple = x /\ f.op = e.op
      BY <2>1, <2>2 DEF AsChange
    <2>4. f \in AsOf(t)
      BY <2>2, <2>3 DEF AsOf
    <2>5. \A g \in AsOf(t) : g.triple = x => g.ts <= f.ts
      BY <1>3, <1>5, <2>1, <2>3
    <2>6. ASSUME NEW g \in AsOf(t), g.triple = x, g.ts = f.ts
          PROVE  g.op = f.op /\ AsChange(g) = AsChange(e)
      <3>1. g.op = f.op
        BY <2>3, <2>4, <2>5, <2>6 DEF Ambiguous
      <3>2. QED
        BY <2>1, <2>3, <2>6, <3>1 DEF AsChange
    <2>7. f \in Firsts(AsOf(t))
      <3>1. ASSUME NEW g \in PartitionOf(f, AsOf(t)) PROVE ~Precedes(g, f)
        <4>1. g \in AsOf(t) /\ g.triple = x
          BY <2>3 DEF PartitionOf
        <4>2. g \in events /\ g.ts <= f.ts
          BY <1>3, <2>5, <4>1
        <4>3. g.ts = f.ts => g.snapshot <= f.snapshot
          BY <2>2, <2>6, <4>1, <4>2
        <4>4. QED
          BY <1>1, <2>2, <4>2, <4>3 DEF Precedes
      <3>2. QED
        BY <2>4, <3>1 DEF Firsts
    <2>8. ASSUME NEW g \in Firsts(AsOf(t)), g.triple = x PROVE g.op = f.op
      <3>1. g \in AsOf(t) /\ ~Precedes(f, g)
        BY <2>3, <2>4, <2>8 DEF Firsts, PartitionOf
      <3>2. g.ts \in Nat /\ f.ts \in Nat /\ g.ts <= f.ts /\ ~(f.ts > g.ts)
        BY <1>1, <1>3, <2>2, <2>5, <2>8, <3>1 DEF Precedes
      <3>3. g.ts = f.ts
        BY <3>2
      <3>4. QED
        BY <2>6, <2>8, <3>1, <3>3
    <2>9. FirstOps(x, AsOf(t)) = {f.op}
      BY <2>3, <2>7, <2>8 DEF FirstOps
    <2>10. QED
      BY <1>5, <2>1, <2>3, <2>9 DEF QueryTells
  <1>6. QED
    BY <1>4, <1>5 DEF HistoryInv, LatestChangeTells

(* Once all changes up to a time are recorded, in whatever order, batches  *)
(* and number of retries, the query as of that time shows of every triple, *)
(* but one whose latest rows tie and disagree, what was bound in iRODS.    *)
THEOREM TimeTravelExact == HistorySpec => []TimeTravelIsExact
  <1>1. HistoryInv => TimeTravelIsExact
    BY BoundsAssumption, EffectiveIsBound DEF TimeTravelIsExact
  <1>2. QED
    BY <1>1, HistoryInvariant, PTL

(* Of two sets of rows of a triple, the second in later snapshots, the one *)
(* with the latest change holds the rows that come first.                  *)
LEMMA LatestRowsDecide ==
    ASSUME NEW A, NEW B, NEW x,
           \A e \in A \cup B : /\ e.triple = x
                               /\ e.ts \in Nat /\ e.snapshot \in Nat,
           \A f \in A, g \in B : f.snapshot < g.snapshot
    PROVE  Firsts(A \cup B) = IF \E r \in B : \A o \in A : o.ts <= r.ts
                              THEN Firsts(B) ELSE Firsts(A)
  <1>1. \A e \in A \cup B : /\ PartitionOf(e, A \cup B) = A \cup B
                           /\ PartitionOf(e, A) = A
                           /\ PartitionOf(e, B) = B
    BY DEF PartitionOf
  <1>2. CASE \E r \in B : \A o \in A : o.ts <= r.ts
    <2>1. PICK r \in B : \A o \in A : o.ts <= r.ts
      BY <1>2
    <2>2. ASSUME NEW e \in Firsts(A \cup B) PROVE e \in Firsts(B)
      <3>1. e \in A \cup B /\ \A f \in A \cup B : ~Precedes(f, e)
        BY <1>1 DEF Firsts
      <3>2. e \notin A
        BY <2>1, <3>1 DEF Precedes
      <3>3. QED
        BY <1>1, <3>1, <3>2 DEF Firsts
    <2>3. ASSUME NEW e \in Firsts(B) PROVE e \in Firsts(A \cup B)
      <3>1. e \in B /\ \A f \in B : ~Precedes(f, e)
        BY <1>1 DEF Firsts
      <3>2. r.ts <= e.ts
        BY <2>1, <3>1 DEF Precedes
      <3>3. \A f \in A : ~Precedes(f, e)
        BY <2>1, <3>1, <3>2 DEF Precedes
      <3>4. QED
        BY <1>1, <3>1, <3>3 DEF Firsts
    <2>4. QED
      BY <1>2, <2>2, <2>3
  <1>3. CASE \A r \in B : \E o \in A : ~(o.ts <= r.ts)
    <2>1. ASSUME NEW e \in Firsts(A \cup B) PROVE e \in Firsts(A)
      <3>1. e \in A \cup B /\ \A f \in A \cup B : ~Precedes(f, e)
        BY <1>1 DEF Firsts
      <3>2. e \notin B
        BY <1>3, <3>1 DEF Precedes
      <3>3. QED
        BY <1>1, <3>1, <3>2 DEF Firsts
    <2>2. ASSUME NEW e \in Firsts(A) PROVE e \in Firsts(A \cup B)
      <3>1. e \in A /\ \A f \in A : ~Precedes(f, e)
        BY <1>1 DEF Firsts
      <3>2. ASSUME NEW r \in B PROVE ~Precedes(r, e)
        <4>1. PICK o \in A : ~(o.ts <= r.ts)
          BY <1>3
        <4>2. QED
          BY <3>1, <4>1 DEF Precedes
      <3>3. QED
        BY <1>1, <3>1, <3>2 DEF Firsts
    <2>3. QED
      BY <1>3, <2>1, <2>2
  <1>4. QED
    BY <1>2, <1>3

(* What can come first for x depends on its rows only.                     *)
LEMMA OwnRowsDecide ==
    ASSUME NEW x, NEW rows, \A e \in rows : e.triple = x
    PROVE  FirstOps(x, rows) = {e.op : e \in Firsts(rows)}
  BY DEF FirstOps, Firsts

LEMMA DiffLeadsOn ==
    ASSUME HistoryTypeOK, BoundsAssumption, NEW x \in Triples,
           NEW from \in Ids, NEW to \in Ids, from <= to
    PROVE  LET older == RecordedBy(x, from)
               rows  == {e \in Diff(to, from) : e.triple = x}
           IN FirstOps(x, RecordedBy(x, to)) =
                 IF \E r \in rows : \A o \in older : o.ts <= r.ts
                 THEN FirstOps(x, rows)
                 ELSE FirstOps(x, older)
  <1> DEFINE A == RecordedBy(x, from)
             B == {e \in Diff(to, from) : e.triple = x}
  <1>1. /\ \A e \in events : e.ts \in Nat /\ e.snapshot \in Nat
        /\ from \in Nat /\ to \in Nat
    BY TimesAreNumbers DEF HistoryTypeOK, Events
  <1>2. B = {e \in events : /\ e.triple = x
                            /\ from < e.snapshot /\ e.snapshot <= to}
    BY <1>1 DEF Diff
  <1>3. RecordedBy(x, to) = A \cup B
    BY <1>1, <1>2 DEF RecordedBy
  <1>4. /\ \A e \in A \cup B : /\ e.triple = x
                              /\ e.ts \in Nat /\ e.snapshot \in Nat
        /\ \A f \in A, g \in B : f.snapshot < g.snapshot
    BY <1>1, <1>2 DEF RecordedBy
  <1> HIDE DEF A, B
  <1>5. Firsts(A \cup B) = IF \E r \in B : \A o \in A : o.ts <= r.ts
                           THEN Firsts(B) ELSE Firsts(A)
    BY <1>4, LatestRowsDecide
  <1>6. /\ FirstOps(x, A \cup B) = {e.op : e \in Firsts(A \cup B)}
        /\ FirstOps(x, A) = {e.op : e \in Firsts(A)}
        /\ FirstOps(x, B) = {e.op : e \in Firsts(B)}
    BY <1>4, OwnRowsDecide
  <1>7. FirstOps(x, A \cup B) = IF \E r \in B : \A o \in A : o.ts <= r.ts
                                THEN FirstOps(x, B) ELSE FirstOps(x, A)
    BY <1>5, <1>6
  <1>8. QED
    BY <1>3, <1>7 DEF A, B

(* What the rows of a diff say of a triple holds at the newer snapshot     *)
(* unless a change recorded before is later, whatever the order in which   *)
(* changes were recorded and however they tie.                             *)
THEOREM DiffsBridge == HistorySpec => []DiffBridges
  <1>1. HistoryTypeOK => DiffBridges
    BY BoundsAssumption, DiffLeadsOn DEF DiffBridges
  <1>2. QED
    BY <1>1, HistoryTypes, PTL
=============================================================================
