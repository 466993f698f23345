---------------------------- MODULE QuackProofs ----------------------------
(* Statements over Quack are atomic, for any number of stores, threads,    *)
(* rows and retries.                                                       *)
EXTENDS QuackStore, TLAPS

(* Whoever is in an attempt has the lock of its store.                     *)
AttemptsAreLocked ==
    \A t \in Threads : HasSession(t) => holder[StoreOf[t]] = t

(* The session runs the statement of the thread that sent it.              *)
InFlightWasSent ==
    \A t, u \in Threads :
        inFlight[StoreOf[t]] = u => call[u].phase = "sent" /\ StoreOf[u] = StoreOf[t]

NoneInterrupted == \A t \in Threads : call[t].phase # "interrupted"

(* The writes a call has seen others do, by its phase: one for each        *)
(* attempt that was refused.                                               *)
RefusalsAreWrites ==
    \A t \in Threads :
        LET made == call[t].base + call[t].attempt
        IN  /\ call[t].phase \in {"waiting", "binding"}
                   => version[row[t]] >= made
            /\ call[t].phase = "sent"
                   => call[t].seen >= made /\ version[row[t]] >= call[t].seen
            /\ call[t].phase \in {"refused", "sleeping"}
                   => version[row[t]] >= made + 1
            /\ call[t].phase = "sleeping" => call[t].attempt < ConflictRetries
            /\ call[t].phase = "conflicted"
                   => version[row[t]] >= call[t].base + ConflictRetries + 1

(* NothingSuperseded speaks of two threads; that both would need the same  *)
(* lock, and that the session's statement is the holder's, makes it        *)
(* inductive.                                                              *)
StoreInv ==
    /\ StoreTypeOK
    /\ AttemptsAreLocked
    /\ InFlightWasSent
    /\ NoneInterrupted
    /\ RefusalsAreWrites

-----------------------------------------------------------------------------
(* Advancing one field of a thread's record keeps its type.                *)
LEMMA CallsTyped ==
    ASSUME call \in [Threads -> CallRecord], NEW t \in Threads
    PROVE  /\ call[t] \in CallRecord
           /\ call[t].phase \in Phases
           /\ call[t].attempt \in 0..ConflictRetries
           /\ call[t].seen \in Nat
           /\ call[t].base \in Nat
  BY DEF CallRecord

(* Moving a thread to another phase keeps the types.                       *)
LEMMA PhaseTyped ==
    ASSUME call \in [Threads -> CallRecord], NEW t \in Threads,
           NEW phase \in Phases,
           call' = [call EXCEPT ![t].phase = phase]
    PROVE  /\ call' \in [Threads -> CallRecord]
           /\ \A u \in Threads : u # t => call'[u] = call[u]
           /\ call'[t].phase = phase
           /\ call'[t].attempt = call[t].attempt
           /\ call'[t].seen = call[t].seen
           /\ call'[t].base = call[t].base
  <1>1. call[t] \in CallRecord
    OBVIOUS
  <1>2. [call[t] EXCEPT !.phase = phase] \in CallRecord
    BY <1>1 DEF CallRecord
  <1>3. call' \in [Threads -> CallRecord]
    BY <1>2
  <1>4. QED
    BY <1>1, <1>3 DEF CallRecord

(* Giving the lock back takes it from nobody else.                         *)
LEMMA ReleaseTyped ==
    ASSUME StoreTypeOK, StoreAssumption, NEW t \in Threads, ReleaseLock(t)
    PROVE  /\ holder' \in [Stores -> Threads \cup {Nobody}]
           /\ \A u \in Threads :
                  u # t /\ holder[StoreOf[u]] = u => holder'[StoreOf[u]] = u
  BY DEF StoreTypeOK, StoreAssumption, ReleaseLock

(* A thread that ends an attempt, or is not in one, keeps the locks        *)
(* and the session right.                                                  *)
LEMMA LeavingKeepsLocks ==
    ASSUME StoreInv, StoreAssumption, NEW t \in Threads, NEW phase \in Phases,
           phase \notin {"binding", "sent", "answered", "refused", "interrupted"},
           call' = [call EXCEPT ![t].phase = phase],
           ReleaseLock(t) \/ UNCHANGED holder,
           \/ UNCHANGED inFlight /\ call[t].phase # "sent"
           \/ inFlight' = [inFlight EXCEPT ![StoreOf[t]] =
                              IF @ = t THEN Nobody ELSE @]
    PROVE  /\ AttemptsAreLocked'
           /\ InFlightWasSent'
           /\ NoneInterrupted'
           /\ holder' \in [Stores -> Threads \cup {Nobody}]
           /\ inFlight' \in [Stores -> Threads \cup {Nobody}]
  <1>1. /\ \A u \in Threads : u # t => call'[u] = call[u]
        /\ call'[t].phase = phase
    BY PhaseTyped DEF StoreInv, StoreTypeOK
  <1>2. /\ holder' \in [Stores -> Threads \cup {Nobody}]
        /\ \A u \in Threads :
              u # t /\ holder[StoreOf[u]] = u => holder'[StoreOf[u]] = u
    BY ReleaseTyped DEF StoreInv, StoreTypeOK
  <1>3. inFlight' \in [Stores -> Threads \cup {Nobody}]
    BY DEF StoreInv, StoreTypeOK, StoreAssumption
  <1>4. AttemptsAreLocked'
    BY <1>1, <1>2 DEF StoreInv, AttemptsAreLocked, HasSession
  <1>5. InFlightWasSent'
    <2> SUFFICES ASSUME NEW u \in Threads, NEW w \in Threads,
                        inFlight'[StoreOf[u]] = w
                 PROVE  call'[w].phase = "sent" /\ StoreOf[w] = StoreOf[u]
      BY DEF InFlightWasSent
    <2>1. inFlight[StoreOf[u]] = w /\ w # t
      BY DEF StoreInv, StoreTypeOK, StoreAssumption, InFlightWasSent
    <2>2. QED
      BY <1>1, <2>1 DEF StoreInv, InFlightWasSent
  <1>6. NoneInterrupted'
    BY <1>1 DEF StoreInv, NoneInterrupted
  <1>7. QED
    BY <1>2, <1>3, <1>4, <1>5, <1>6

(* Versions only grow, so what other calls saw stays true.                 *)
LEMMA RefusalsOfOthersStay ==
    ASSUME StoreInv, NEW t \in Threads,
           \A u \in Threads : u # t => call'[u] = call[u] /\ row'[u] = row[u],
           \A r \in Rows : version'[r] >= version[r],
           version' \in [Rows -> Nat],
           LET made == call'[t].base + call'[t].attempt
           IN  /\ call'[t].phase \in {"waiting", "binding"}
                      => version'[row'[t]] >= made
               /\ call'[t].phase = "sent"
                      => /\ call'[t].seen >= made
                         /\ version'[row'[t]] >= call'[t].seen
               /\ call'[t].phase \in {"refused", "sleeping"}
                      => version'[row'[t]] >= made + 1
               /\ call'[t].phase = "sleeping"
                      => call'[t].attempt < ConflictRetries
               /\ call'[t].phase = "conflicted"
                      => version'[row'[t]] >= call'[t].base + ConflictRetries + 1
    PROVE  RefusalsAreWrites'
  <1>1. ASSUME NEW u \in Threads, u # t
        PROVE  LET made == call'[u].base + call'[u].attempt
               IN  /\ call'[u].phase \in {"waiting", "binding"}
                          => version'[row'[u]] >= made
                   /\ call'[u].phase = "sent"
                          => /\ call'[u].seen >= made
                             /\ version'[row'[u]] >= call'[u].seen
                   /\ call'[u].phase \in {"refused", "sleeping"}
                          => version'[row'[u]] >= made + 1
                   /\ call'[u].phase = "sleeping"
                          => call'[u].attempt < ConflictRetries
                   /\ call'[u].phase = "conflicted"
                          => version'[row'[u]]
                                 >= call'[u].base + ConflictRetries + 1
    <2>1. /\ call'[u] = call[u] /\ row'[u] = row[u] /\ row[u] \in Rows
          /\ version[row[u]] \in Nat /\ version'[row[u]] \in Nat
          /\ version'[row[u]] >= version[row[u]]
      BY <1>1 DEF StoreInv, StoreTypeOK
    <2>2. /\ call[u].base \in Nat /\ call[u].seen \in Nat
          /\ call[u].attempt \in 0..ConflictRetries
      BY CallsTyped DEF StoreInv, StoreTypeOK
    <2>3. call[u].attempt \in Nat /\ ConflictRetries \in Nat
      BY <2>2, StoreAssumption DEF StoreAssumption
    <2>4. QED
      BY <2>1, <2>2, <2>3 DEF StoreInv, RefusalsAreWrites
  <1>2. QED
    BY <1>1 DEF RefusalsAreWrites

(* Nobody has called anything at first.                                    *)
LEMMA InitStoreInv == ASSUME StoreInit, StoreAssumption PROVE StoreInv
  <1>1. \A t \in Threads :
            /\ call[t] = [phase |-> "none", attempt |-> 0, seen |-> 0, base |-> 0]
            /\ call[t].phase = "none"
    BY DEF StoreInit
  <1>2. [phase |-> "none", attempt |-> 0, seen |-> 0, base |-> 0] \in CallRecord
    BY DEF CallRecord, Phases, StoreAssumption
  <1>3. StoreTypeOK
    BY <1>1, <1>2 DEF StoreInit, StoreTypeOK, StoreAssumption
  <1>4. InFlightWasSent
    BY DEF StoreInit, StoreAssumption, InFlightWasSent
  <1>5. QED
    BY <1>1, <1>3, <1>4
       DEF StoreInv, AttemptsAreLocked, HasSession, NoneInterrupted,
           RefusalsAreWrites

(* A new call has made no attempt yet.                                     *)
LEMMA RunKeepsInv ==
    ASSUME StoreInv, StoreAssumption, NEW t \in Threads, NEW r \in Rows,
           Run(t, r)
    PROVE  StoreInv'
  <1> DEFINE new == [phase |-> "waiting", attempt |-> 0, seen |-> 0,
                     base |-> version[r]]
  <1>1. version[r] \in Nat /\ new \in CallRecord
    BY DEF StoreInv, StoreTypeOK, CallRecord, Phases, StoreAssumption
  <1>2. /\ call' \in [Threads -> CallRecord]
        /\ \A u \in Threads : u # t => call'[u] = call[u]
        /\ call'[t] = new
    BY <1>1 DEF Run, StoreInv, StoreTypeOK
  <1>3. /\ row' \in [Threads -> Rows] /\ row'[t] = r
        /\ \A u \in Threads : u # t => row'[u] = row[u]
        /\ UNCHANGED <<holder, inFlight, version>>
        /\ calls' \in 0..MaxCalls
    BY DEF Run, StoreInv, StoreTypeOK, StoreAssumption
  <1>4. StoreTypeOK'
    BY <1>2, <1>3 DEF StoreInv, StoreTypeOK
  <1>5. AttemptsAreLocked' /\ NoneInterrupted'
    BY <1>2, <1>3 DEF StoreInv, AttemptsAreLocked, NoneInterrupted, HasSession
  <1>6. InFlightWasSent'
    BY <1>2, <1>3 DEF Run, Ended, StoreInv, InFlightWasSent
  <1>7. RefusalsAreWrites'
    BY <1>1, <1>2, <1>3, RefusalsOfOthersStay DEF StoreInv, StoreTypeOK
  <1>8. QED
    BY <1>4, <1>5, <1>6, <1>7 DEF StoreInv

(* The lock was free, so nobody of the store is in an attempt.             *)
LEMMA TakeLockKeepsInv ==
    ASSUME StoreInv, StoreAssumption, NEW t \in Threads, TakeLock(t)
    PROVE  StoreInv'
  <1>0. "binding" \in Phases
    BY DEF Phases
  <1>1. /\ call' \in [Threads -> CallRecord]
        /\ \A u \in Threads : u # t => call'[u] = call[u]
        /\ call'[t].phase = "binding"
        /\ call'[t].attempt = call[t].attempt
        /\ call'[t].base = call[t].base
    BY <1>0, PhaseTyped DEF TakeLock, StoreInv, StoreTypeOK
  <1>2. /\ holder' \in [Stores -> Threads \cup {Nobody}]
        /\ holder'[StoreOf[t]] = t
        /\ \A u \in Threads : StoreOf[u] # StoreOf[t]
                => holder'[StoreOf[u]] = holder[StoreOf[u]]
        /\ UNCHANGED <<row, inFlight, version, calls>>
    BY DEF TakeLock, StoreInv, StoreTypeOK, StoreAssumption
  <1>3. StoreTypeOK'
    BY <1>1, <1>2 DEF StoreInv, StoreTypeOK
  <1>4. AttemptsAreLocked'
    <2> SUFFICES ASSUME NEW u \in Threads, u # t, HasSession(u)
                 PROVE  holder'[StoreOf[u]] = u
      BY <1>1, <1>2 DEF AttemptsAreLocked, HasSession
    <2>1. holder[StoreOf[u]] = u
      BY DEF StoreInv, AttemptsAreLocked
    <2>2. StoreOf[u] # StoreOf[t]
      BY <2>1 DEF TakeLock, StoreAssumption
    <2>3. QED
      BY <1>2, <2>1, <2>2
  <1>5. InFlightWasSent' /\ NoneInterrupted'
    BY <1>1, <1>2 DEF TakeLock, StoreInv, InFlightWasSent, NoneInterrupted
  <1>6. RefusalsAreWrites'
    <2>1. version[row[t]] \in Nat /\ version[row[t]] >= call[t].base + call[t].attempt
      BY DEF TakeLock, StoreInv, StoreTypeOK, RefusalsAreWrites
    <2>2. \A r \in Rows : version[r] \in Nat
      BY DEF StoreInv, StoreTypeOK
    <2>3. QED
      BY <1>1, <1>2, <2>1, <2>2, RefusalsOfOthersStay DEF StoreInv, StoreTypeOK
  <1>7. QED
    BY <1>3, <1>4, <1>5, <1>6 DEF StoreInv

(* The holder of the lock finds the session idle.                          *)
LEMMA SessionIsIdle ==
    ASSUME StoreInv, NEW t \in Threads, call[t].phase = "binding",
           NEW u \in Threads
    PROVE  inFlight[StoreOf[t]] # u
  BY DEF StoreInv, AttemptsAreLocked, InFlightWasSent, HasSession

(* So sending interrupts nobody.                                           *)
LEMMA SendInterruptsNobody ==
    ASSUME StoreInv, NEW t \in Threads, SendStatement(t)
    PROVE  /\ call' \in [Threads -> CallRecord]
           /\ \A u \in Threads : u # t => call'[u] = call[u]
           /\ call'[t].phase = "sent"
           /\ call'[t].attempt = call[t].attempt
           /\ call'[t].base = call[t].base
           /\ call'[t].seen = version[row[t]]
  <1>1. call[t] \in CallRecord /\ version[row[t]] \in Nat
    BY DEF StoreInv, StoreTypeOK
  <1>2. [call[t] EXCEPT !.phase = "sent", !.seen = version[row[t]]] \in CallRecord
    BY <1>1 DEF CallRecord, Phases
  <1>3. \A u \in Threads : u # t => call'[u] = call[u]
    BY SessionIsIdle DEF SendStatement
  <1>4. call'[t] = [call[t] EXCEPT !.phase = "sent", !.seen = version[row[t]]]
    BY DEF SendStatement
  <1>5. \A u \in Threads : call'[u] \in CallRecord
    BY <1>2, <1>3, <1>4 DEF StoreInv, StoreTypeOK
  <1>6. call' \in [Threads -> CallRecord]
    BY <1>5 DEF SendStatement
  <1>7. QED
    BY <1>1, <1>3, <1>4, <1>6 DEF CallRecord

(* The statement in flight becomes the sender's.                           *)
LEMMA SendKeepsInv ==
    ASSUME StoreInv, StoreAssumption, NEW t \in Threads, SendStatement(t)
    PROVE  StoreInv'
  <1>1. /\ call' \in [Threads -> CallRecord]
        /\ \A u \in Threads : u # t => call'[u] = call[u]
        /\ call'[t].phase = "sent"
        /\ call'[t].attempt = call[t].attempt
        /\ call'[t].base = call[t].base
        /\ call'[t].seen = version[row[t]]
    BY SendInterruptsNobody
  <1>2. /\ inFlight' \in [Stores -> Threads \cup {Nobody}]
        /\ \A s \in Stores :
              inFlight'[s] = IF s = StoreOf[t] THEN t ELSE inFlight[s]
        /\ UNCHANGED <<row, holder, version, calls>>
        /\ call[t].phase = "binding"
    BY DEF SendStatement, StoreInv, StoreTypeOK, StoreAssumption
  <1>3. StoreTypeOK'
    BY <1>1, <1>2 DEF StoreInv, StoreTypeOK
  <1>4. AttemptsAreLocked' /\ NoneInterrupted'
    BY <1>1, <1>2 DEF StoreInv, AttemptsAreLocked, NoneInterrupted, HasSession
  <1>5. InFlightWasSent'
    BY <1>1, <1>2 DEF StoreInv, InFlightWasSent, StoreAssumption
  <1>6. RefusalsAreWrites'
    <2>1. version[row[t]] \in Nat /\ version[row[t]] >= call[t].base + call[t].attempt
      BY <1>2 DEF StoreInv, StoreTypeOK, RefusalsAreWrites
    <2>2. \A r \in Rows : version[r] \in Nat
      BY DEF StoreInv, StoreTypeOK
    <2>3. QED
      BY <1>1, <1>2, <2>1, <2>2, RefusalsOfOthersStay DEF StoreInv, StoreTypeOK
  <1>7. QED
    BY <1>3, <1>4, <1>5, <1>6 DEF StoreInv

(* The server's answer, a commit or a refusal, empties the session.        *)
LEMMA AnswerKeepsLocks ==
    ASSUME StoreInv, StoreAssumption, NEW t \in Threads,
           call[t].phase = "sent",
           NEW phase \in {"answered", "refused"},
           call' = [call EXCEPT ![t].phase = phase],
           inFlight' = [inFlight EXCEPT ![StoreOf[t]] = Nobody],
           UNCHANGED holder
    PROVE  /\ AttemptsAreLocked' /\ InFlightWasSent' /\ NoneInterrupted'
           /\ inFlight' \in [Stores -> Threads \cup {Nobody}]
           /\ call' \in [Threads -> CallRecord]
           /\ \A u \in Threads : u # t => call'[u] = call[u]
           /\ call'[t].phase = phase
           /\ call'[t].attempt = call[t].attempt
           /\ call'[t].base = call[t].base
  <1>0. phase \in Phases
    BY DEF Phases
  <1>1. /\ call' \in [Threads -> CallRecord]
        /\ \A u \in Threads : u # t => call'[u] = call[u]
        /\ call'[t].phase = phase
        /\ call'[t].attempt = call[t].attempt
        /\ call'[t].base = call[t].base
    BY <1>0, PhaseTyped DEF StoreInv, StoreTypeOK
  <1>2. /\ inFlight' \in [Stores -> Threads \cup {Nobody}]
        /\ \A s \in Stores :
              inFlight'[s] = IF s = StoreOf[t] THEN Nobody ELSE inFlight[s]
    BY DEF StoreInv, StoreTypeOK
  <1>3. AttemptsAreLocked' /\ NoneInterrupted'
    BY <1>1 DEF StoreInv, AttemptsAreLocked, NoneInterrupted, HasSession
  <1>4. InFlightWasSent'
    <2> SUFFICES ASSUME NEW u \in Threads, NEW w \in Threads,
                        inFlight'[StoreOf[u]] = w
                 PROVE  call'[w].phase = "sent" /\ StoreOf[w] = StoreOf[u]
      BY DEF InFlightWasSent
    <2>1. StoreOf[u] \in Stores /\ w # Nobody
      BY DEF StoreAssumption
    <2>2. inFlight[StoreOf[u]] = w /\ StoreOf[u] # StoreOf[t]
      BY <1>2, <2>1
    <2>3. call[w].phase = "sent" /\ StoreOf[w] = StoreOf[u]
      BY <2>2 DEF StoreInv, InFlightWasSent
    <2>4. QED
      BY <1>1, <2>2, <2>3
  <1>5. QED
    BY <1>1, <1>2, <1>3, <1>4

(* A write of one row makes no version smaller.                            *)
LEMMA WritesGrow ==
    ASSUME StoreTypeOK, NEW t \in Threads,
           version' = version \/ version' = Written(t)
    PROVE  /\ version' \in [Rows -> Nat]
           /\ \A r \in Rows : version'[r] >= version[r]
  <1>1. row[t] \in Rows /\ \A r \in Rows : version[r] \in Nat
    BY DEF StoreTypeOK
  <1>2. QED
    BY <1>1 DEF StoreTypeOK, Written

(* A commit raises the version of one row.                                 *)
LEMMA CommitKeepsInv ==
    ASSUME StoreInv, StoreAssumption, NEW t \in Threads, ServerCommits(t)
    PROVE  StoreInv'
  <1>1. /\ AttemptsAreLocked' /\ InFlightWasSent' /\ NoneInterrupted'
        /\ inFlight' \in [Stores -> Threads \cup {Nobody}]
        /\ call' \in [Threads -> CallRecord]
        /\ \A u \in Threads : u # t => call'[u] = call[u]
        /\ call'[t].phase = "answered"
    BY AnswerKeepsLocks DEF ServerCommits
  <1>2. /\ version' \in [Rows -> Nat]
        /\ \A r \in Rows : version'[r] >= version[r]
        /\ UNCHANGED <<row, holder, calls>>
    BY WritesGrow DEF ServerCommits, StoreInv
  <1>3. StoreTypeOK'
    BY <1>1, <1>2 DEF StoreInv, StoreTypeOK
  <1>4. RefusalsAreWrites'
    BY <1>1, <1>2, RefusalsOfOthersStay
  <1>5. QED
    BY <1>1, <1>3, <1>4 DEF StoreInv

(* A refusal shows that the version has moved on since the statement.      *)
LEMMA RefusalKeepsInv ==
    ASSUME StoreInv, StoreAssumption, NEW t \in Threads, ServerRefuses(t)
    PROVE  StoreInv'
  <1>1. /\ AttemptsAreLocked' /\ InFlightWasSent' /\ NoneInterrupted'
        /\ inFlight' \in [Stores -> Threads \cup {Nobody}]
        /\ call' \in [Threads -> CallRecord]
        /\ \A u \in Threads : u # t => call'[u] = call[u]
        /\ call'[t].phase = "refused"
        /\ call'[t].attempt = call[t].attempt
        /\ call'[t].base = call[t].base
    BY AnswerKeepsLocks DEF ServerRefuses
  <1>2. /\ version' = version /\ version \in [Rows -> Nat]
        /\ UNCHANGED <<row, holder, calls>>
    BY DEF ServerRefuses, StoreInv, StoreTypeOK
  <1>3. StoreTypeOK'
    BY <1>1, <1>2 DEF StoreInv, StoreTypeOK
  <1>4. version[row[t]] >= call[t].base + call[t].attempt + 1
    <2>1. /\ call[t].seen >= call[t].base + call[t].attempt
          /\ version[row[t]] >= call[t].seen
          /\ version[row[t]] # call[t].seen
      BY DEF ServerRefuses, Uncontended, StoreInv, RefusalsAreWrites
    <2>2. /\ version[row[t]] \in Nat /\ call[t].seen \in Nat
          /\ call[t].base \in Nat /\ call[t].attempt \in 0..ConflictRetries
      BY CallsTyped DEF StoreInv, StoreTypeOK
    <2>3. call[t].attempt \in Nat
      BY <2>2 DEF StoreAssumption
    <2>4. QED
      BY <2>1, <2>2, <2>3
  <1>5. RefusalsAreWrites'
    BY <1>1, <1>2, <1>4, RefusalsOfOthersStay DEF StoreInv, StoreTypeOK
  <1>6. QED
    BY <1>1, <1>3, <1>5 DEF StoreInv

(* The end of an attempt: with rows, in order to sleep, or with an error.  *)
LEMMA LeavingKeepsInv ==
    ASSUME StoreInv, StoreAssumption, NEW t \in Threads,
           ReturnRows(t) \/ SleepAfterConflict(t) \/ RaiseConflict(t)
             \/ RaiseOther(t)
    PROVE  StoreInv'
  <1> DEFINE phase == call'[t].phase
  <1>1. /\ call' = [call EXCEPT ![t].phase = phase]
        /\ phase \in {"returned", "sleeping", "conflicted", "raised"}
        /\ ReleaseLock(t)
        /\ UNCHANGED <<row, calls>>
        /\ phase \in {"sleeping", "conflicted"}
              => call[t].phase = "refused" /\ UNCHANGED version
        /\ phase = "conflicted" => call[t].attempt = ConflictRetries
        /\ phase = "sleeping" => call[t].attempt < ConflictRetries
        /\ \/ UNCHANGED inFlight /\ call[t].phase # "sent"
           \/ inFlight' = [inFlight EXCEPT ![StoreOf[t]] =
                              IF @ = t THEN Nobody ELSE @]
        /\ version' = version \/ version' = Written(t)
    <2>1. call[t] \in CallRecord
      BY DEF StoreInv, StoreTypeOK
    <2>2. ASSUME NEW p, call' = [call EXCEPT ![t].phase = p]
          PROVE  call'[t].phase = p
      BY <2>1, <2>2 DEF StoreInv, StoreTypeOK, CallRecord
    <2>3. CASE ReturnRows(t)
      BY <2>2, <2>3 DEF ReturnRows
    <2>4. CASE SleepAfterConflict(t)
      BY <2>2, <2>4 DEF SleepAfterConflict
    <2>5. CASE RaiseConflict(t)
      BY <2>2, <2>5 DEF RaiseConflict
    <2>6. CASE RaiseOther(t)
      BY <2>2, <2>6 DEF RaiseOther, LostEffect
    <2>7. QED
      BY <2>3, <2>4, <2>5, <2>6
  <1>2. phase \in Phases
    BY <1>1 DEF Phases, Ended
  <1>3. /\ call' \in [Threads -> CallRecord]
        /\ \A u \in Threads : u # t => call'[u] = call[u]
        /\ call'[t].attempt = call[t].attempt
        /\ call'[t].base = call[t].base
    BY <1>1, <1>2, PhaseTyped DEF StoreInv, StoreTypeOK
  <1>4. /\ AttemptsAreLocked' /\ InFlightWasSent' /\ NoneInterrupted'
        /\ holder' \in [Stores -> Threads \cup {Nobody}]
        /\ inFlight' \in [Stores -> Threads \cup {Nobody}]
    BY <1>1, <1>2, LeavingKeepsLocks
  <1>5. /\ version' \in [Rows -> Nat]
        /\ \A r \in Rows : version'[r] >= version[r]
    BY <1>1, WritesGrow DEF StoreInv
  <1>6. StoreTypeOK'
    BY <1>1, <1>3, <1>4, <1>5 DEF StoreInv, StoreTypeOK
  <1>7. phase \in {"sleeping", "conflicted"}
            => version[row[t]] >= call[t].base + call[t].attempt + 1
    BY <1>1 DEF StoreInv, RefusalsAreWrites
  <1>8. RefusalsAreWrites'
    BY <1>1, <1>3, <1>5, <1>7, RefusalsOfOthersStay
  <1>9. QED
    BY <1>4, <1>6, <1>8 DEF StoreInv

(* The next attempt starts with one refusal more.                          *)
LEMMA NextAttemptKeepsInv ==
    ASSUME StoreInv, StoreAssumption, NEW t \in Threads, NextAttempt(t)
    PROVE  StoreInv'
  <1>1. call[t] \in CallRecord /\ call[t].attempt \in Nat /\ call[t].base \in Nat
    BY DEF StoreInv, StoreTypeOK, CallRecord, StoreAssumption
  <1>2. [call[t] EXCEPT !.phase = "waiting", !.attempt = @ + 1] \in CallRecord
    <2>1. call[t].attempt + 1 \in 0..ConflictRetries
      BY <1>1 DEF NextAttempt, StoreInv, RefusalsAreWrites, StoreAssumption
    <2>2. QED
      BY <1>1, <2>1 DEF CallRecord, Phases
  <1>3. /\ call' \in [Threads -> CallRecord]
        /\ \A u \in Threads : u # t => call'[u] = call[u]
        /\ call'[t].phase = "waiting"
        /\ call'[t].attempt = call[t].attempt + 1
        /\ call'[t].base = call[t].base
        /\ UNCHANGED <<row, holder, inFlight, version, calls>>
        /\ call[t].phase = "sleeping"
    BY <1>1, <1>2 DEF NextAttempt, StoreInv, StoreTypeOK, CallRecord
  <1>4. StoreTypeOK'
    BY <1>3 DEF StoreInv, StoreTypeOK
  <1>5. AttemptsAreLocked' /\ NoneInterrupted' /\ InFlightWasSent'
    BY <1>3 DEF StoreInv, AttemptsAreLocked, NoneInterrupted, HasSession,
                InFlightWasSent
  <1>6. version[row[t]] >= call[t].base + call[t].attempt + 1
    BY <1>3 DEF StoreInv, RefusalsAreWrites
  <1>7. \A r \in Rows : version[r] \in Nat
    BY DEF StoreInv, StoreTypeOK
  <1>8. RefusalsAreWrites'
    BY <1>1, <1>3, <1>6, <1>7, RefusalsOfOthersStay DEF StoreInv, StoreTypeOK
  <1>9. QED
    BY <1>4, <1>5, <1>8 DEF StoreInv

(* The inductive invariant, for every interleaving of attempts.            *)
THEOREM StoreInvariant == StoreSpec => []StoreInv
  <1>1. StoreInit => StoreInv
    BY StoreAssumption, InitStoreInv
  <1>2. StoreInv /\ [StoreNext]_storeVars => StoreInv'
    <2> SUFFICES ASSUME StoreInv, [StoreNext]_storeVars PROVE StoreInv'
      OBVIOUS
    <2>1. CASE StoreNext
      <3>1. PICK t \in Threads :
                (\E r \in Rows : Run(t, r)) \/ Advance(t) \/ RaiseOther(t)
        BY <2>1 DEF StoreNext
      <3>2. CASE Advance(t)
        BY <3>2, StoreAssumption, TakeLockKeepsInv, SendKeepsInv,
           CommitKeepsInv, RefusalKeepsInv, LeavingKeepsInv,
           NextAttemptKeepsInv
           DEF Advance
      <3>3. QED
        BY <3>1, <3>2, StoreAssumption, RunKeepsInv, LeavingKeepsInv
    <2>2. CASE UNCHANGED storeVars
      BY <2>2 DEF storeVars, StoreInv, StoreTypeOK, AttemptsAreLocked,
                  HasSession, InFlightWasSent, NoneInterrupted,
                  RefusalsAreWrites
    <2>3. QED
      BY <2>1, <2>2
  <1>3. QED
    BY <1>1, <1>2, PTL DEF StoreSpec

(* Every reachable state of the stores is well typed.                      *)
THEOREM StoreTypes == StoreSpec => []StoreTypeOK
  BY StoreInvariant, PTL DEF StoreInv

(* Threads that share a store never interrupt each other's statements.     *)
THEOREM StatementsNotSuperseded == StoreSpec => []NothingSuperseded
  <1>1. StoreInv => NothingSuperseded
    BY DEF StoreInv, AttemptsAreLocked, NoneInterrupted, NothingSuperseded
  <1>2. QED
    BY <1>1, StoreInvariant, PTL

(* A call that gives up on conflicts lost to as many writes as it made     *)
(* attempts.                                                               *)
THEOREM ConflictsMeanProgress == StoreSpec => []ConflictMeansProgress
  <1>1. StoreInv => ConflictMeansProgress
    <2> SUFFICES ASSUME StoreInv, NEW t \in Threads,
                        call[t].phase = "conflicted"
                 PROVE  version[row[t]] > call[t].base + ConflictRetries
      BY DEF ConflictMeansProgress
    <2>1. version[row[t]] >= call[t].base + ConflictRetries + 1
      BY DEF StoreInv, RefusalsAreWrites
    <2>2. /\ version[row[t]] \in Nat /\ call[t].base \in Nat
          /\ ConflictRetries \in Nat
      BY CallsTyped, StoreAssumption DEF StoreInv, StoreTypeOK, StoreAssumption
    <2>3. QED
      BY <2>1, <2>2
  <1>2. QED
    BY <1>1, StoreInvariant, PTL

-----------------------------------------------------------------------------
(* Refinement                                                              *)

(* A thread that moves from one phase to another moves the outcome of its  *)
(* statement only.                                                         *)
LEMMA OutcomeMoves ==
    ASSUME StoreTypeOK, NEW t \in Threads, NEW phase,
           \A u \in Threads : u # t => call'[u] = call[u],
           call'[t].phase = phase
    PROVE  /\ outcome' = [outcome EXCEPT ![t] = Outcome(phase)]
           /\ outcome[t] = Outcome(call[t].phase)
           /\ Outcome(phase) = Outcome(call[t].phase) => outcome' = outcome
  BY DEF outcome, StoreTypeOK

(* A call is a call.                                                       *)
LEMMA RunIsCall ==
    ASSUME StoreInv, NEW t \in Threads, NEW r \in Rows, Run(t, r)
    PROVE  Statements!Call(t, r)
  <1>1. /\ \A u \in Threads : u # t => call'[u] = call[u]
        /\ call'[t].phase = "waiting"
    BY DEF Run, StoreInv, StoreTypeOK
  <1>2. /\ outcome' = [outcome EXCEPT ![t] = Outcome("waiting")]
        /\ outcome[t] = Outcome(call[t].phase)
    BY <1>1, OutcomeMoves DEF StoreInv
  <1>3. /\ Outcome("waiting") = "called"
        /\ outcome[t] \in {"none", "returned", "raised"}
    BY <1>2 DEF Run, Ended, Outcome
  <1>4. QED
    BY <1>2, <1>3 DEF Run, Statements!Call

(* The commit is where the statement takes effect, the answer where it     *)
(* returns, and nothing else shows.                                        *)
LEMMA AdvanceImplemented ==
    ASSUME StoreInv, NEW t \in Threads, Advance(t)
    PROVE  \/ Statements!TakeEffect(t)
           \/ Statements!ReturnResult(t)
           \/ Statements!RaiseError(t)
           \/ UNCHANGED <<outcome, row, version>>
  <1> DEFINE moves(phase) == /\ \A u \in Threads : u # t => call'[u] = call[u]
                             /\ call'[t].phase = phase
             shows(phase) == /\ outcome' = [outcome EXCEPT ![t] = Outcome(phase)]
                             /\ outcome[t] = Outcome(call[t].phase)
                             /\ Outcome(phase) = Outcome(call[t].phase)
                                    => outcome' = outcome
  <1>1. ASSUME NEW phase, moves(phase) PROVE shows(phase)
    BY <1>1, OutcomeMoves DEF StoreInv
  <1>2. ASSUME NEW phase, call' = [call EXCEPT ![t].phase = phase]
        PROVE  shows(phase)
    <2>1. call[t] \in CallRecord
      BY DEF StoreInv, StoreTypeOK
    <2>2. moves(phase)
      BY <1>2, <2>1 DEF StoreInv, StoreTypeOK, CallRecord
    <2>3. QED
      BY <1>1, <2>2
  <1> HIDE DEF shows
  <1>3. CASE TakeLock(t)
    <2>1. shows("binding")
      BY <1>2, <1>3 DEF TakeLock
    <2>2. QED
      BY <1>3, <2>1 DEF TakeLock, Outcome, shows
  <1>4. CASE SendStatement(t)
    <2>1. shows("sent")
      BY <1>1, <1>4, SendInterruptsNobody
    <2>2. QED
      BY <1>4, <2>1 DEF SendStatement, Outcome, shows
  <1>5. CASE ServerCommits(t)
    <2>1. shows("answered")
      BY <1>2, <1>5 DEF ServerCommits
    <2>2. outcome[t] = "called" /\ Outcome("answered") = "applied"
      BY <1>5, <2>1 DEF ServerCommits, Outcome, shows
    <2>3. QED
      BY <1>5, <2>1, <2>2
         DEF ServerCommits, Written, shows, Statements!TakeEffect
  <1>6. CASE ServerRefuses(t)
    <2>1. shows("refused")
      BY <1>2, <1>6 DEF ServerRefuses
    <2>2. QED
      BY <1>6, <2>1 DEF ServerRefuses, Outcome, shows
  <1>7. CASE ReturnRows(t)
    <2>1. shows("returned")
      BY <1>2, <1>7 DEF ReturnRows
    <2>2. outcome[t] = "applied" /\ Outcome("returned") = "returned"
      BY <1>7, <2>1 DEF ReturnRows, Outcome, shows
    <2>3. QED
      BY <1>7, <2>1, <2>2 DEF ReturnRows, shows, Statements!ReturnResult
  <1>8. CASE SleepAfterConflict(t)
    <2>1. shows("sleeping")
      BY <1>2, <1>8 DEF SleepAfterConflict
    <2>2. QED
      BY <1>8, <2>1 DEF SleepAfterConflict, Outcome, shows
  <1>9. CASE NextAttempt(t)
    <2>1. call[t] \in CallRecord
      BY DEF StoreInv, StoreTypeOK
    <2>2. moves("waiting")
      BY <1>9, <2>1 DEF NextAttempt, StoreInv, StoreTypeOK, CallRecord
    <2>3. shows("waiting")
      BY <1>1, <2>2
    <2>4. QED
      BY <1>9, <2>3 DEF NextAttempt, Outcome, shows
  <1>10. CASE RaiseConflict(t)
    <2>1. shows("conflicted")
      BY <1>2, <1>10 DEF RaiseConflict
    <2>2. outcome[t] = "called" /\ Outcome("conflicted") = "raised"
      BY <1>10, <2>1 DEF RaiseConflict, Outcome, shows
    <2>3. QED
      BY <1>10, <2>1, <2>2 DEF RaiseConflict, shows, Statements!RaiseError
  <1>11. QED
    BY <1>3, <1>4, <1>5, <1>6, <1>7, <1>8, <1>9, <1>10 DEF Advance

(* An error leaves open whether a statement that was sent is applied.      *)
LEMMA RaiseImplemented ==
    ASSUME StoreInv, NEW t \in Threads, RaiseOther(t)
    PROVE  Statements!RaiseError(t)
  <1>1. call[t].phase \in {"sent", "answered"}
    BY DEF RaiseOther, Breaks, StoreInv, NoneInterrupted
  <1>2. call[t] \in CallRecord
    BY DEF StoreInv, StoreTypeOK
  <1>3. /\ \A u \in Threads : u # t => call'[u] = call[u]
        /\ call'[t].phase = "raised"
    BY <1>2 DEF RaiseOther, StoreInv, StoreTypeOK, CallRecord
  <1>4. /\ outcome' = [outcome EXCEPT ![t] = Outcome("raised")]
        /\ outcome[t] = Outcome(call[t].phase)
    BY <1>3, OutcomeMoves DEF StoreInv
  <1>5. /\ Outcome("raised") = "raised"
        /\ call[t].phase = "sent" => outcome[t] = "called"
        /\ call[t].phase = "answered" => outcome[t] = "applied"
    BY <1>4 DEF Outcome
  <1>6. CASE call[t].phase = "sent"
    <2>1. version' \in {version, [version EXCEPT ![row[t]] = @ + 1]}
      BY <1>6 DEF RaiseOther, LostEffect, Written
    <2>2. QED
      BY <1>4, <1>5, <1>6, <2>1 DEF RaiseOther, Statements!RaiseError
  <1>7. CASE call[t].phase = "answered"
    <2>1. version' = version
      BY <1>7 DEF RaiseOther, LostEffect
    <2>2. QED
      BY <1>4, <1>5, <1>7, <2>1 DEF RaiseOther, Statements!RaiseError
  <1>8. QED
    BY <1>1, <1>6, <1>7

(* Retries, locks and lost connections included, a statement on a served   *)
(* catalog is atomic: once if it returns, at most once if it raises.       *)
THEOREM StoreIsAtomic == StoreSpec => ImplementsAtomicStatements
  <1>1. StoreInit => Statements!AtomicInit
    BY DEF StoreInit, outcome, Outcome, Statements!AtomicInit
  <1>2. StoreInv /\ [StoreNext]_storeVars
            => [Statements!AtomicNext]_(Statements!statementVars)
    <2> SUFFICES ASSUME StoreInv, [StoreNext]_storeVars
                 PROVE  [Statements!AtomicNext]_(Statements!statementVars)
      OBVIOUS
    <2>1. CASE StoreNext
      BY <2>1, RunIsCall, AdvanceImplemented, RaiseImplemented
         DEF StoreNext, Statements!AtomicNext, Statements!statementVars
    <2>2. CASE UNCHANGED storeVars
      BY <2>2 DEF storeVars, outcome, Statements!statementVars
    <2>3. QED
      BY <2>1, <2>2
  <1>3. QED
    BY <1>1, <1>2, StoreInvariant, PTL
       DEF StoreSpec, ImplementsAtomicStatements, Statements!AtomicSpec
=============================================================================
