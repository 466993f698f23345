----------------------------- MODULE QuackStore -----------------------------
(***************************************************************************)
(* Statements on a catalog that is served over Quack.  A store is one      *)
(* client connection; the threads that share it take its lock for each     *)
(* attempt of a statement and give it back while they wait before the      *)
(* next.                                                                   *)
(*                                                                         *)
(* Outside the source: the server, which runs a statement in a transaction *)
(* of its own and aborts it when another statement committed a write to    *)
(* the same row since it began, and which drops the statement a session is *)
(* running when that session sends another.                                *)
(***************************************************************************)
EXTENDS Naturals

CONSTANTS
    Threads,
    Stores,
    StoreOf,           \* [Threads -> Stores]
    Rows,              \* rows of the catalog
    Nobody,            \* no thread
    ConflictRetries,   \* conflict_retries
    MaxCalls,          \* bound on the statements of all threads
    ConnectionFails    \* may a connection break?

ASSUME StoreAssumption ==
    /\ StoreOf \in [Threads -> Stores]
    /\ Nobody \notin Threads
    /\ ConflictRetries \in Nat
    /\ MaxCalls \in Nat
    /\ ConnectionFails \in BOOLEAN

VARIABLES
    call,       \* the locals of each thread's latest call of _run
    row,        \* the row that call writes
    holder,     \* who has each store's lock
    inFlight,   \* whose statement each store's session is running
    version,    \* committed writes of each row
    calls       \* how many statements were begun

storeVars == <<call, row, holder, inFlight, version, calls>>

Ended == {"returned", "conflicted", "raised"}
Phases == {"none", "waiting", "binding", "sent", "answered", "refused",
           "sleeping", "interrupted"} \cup Ended

(* seen is what the server's transaction read; base, the version when the  *)
(* call began, is history.                                                 *)
CallRecord == [phase : Phases, attempt : 0..ConflictRetries,
               seen : Nat, base : Nat]

StoreInit ==
    /\ call = [t \in Threads |->
                  [phase |-> "none", attempt |-> 0, seen |-> 0, base |-> 0]]
    /\ row \in [Threads -> Rows]
    /\ holder = [s \in Stores |-> Nobody]
    /\ inFlight = [s \in Stores |-> Nobody]
    /\ version = [r \in Rows |-> 0]
    /\ calls = 0

-----------------------------------------------------------------------------
(* _run                                                                    *)

Run(t, r) ==
    /\ call[t].phase \in Ended \cup {"none"}
    /\ calls < MaxCalls
    /\ calls' = calls + 1
    /\ call' = [call EXCEPT ![t] = [phase |-> "waiting", attempt |-> 0,
                                    seen |-> 0, base |-> version[r]]]
    /\ row' = [row EXCEPT ![t] = r]
    /\ UNCHANGED <<holder, inFlight, version>>

(* Mutant: the lock is not asked for.                                      *)
TakeLockOfNobody(t) ==
    /\ call[t].phase = "waiting"
    /\ call' = [call EXCEPT ![t].phase = "binding"]
    /\ UNCHANGED <<row, holder, inFlight, version, calls>>

TakeLock(t) ==
    /\ call[t].phase = "waiting"
    /\ holder[StoreOf[t]] = Nobody
    /\ holder' = [holder EXCEPT ![StoreOf[t]] = t]
    /\ call' = [call EXCEPT ![t].phase = "binding"]
    /\ UNCHANGED <<row, inFlight, version, calls>>

ReleaseLock(t) ==
    holder' = [holder EXCEPT ![StoreOf[t]] = IF @ = t THEN Nobody ELSE @]

(* The parameters are set on a cursor of this attempt, then the statement  *)
(* goes out; whatever the session was running is interrupted.              *)
SendStatement(t) ==
    /\ call[t].phase = "binding"
    /\ call' = [u \in Threads |->
                   IF u = t
                   THEN [call[t] EXCEPT !.phase = "sent",
                                        !.seen = version[row[t]]]
                   ELSE IF inFlight[StoreOf[t]] = u
                        THEN [call[u] EXCEPT !.phase = "interrupted"]
                        ELSE call[u]]
    /\ inFlight' = [inFlight EXCEPT ![StoreOf[t]] = t]
    /\ UNCHANGED <<row, holder, version, calls>>

Uncontended(t) == version[row[t]] = call[t].seen

Written(t) == [version EXCEPT ![row[t]] = @ + 1]

ServerCommits(t) ==
    /\ call[t].phase = "sent"
    /\ Uncontended(t)
    /\ version' = Written(t)
    /\ call' = [call EXCEPT ![t].phase = "answered"]
    /\ inFlight' = [inFlight EXCEPT ![StoreOf[t]] = Nobody]
    /\ UNCHANGED <<row, holder, calls>>

ServerRefuses(t) ==
    /\ call[t].phase = "sent"
    /\ ~Uncontended(t)
    /\ call' = [call EXCEPT ![t].phase = "refused"]
    /\ inFlight' = [inFlight EXCEPT ![StoreOf[t]] = Nobody]
    /\ UNCHANGED <<row, holder, version, calls>>

ReturnRows(t) ==
    /\ call[t].phase = "answered"
    /\ call' = [call EXCEPT ![t].phase = "returned"]
    /\ ReleaseLock(t)
    /\ UNCHANGED <<row, inFlight, version, calls>>

(* Mutant: one attempt too many.                                           *)
SleepAfterLastConflict(t) ==
    /\ call[t].phase = "refused"
    /\ call[t].attempt <= ConflictRetries
    /\ call' = [call EXCEPT ![t].phase = "sleeping"]
    /\ ReleaseLock(t)
    /\ UNCHANGED <<row, inFlight, version, calls>>

(* TransactionException: Conflict.  The sleep comes after the lock.        *)
SleepAfterConflict(t) ==
    /\ call[t].phase = "refused"
    /\ call[t].attempt < ConflictRetries
    /\ call' = [call EXCEPT ![t].phase = "sleeping"]
    /\ ReleaseLock(t)
    /\ UNCHANGED <<row, inFlight, version, calls>>

NextAttempt(t) ==
    /\ call[t].phase = "sleeping"
    /\ call' = [call EXCEPT ![t].phase = "waiting",
                            ![t].attempt = @ + 1]
    /\ UNCHANGED <<row, holder, inFlight, version, calls>>

(* Mutant: the last attempt is never made.                                 *)
RaiseConflictEarly(t) ==
    /\ call[t].phase = "refused"
    /\ call[t].attempt + 1 >= ConflictRetries
    /\ call' = [call EXCEPT ![t].phase = "conflicted"]
    /\ ReleaseLock(t)
    /\ UNCHANGED <<row, inFlight, version, calls>>

RaiseConflict(t) ==
    /\ call[t].phase = "refused"
    /\ call[t].attempt = ConflictRetries
    /\ call' = [call EXCEPT ![t].phase = "conflicted"]
    /\ ReleaseLock(t)
    /\ UNCHANGED <<row, inFlight, version, calls>>

(* Any other error is raised at once: an interrupt, or a connection that   *)
(* breaks, where a statement on its way may still take effect.             *)
Breaks(t) ==
    \/ call[t].phase = "interrupted"
    \/ ConnectionFails /\ call[t].phase \in {"sent", "answered"}

LostEffect(t) ==
    IF call[t].phase = "sent" /\ Uncontended(t) THEN Written(t) ELSE version

(* Mutant: every error is taken for a conflict.                            *)
RetryOther(t) ==
    /\ Breaks(t)
    /\ call[t].attempt < ConflictRetries
    /\ call' = [call EXCEPT ![t].phase = "sleeping"]
    /\ version' \in {version, LostEffect(t)}
    /\ inFlight' = [inFlight EXCEPT ![StoreOf[t]] = IF @ = t THEN Nobody ELSE @]
    /\ ReleaseLock(t)
    /\ UNCHANGED <<row, calls>>

(* Mutant: a broken connection is tried again, and not counted.            *)
RetryBroken(t) ==
    /\ Breaks(t)
    /\ call[t].phase # "answered"
    /\ call' = [call EXCEPT ![t].phase = "waiting"]
    /\ inFlight' = [inFlight EXCEPT ![StoreOf[t]] = IF @ = t THEN Nobody ELSE @]
    /\ ReleaseLock(t)
    /\ UNCHANGED <<row, version, calls>>

RaiseOther(t) ==
    /\ Breaks(t)
    /\ call' = [call EXCEPT ![t].phase = "raised"]
    /\ version' \in {version, LostEffect(t)}
    /\ inFlight' = [inFlight EXCEPT ![StoreOf[t]] = IF @ = t THEN Nobody ELSE @]
    /\ ReleaseLock(t)
    /\ UNCHANGED <<row, calls>>

Advance(t) ==
    \/ TakeLock(t)
    \/ SendStatement(t)
    \/ ServerCommits(t)
    \/ ServerRefuses(t)
    \/ ReturnRows(t)
    \/ SleepAfterConflict(t)
    \/ NextAttempt(t)
    \/ RaiseConflict(t)

StoreNext ==
    \E t \in Threads :
        \/ \E r \in Rows : Run(t, r)
        \/ Advance(t)
        \/ RaiseOther(t)

StoreSpec == StoreInit /\ [][StoreNext]_storeVars

(* Threads run and sleeps end; the lock need not be fair.                  *)
FairStoreSpec == StoreSpec /\ \A t \in Threads : WF_storeVars(Advance(t))
-----------------------------------------------------------------------------
(* Properties                                                              *)

HasSession(t) == call[t].phase \in {"binding", "sent", "answered", "refused"}

(* Types.                                                                  *)
StoreTypeOK ==
    /\ call \in [Threads -> CallRecord]
    /\ row \in [Threads -> Rows]
    /\ holder \in [Stores -> Threads \cup {Nobody}]
    /\ inFlight \in [Stores -> Threads \cup {Nobody}]
    /\ version \in [Rows -> Nat]
    /\ calls \in 0..MaxCalls

(* The threads of a store never interrupt each other's statements, also    *)
(* when one of them retries, breaks off or gives up: the reason for the    *)
(* lock in catalog_quack.py:22-25.                                         *)
NothingSuperseded ==
    /\ \A t \in Threads : call[t].phase # "interrupted"
    /\ \A t, u \in Threads :
        HasSession(t) /\ HasSession(u) /\ StoreOf[t] = StoreOf[u] => t = u

(* A call raises a conflict only if at least as many other writes of its   *)
(* row took effect, since it began, as it made attempts: contending        *)
(* writers never make each other fail without one of them making progress. *)
ConflictMeansProgress ==
    \A t \in Threads :
        call[t].phase = "conflicted"
            => version[row[t]] > call[t].base + ConflictRetries

(* Every statement ends, although threads take the lock from each other    *)
(* between the attempts, conflicts recur and connections break: retries    *)
(* are counted, and only conflicts are retried (catalog_quack.py:120-130). *)
StatementsEnd ==
    \A t \in Threads :
        call[t].phase = "waiting" ~> call[t].phase \in Ended

(* How far a statement is for its caller.                                  *)
Outcome(phase) ==
    CASE phase = "none" -> "none"
      [] phase = "answered" -> "applied"
      [] phase = "returned" -> "returned"
      [] phase \in {"conflicted", "raised"} -> "raised"
      [] OTHER -> "called"

outcome == [t \in Threads |-> Outcome(call[t].phase)]

(* Seen from outside, a statement is atomic, retries and all.              *)
Statements == INSTANCE AtomicStatements WITH target <- row

(* A statement takes effect once if it returns and at most once if it      *)
(* raises, whatever is retried: what Catalog relies on.                    *)
ImplementsAtomicStatements == Statements!AtomicSpec
=============================================================================
