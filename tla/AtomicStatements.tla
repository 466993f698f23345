-------------------------- MODULE AtomicStatements --------------------------
(***************************************************************************)
(* What every other module takes a catalog statement to be: a call takes   *)
(* effect on the row it writes at one point in time, once if it returns,   *)
(* at most once if it raises.                                              *)
(***************************************************************************)
EXTENDS Naturals

CONSTANTS Threads, Rows

VARIABLES
    outcome,    \* how far each thread's latest statement is
    target,     \* the row it writes
    version     \* how many statements took effect on each row

statementVars == <<outcome, target, version>>

Outcomes == {"none", "called", "applied", "returned", "raised"}

AtomicInit ==
    /\ outcome = [t \in Threads |-> "none"]
    /\ target \in [Threads -> Rows]
    /\ version = [row \in Rows |-> 0]

Call(t, row) ==
    /\ outcome[t] \in {"none", "returned", "raised"}
    /\ outcome' = [outcome EXCEPT ![t] = "called"]
    /\ target' = [target EXCEPT ![t] = row]
    /\ UNCHANGED version

TakeEffect(t) ==
    /\ outcome[t] = "called"
    /\ outcome' = [outcome EXCEPT ![t] = "applied"]
    /\ version' = [version EXCEPT ![target[t]] = @ + 1]
    /\ UNCHANGED target

ReturnResult(t) ==
    /\ outcome[t] = "applied"
    /\ outcome' = [outcome EXCEPT ![t] = "returned"]
    /\ UNCHANGED <<target, version>>

(* The caller of a statement that raised cannot tell whether it was        *)
(* applied; the effect of one that breaks off may still come.              *)
RaiseError(t) ==
    /\ outcome[t] \in {"called", "applied"}
    /\ outcome' = [outcome EXCEPT ![t] = "raised"]
    /\ version' \in {version,
                     IF outcome[t] = "called"
                     THEN [version EXCEPT ![target[t]] = @ + 1]
                     ELSE version}
    /\ UNCHANGED target

AtomicNext ==
    \E t \in Threads :
        \/ \E row \in Rows : Call(t, row)
        \/ TakeEffect(t)
        \/ ReturnResult(t)
        \/ RaiseError(t)

AtomicSpec == AtomicInit /\ [][AtomicNext]_statementVars
=============================================================================
