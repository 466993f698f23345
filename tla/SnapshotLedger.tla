--------------------------- MODULE SnapshotLedger ---------------------------
(***************************************************************************)
(* What the write path of mesa-ducklake promises, with no catalog rows,    *)
(* write-ahead log, cache or process in it: an append-only ledger of       *)
(* snapshots.  A snapshot is born in flight, is settled once, and never    *)
(* changes after that; it hangs on a snapshot settled before it was born;  *)
(* a shared one is committed only when its data is durable.                *)
(***************************************************************************)
EXTENDS Naturals

CONSTANTS Projects, NoProject, MaxSnapshots

LedgerIds == 1..MaxSnapshots
NoParent == 0

VARIABLES
    status,     \* [LedgerIds -> Statuses]
    owner,      \* [LedgerIds -> Projects, or NoProject while unborn]
    previous,   \* [LedgerIds -> the parent, or NoParent]
    shared,     \* the snapshots whose data belongs in the zone
    durable     \* the snapshots whose whole data is there

ledgerVars == <<status, owner, previous, shared, durable>>

Outcomes == {"committed", "failed", "discarded"}
Statuses == {"unborn", "inflight"} \cup Outcomes

LedgerInit ==
    /\ status = [id \in LedgerIds |-> "unborn"]
    /\ owner = [id \in LedgerIds |-> NoProject]
    /\ previous = [id \in LedgerIds |-> NoParent]
    /\ shared = {}
    /\ durable = {}

(* What a new snapshot of p may hang on.                                   *)
ParentsFor(p) ==
    {NoParent} \cup {id \in LedgerIds : /\ status[id] \in {"committed", "failed"}
                                        /\ owner[id] = p}

(* Ids are handed out in order.                                            *)
Begin(id, p, par) ==
    /\ \A other \in LedgerIds : status[other] = "unborn" <=> other >= id
    /\ par \in ParentsFor(p)
    /\ status' = [status EXCEPT ![id] = "inflight"]
    /\ owner' = [owner EXCEPT ![id] = p]
    /\ previous' = [previous EXCEPT ![id] = par]
    /\ UNCHANGED <<shared, durable>>

Share(id) ==
    /\ status[id] = "inflight"
    /\ shared' = shared \cup {id}
    /\ UNCHANGED <<status, owner, previous, durable>>

(* An upload may complete the data in the zone or damage it, but only      *)
(* while the snapshot is in flight.                                        *)
Upload(id) ==
    /\ status[id] = "inflight"
    /\ id \in shared
    /\ durable' \in {durable \cup {id}, durable \ {id}}
    /\ UNCHANGED <<status, owner, previous, shared>>

(* Only a shared snapshot can be given up as failed, and only one that     *)
(* was never shared can be rolled back.                                    *)
Settle(id, outcome) ==
    /\ status[id] = "inflight"
    /\ \/ outcome = "committed" /\ (id \in shared => id \in durable)
       \/ outcome = "failed" /\ id \in shared
       \/ outcome = "discarded" /\ id \notin shared
    /\ status' = [status EXCEPT ![id] = outcome]
    /\ UNCHANGED <<owner, previous, shared, durable>>

LedgerNext ==
    \E id \in LedgerIds :
       \/ \E p \in Projects, par \in LedgerIds \cup {NoParent} : Begin(id, p, par)
       \/ Share(id)
       \/ Upload(id)
       \/ \E outcome \in Outcomes : Settle(id, outcome)

LedgerSpec == LedgerInit /\ [][LedgerNext]_ledgerVars
=============================================================================
