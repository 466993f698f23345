-------------------------- MODULE RestorableLedger --------------------------
(***************************************************************************)
(* What backups of the catalog promise, with no dump, cache or object in   *)
(* it: the ledger of SnapshotLedger, of which a copy is kept.  A restore   *)
(* goes back to the copy.  The data in the zone do not go back with it,    *)
(* and yet nothing that the copy has as committed has lost its data; what  *)
(* was in flight may have lost or kept them.                               *)
(***************************************************************************)
EXTENDS SnapshotLedger

VARIABLE kept       \* the copy

restorableVars == <<ledgerVars, kept>>

Books == [status   |-> status,
          owner    |-> owner,
          previous |-> previous,
          shared   |-> shared]

RestorableInit == LedgerInit /\ kept = Books

Keep ==
    /\ kept' = Books
    /\ UNCHANGED ledgerVars

CommittedIn(books) ==
    {id \in books.shared : books.status[id] = "committed"}

GoBack ==
    /\ status'   = kept.status
    /\ owner'    = kept.owner
    /\ previous' = kept.previous
    /\ shared'   = kept.shared
    /\ durable' \in SUBSET kept.shared
    /\ CommittedIn(kept) \subseteq durable'
    /\ UNCHANGED kept

RestorableNext ==
    \/ LedgerNext /\ UNCHANGED kept
    \/ Keep
    \/ GoBack

RestorableSpec == RestorableInit /\ [][RestorableNext]_restorableVars
=============================================================================
