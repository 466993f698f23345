----------------------------- MODULE AvuQueries -----------------------------
(***************************************************************************)
(* The query that reconstructs effective AVUs, as operators on a set of    *)
(* rows.  A row has the triple that changed, the op, the time ts of the    *)
(* change and the snapshot that recorded it.                               *)
(***************************************************************************)
EXTENDS Naturals

(* ORDER BY ts DESC, snapshot_id DESC.                                     *)
Precedes(e, f) ==
    \/ e.ts > f.ts
    \/ e.ts = f.ts /\ e.snapshot > f.snapshot

(* Mutant: PARTITION BY attribute.                                         *)
PartitionByAttribute(e, rows) == {f \in rows : f.triple[1] = e.triple[1]}

(* PARTITION BY attribute, value, unit.                                    *)
PartitionOf(e, rows) == {f \in rows : f.triple = e.triple}

(* The rows that can have rn = 1: among rows that tie, any.                *)
Firsts(rows) ==
    {e \in rows : \A f \in PartitionOf(e, rows) : ~Precedes(f, e)}

(* The ops of the rows that can be first for triple x: both when the two   *)
(* tie, and then ROW_NUMBER picks either.                                  *)
FirstOps(x, rows) == {e.op : e \in {f \in Firsts(rows) : f.triple = x}}

(* EFFECTIVE_AVUS_AS_OF_SQL, which keeps a first row that is an add, shows *)
(* triple x if and only if isBound, whichever row of a tie comes first.    *)
QueryTells(x, rows, isBound) ==
    IF isBound THEN FirstOps(x, rows) = {"add"}
               ELSE "add" \notin FirstOps(x, rows)
=============================================================================
