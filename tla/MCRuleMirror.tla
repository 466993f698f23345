---------------------------- MODULE MCRuleMirror ----------------------------
(* An instance of RuleMirror: a project path and a path below it.          *)
EXTENDS RuleMirror, TLC

CONSTANTS outer, inner, p1, p2, v1, v2, index

MCChain == (outer :> <<outer>>) @@ (inner :> <<inner, outer>>)

Symmetry == Permutations({p1, p2}) \cup Permutations({v1, v2})
=============================================================================
