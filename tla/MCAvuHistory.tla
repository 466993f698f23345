---------------------------- MODULE MCAvuHistory ----------------------------
(* An instance of AvuHistory: one attribute with two values.               *)
EXTENDS AvuHistory, TLC

CONSTANTS v1, v2

Symmetry == Permutations({v1, v2})
=============================================================================
