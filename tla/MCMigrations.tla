---------------------------- MODULE MCMigrations ----------------------------
(* Three runners for TLC: one from an old checkout, one with a target, and *)
(* one that wants everything.                                              *)
EXTENDS Migrations

CONSTANTS old, partial, full

SomeCheckouts == [r \in Runners |-> IF r = old THEN Latest - 1 ELSE Latest]
SomeTargets == [r \in Runners |-> IF r = partial THEN Latest - 1 ELSE Latest]
=============================================================================
