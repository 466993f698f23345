-------------------------- MODULE MCCatalogRestore --------------------------
(* An instance of CatalogRestore on one machine.                           *)
EXTENDS RestoreRefinement

CONSTANT h1

OneHost == [p \in Processes |-> h1]
=============================================================================
