------------------------- MODULE MCWriteRefinement -------------------------
(* The instances of MCWriteProtocol, checked against SnapshotLedger too.   *)
EXTENDS MCWriteProtocol, WriteRefinement
=============================================================================
