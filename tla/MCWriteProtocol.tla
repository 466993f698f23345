-------------------------- MODULE MCWriteProtocol --------------------------
(* Small instances of WriteProtocol for TLC.                               *)
EXTENDS WriteProtocol

CONSTANTS h1, h2

(* Every process on one machine.                                           *)
OneHost == [p \in Processes |-> h1]

(* Writers and recoverers on h1, one more recoverer on h2.                 *)
OneRecovererElsewhere ==
    LET away == CHOOSE r \in Recoverers : TRUE
    IN  [p \in Processes |-> IF p = away THEN h2 ELSE h1]
=============================================================================
