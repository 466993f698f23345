----------------------------- MODULE MCReadPath -----------------------------
(* Small instances of ReadPath for TLC.                                    *)
EXTENDS ReadPath

CONSTANTS h1, h2, here

(* All writing and recovery happens on h1.                                 *)
WritersOnH1 == [p \in Processes |-> h1]

(* The reader here shares that machine, the others are on h2.              *)
OneReaderHere == [r \in Readers |-> IF r = here THEN h1 ELSE h2]
=============================================================================
