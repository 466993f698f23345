---------------------------- MODULE MCQuackStore ----------------------------
(* One store shared by two threads, and one of a single writer.            *)
EXTENDS QuackStore, TLC

CONSTANTS t1, t2, t3, s1, s2

TwoShareAStore == (t1 :> s1) @@ (t2 :> s1) @@ (t3 :> s2)
=============================================================================
