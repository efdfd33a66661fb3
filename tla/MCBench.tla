------------------------------- MODULE MCBench -------------------------------
(* Instance of Bench: one context of each kind, a table of four tasks of   *)
(* which the UART thread and the shell hold two, and two sessions started, *)
(* one after the other or as one of these pairs beside each other.         *)
EXTENDS Bench

MCMix == {{"tcpTx", "udpRx"}, {"udpTx", "tcpRx"}}
=============================================================================
