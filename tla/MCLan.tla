-------------------------------- MODULE MCLan --------------------------------
(* A descriptor for each of two clients, the listener and the broadcasts: a *)
(* new client has the number of the last one that left, and the table is    *)
(* full when an accept has failed.                                          *)
EXTENDS Lan

MCFds == 0 .. 3
=============================================================================
