-------------------------- MODULE MCUpdatePartition --------------------------
(* Two firmware files of different lengths; the second one may be too long  *)
(* for the partition.                                                       *)
EXTENDS UpdatePartition

CONSTANTS old, new

MCLength == [f \in Files |-> IF f = old THEN 5 ELSE 7]
TooLong  == [f \in Files |-> IF f = old THEN 5 ELSE 9]
=============================================================================
