------------------------------ MODULE MCDownlink ------------------------------
(* Two or three messages of two to five bytes in segments of one to four,   *)
(* with a header of two bytes and a buffer of four.                         *)
EXTENDS Downlink

CONSTANTS uart, timer
MCStreams   == {<<3, 5, 7>>, <<4, 9>>}
MCContexts  == {Cloud, uart, timer}
MCFlushers  == {Cloud, uart}
=============================================================================
