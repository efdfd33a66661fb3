--------------------------- MODULE MCUartAssembly ---------------------------
(* Every stream of FrameNum frames with one of these lengths.               *)
EXTENDS UartAssembly

FrameLens == {3, 5, 8}

MCStreams ==
  {LET end[k \in 0 .. FrameNum] == IF k = 0 THEN 0 ELSE end[k - 1] + lens[k]
   IN  [k \in 1 .. FrameNum + 1 |-> end[k - 1]] : lens \in [1 .. FrameNum -> FrameLens]}
=============================================================================
