----------------------------- MODULE SendChannel -----------------------------
(***************************************************************************)
(* What the send queue promises to those who queue messages for the cloud: *)
(* a bounded FIFO.  What was accepted is sent, once and in order, and at   *)
(* most Capacity messages wait.                                            *)
(***************************************************************************)
EXTENDS Naturals, Sequences

CONSTANTS Messages, Capacity, NULL

VARIABLES
  waiting,    \* the messages accepted and not sent yet
  sent        \* the message sent last

vars == <<waiting, sent>>

Init == waiting = << >> /\ sent = NULL

Accept ==
  /\ Len(waiting) < Capacity
  /\ \E m \in Messages : waiting' = Append(waiting, m)
  /\ UNCHANGED sent

Transmit ==
  /\ waiting # << >>
  /\ sent' = Head(waiting)
  /\ waiting' = Tail(waiting)

Next == Accept \/ Transmit

Spec == Init /\ [][Next]_vars
=============================================================================
