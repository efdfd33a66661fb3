---------------------------- MODULE CloudSession ----------------------------
(***************************************************************************)
(* What the protocol controller promises about its sessions with the       *)
(* cloud, without timers, sockets, threads, buffers or messages: in which  *)
(* order a session goes through its phases, when there is a link and a     *)
(* session key, and which kinds of messages may wait to be sent.           *)
(*                                                                         *)
(* ProtocolControllerRefinement shows that the controller implements this. *)
(***************************************************************************)

VARIABLES
  phase,      \* how far the session is
  link,       \* is there a TCP connection for it
  key,        \* is there a session key
  outbox      \* the kinds of messages that wait to be sent

vars == <<phase, link, key, outbox>>

(* MSG1 goes out before there is a key, all the others need it.             *)
Kinds == {"hello", "secured"}

Init == phase = "offline" /\ ~link /\ ~key /\ outbox = {}

(* The TCP connection is up.                                                *)
Open ==
  /\ phase = "offline"
  /\ phase' = "opened" /\ link'
  /\ UNCHANGED <<key, outbox>>

(* The first message of the handshake is queued: alone.                     *)
Hello ==
  /\ phase = "opened"
  /\ phase' = "hello" /\ outbox' = {"hello"}
  /\ UNCHANGED <<link, key>>

(* The cloud's answer brings the key, which the answer to it uses.          *)
Exchange ==
  /\ phase = "hello"
  /\ phase' = "keyed" /\ key'
  /\ outbox' \in {outbox, outbox \cup {"secured"}}
  /\ UNCHANGED link

Establish ==
  /\ phase = "keyed"
  /\ phase' = "online"
  /\ UNCHANGED <<link, key, outbox>>

(* A message is queued under the key, or one or more have left.             *)
Traffic ==
  /\ \/ key /\ outbox' = outbox \cup {"secured"}
     \/ outbox' \in SUBSET outbox
  /\ UNCHANGED <<phase, link, key>>

(* The session ends: its key and everything that waited to be sent are gone *)
(* at once, the connection is closed later.                                 *)
Drop ==
  /\ phase \in {"opened", "hello", "keyed", "online"}
  /\ phase' = "closing" /\ ~key' /\ outbox' = {}
  /\ UNCHANGED link

(* The connection is closed, after a dropped session, or together with it   *)
(* when the network goes or the chip is reset.                              *)
Close == phase' = "offline" /\ ~link' /\ ~key' /\ outbox' = {}

Next == Open \/ Hello \/ Exchange \/ Establish \/ Traffic \/ Drop \/ Close

Spec == Init /\ [][Next]_vars
=============================================================================
