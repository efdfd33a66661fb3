-------------------- MODULE ProtocolControllerRefinement --------------------
(***************************************************************************)
(* The protocol controller implements CloudSession, as long as encryption  *)
(* is switched on: with u32SecSwitch = 0 messages are queued without a key.*)
(***************************************************************************)
EXTENDS ProtocolController

Phase ==
  CASE mainState \in {"INIT", "ACCESS_NET"} -> "offline"
    [] mainState = "WAIT_ACCESS"            -> "opened"
    [] mainState = "WAIT_ACCESSRSP"         -> "hello"
    [] mainState = "WAIT_MSG4"              -> "keyed"
    [] mainState = "CONNECT_CLOUD"          -> "online"
    [] mainState = "DISCONNECT_CLOUD"       -> "closing"

KindsIn(q) == {IF q[i] = "MSG1" THEN "hello" ELSE "secured" : i \in DOMAIN q}

Outbox == KindsIn(sendQ)

Session == INSTANCE CloudSession
             WITH phase  <- Phase,
                  link   <- u32Socket \in openFds,
                  key    <- keyRecv = "RECVED",
                  outbox <- Outbox

(* Sessions with the cloud go through their phases in order and keep to     *)
(* their key and their connection, whatever the timers, the MCU, the WLAN   *)
(* and the cloud do: PCT_Run and everything that changes u8MainState.       *)
RefinesSession == Session!Spec
=============================================================================
