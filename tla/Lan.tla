--------------------------------- MODULE Lan ---------------------------------
(***************************************************************************)
(* What the module offers to the LAN: the clients of ClientManager, the    *)
(* answers of the MCU to their messages (ZC_DealSessionOpt), and the       *)
(* broadcasts (zc_bc.c) that let clients find the module.                  *)
(*                                                                         *)
(* A client's message is forwarded to the MCU with the client's descriptor *)
(* as its session; the MCU's answer is handled on the UART thread, which   *)
(* looks the descriptor up in the table and later sends to it, while the   *)
(* cloud thread accepts and closes sockets.                                *)
(***************************************************************************)
EXTENDS ClientManager

CONSTANTS
  PCT_SEND_BC_MAX_NUM,      \* 300 in zc_protocol_controller.h
  BcSleepCount,             \* g_u32BcSleepCount, 15000 turns of the loop
  MaxAsked                  \* a bound on the sessions the MCU remembers

ASSUME BroadcastAssumption ==
  /\ PCT_SEND_BC_MAX_NUM \in Nat
  /\ BcSleepCount \in Nat
  /\ MaxAsked \in Nat

VARIABLES
  asked,        \* the sessions the MCU may answer
  answering,    \* the one whose descriptor the UART thread has found
  bcFd,         \* g_Bcfd
  bcOpen,       \* broadcast sockets open in the TCP/IP stack
  bcReady,      \* has QC_BcInit run since the WLAN came up
  online,       \* is u8MainState PCT_STATE_CONNECT_CLOUD
  sleepcount,   \* of ZC_SendBc
  sendBcNum,    \* u16SendBcNum
  silence       \* turns of the loop since the last broadcast, up to BcSleepCount

answerVars == <<asked, answering>>
bcVars     == <<bcFd, bcOpen, bcReady, online, sleepcount, sendBcNum, silence>>
lanVars    == <<vars, answerVars, bcVars>>

NoAnswer == [fd |-> PCT_INVAILD_SOCKET, left |-> TRUE]

(* A session is the descriptor of the client that asked; left says whether  *)
(* this client has gone since, so that the number may be another's by now.  *)
Session(f) == [fd |-> f, left |-> FALSE]
Aged(q)    == IF q.fd \in openFds' THEN q ELSE [q EXCEPT !.left = TRUE]

LanInit ==
  /\ Init
  /\ asked = {} /\ answering = NoAnswer
  /\ bcFd = PCT_INVAILD_SOCKET /\ bcOpen = {} /\ bcReady = FALSE
  /\ online = FALSE
  /\ sleepcount = 0 /\ sendBcNum = 0
  /\ silence = BcSleepCount

Age == /\ asked' = {Aged(q) : q \in asked}
       /\ answering' = Aged(answering)

(* The TCP/IP stack does not give the number of an open socket again.       *)
NumbersAreNew == openFds' \cap bcOpen = {}

-----------------------------------------------------------------------------
(* A complete and undamaged message of a client goes to the MCU.            *)
Forward ==
  /\ \E f \in Readable :
       /\ RecvMessage(f)
       /\ asked' = asked \cup {Session(f)}
       /\ Cardinality(asked') <= MaxAsked
  /\ UNCHANGED <<slotVars, listenFd, openFds, wifi, answering, bcVars>>

(* ZC_DealSessionOpt looks for the descriptor in the table; without it the  *)
(* answer is dropped.                                                       *)
FindSession(q) == answering' = IF q.fd \in Readable THEN q ELSE NoAnswer

(* The MCU answers a session it was given, once or several times.           *)
Answer ==
  /\ answering = NoAnswer
  /\ \E q \in asked :
       /\ FindSession(q)
       /\ asked' \in {asked, asked \ {q}}
  /\ UNCHANGED <<vars, bcVars>>

(* The answer has been built and encrypted and goes to the descriptor.      *)
SendAnswer ==
  /\ answering # NoAnswer
  /\ answering' = NoAnswer
  /\ UNCHANGED <<vars, asked, bcVars>>

-----------------------------------------------------------------------------
(* QC_BcInit, after QC_SetNetwork.                                          *)
BcInit ==
  /\ wifi /\ ~bcReady
  /\ bcReady' = TRUE
  /\ \E f \in (Fds \ (openFds \cup bcOpen)) \cup {PCT_INVAILD_SOCKET} :
       bcFd' = f /\ bcOpen' = bcOpen \cup ({f} \ {PCT_INVAILD_SOCKET})
  /\ sendBcNum' = 0
  /\ UNCHANGED <<vars, answerVars, online, sleepcount, silence>>

(* The session with the cloud begins or ends.                               *)
CloudChanges ==
  /\ bcReady
  /\ online' = ~online
  /\ UNCHANGED <<vars, answerVars, bcFd, bcOpen, bcReady, sleepcount, sendBcNum, silence>>

(* One more turn without a broadcast.                                       *)
Longer(n) == IF n < BcSleepCount THEN n + 1 ELSE n

(* ZC_SendBc of a module that is not online.                                *)
Offline == sleepcount' = 0 /\ UNCHANGED sendBcNum

(* A mutant of the next definition: the count goes on after a broadcast.    *)
DueKeepingCount ==
  /\ sleepcount' = sleepcount
  /\ sendBcNum' = IF sendBcNum < PCT_SEND_BC_MAX_NUM THEN sendBcNum + 1 ELSE sendBcNum

(* The last turn of a round: a broadcast unless there were enough of them.  *)
Due ==
  /\ sleepcount' = 0
  /\ sendBcNum' = IF sendBcNum < PCT_SEND_BC_MAX_NUM THEN sendBcNum + 1 ELSE sendBcNum

NotDue == sleepcount' = sleepcount + 1 /\ UNCHANGED sendBcNum

(* ZC_SendBc, called once in each turn of the loop.                         *)
SendBc ==
  /\ bcReady
  /\ \/ ~online /\ Offline
     \/ online /\ sleepcount + 1 > BcSleepCount /\ Due
     \/ online /\ sleepcount + 1 <= BcSleepCount /\ NotDue
  /\ silence' = IF sendBcNum' > sendBcNum THEN 0 ELSE Longer(silence)
  /\ UNCHANGED <<vars, answerVars, bcFd, bcOpen, bcReady, online>>

(* A mutant of the next definition: the broadcast socket stays open.        *)
BroadcastSleepsOpen ==
  /\ bcReady' = FALSE /\ online' = FALSE
  /\ UNCHANGED <<bcFd, bcOpen, sleepcount, sendBcNum, silence>>

(* The broadcast part of QC_Sleep.                                          *)
BroadcastSleeps ==
  /\ bcOpen' = bcOpen \ {bcFd}
  /\ bcReady' = FALSE /\ online' = FALSE
  /\ UNCHANGED <<bcFd, sleepcount, sendBcNum, silence>>

(* PCT_WakeUp sets the number of broadcasts back, as QC_BcInit does.        *)
Wake ==
  /\ WakeUp /\ Age
  /\ sendBcNum' \in {0, sendBcNum}
  /\ states' = "WAKEUP" => sendBcNum' = 0
  /\ UNCHANGED <<bcFd, bcOpen, bcReady, online, sleepcount, silence>>

(* The loop looks at the WLAN only after QC_BcInit.                         *)
GoToSleep == bcReady /\ Sleep /\ Age /\ BroadcastSleeps

Serve ==
  /\ bcReady
  /\ StartClientListen \/ Accept \/ RecvDataFromClient \/ ClientDisconnect \/ MSG_Init
  /\ Age
  /\ NumbersAreNew
  /\ UNCHANGED bcVars

LanNext ==
  \/ Wake \/ BcInit \/ Serve \/ Forward \/ GoToSleep
  \/ Answer \/ SendAnswer
  \/ CloudChanges \/ SendBc

LanSpec == LanInit /\ [][LanNext]_lanVars

-----------------------------------------------------------------------------
(* The answer of the MCU to a client that is still connected goes to this   *)
(* client: its descriptor is in the table from the question to the answer,  *)
(* also between the lookup and the sending, whatever other clients come and *)
(* go.  (The answer to one that has left goes to whoever has the number.)   *)
AnswersReachTheirClient ==
  \A q \in asked \cup {answering} : ~q.left => q.fd \in Readable /\ q.fd # listenFd

(* Each time the WLAN is lost the broadcast socket of QC_BcInit is closed,  *)
(* so that there is never more than one and its number is not a client's:   *)
(* the stack has few sockets and the port can be bound once.                *)
BroadcastSocketIsOwned ==
  /\ bcOpen = (IF bcReady THEN {bcFd} ELSE {}) \ {PCT_INVAILD_SOCKET}
  /\ bcOpen \cap openFds = {}
  /\ bcReady => wifi

(* Whether accepts fail, the table is full, a client leaves or the WLAN is  *)
(* lost, none of the module's sockets on the LAN leaks or is closed twice.  *)
SocketsOfTheLanAreOwned == ClientSocketsAreOwned /\ BroadcastSocketIsOwned

(* However often the session with the cloud ends and begins, broadcasts are *)
(* as far apart as g_u32BcSleepCount says and there are no more of them     *)
(* than PCT_SEND_BC_MAX_NUM until the WLAN is set up again.                 *)
BroadcastsAreSpaced ==
  [][sendBcNum' > sendBcNum => /\ silence = BcSleepCount
                               /\ sendBcNum' <= PCT_SEND_BC_MAX_NUM]_lanVars
=============================================================================
