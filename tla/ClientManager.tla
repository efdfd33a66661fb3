---------------------------- MODULE ClientManager ----------------------------
(***************************************************************************)
(* The clients on the LAN (zc_client_manager.c) and the part of the cloud  *)
(* thread that serves their sockets (QC_CloudRecvfunc, QC_ListenClient,    *)
(* QC_Sleep in zc_qca_adpter.c).  Up to ZC_MAX_CLIENT_NUM clients are      *)
(* connected; the one that has begun to send a message is the busy one and *)
(* has the only client buffer to itself.                                   *)
(*                                                                         *)
(* All of this runs on the cloud thread, one socket event per step.  Only  *)
(* MSG_Init, which empties the client buffer together with those of the    *)
(* cloud, also comes from timer callbacks.                                 *)
(***************************************************************************)
EXTENDS Naturals, FiniteSets

CONSTANTS
  Fds,                      \* socket descriptors of the TCP/IP stack
  PCT_INVAILD_SOCKET,       \* -1, which is also what qcom_accept fails with
  ZC_MAX_CLIENT_NUM         \* 4 in zc_client_manager.h

(* u32ClientBusyId is declared as a u8, so that a larger descriptor would   *)
(* not be recognised: the stack has 12 sockets and numbers them from 0.     *)
ASSUME ClientsAssumption ==
  /\ Fds \subseteq 0 .. 255
  /\ PCT_INVAILD_SOCKET \in Nat \ Fds
  /\ ZC_MAX_CLIENT_NUM \in Nat

Slots == 1 .. ZC_MAX_CLIENT_NUM

VARIABLES
  states,       \* u8ClientStates
  busyId,       \* u32ClientBusyId
  occupied,     \* slots with ZC_CLIENT_INVAILD_FLAG, which are those in use
  clientFd,     \* u32ClientFd
  listenFd,     \* struClientConnection.u32Socket
  openFds,      \* client and listening sockets open in the TCP/IP stack
  status,       \* u8Status of g_struClientBuffer
  senders,      \* whose bytes the buffer holds; Gone for clients that left
  wifi          \* is the WLAN up (QC_SetNetwork has returned)

vars == <<states, busyId, occupied, clientFd, listenFd, openFds, status, senders,
          wifi>>

slotVars   == <<occupied, clientFd>>
bufferVars == <<status, senders>>

Gone == PCT_INVAILD_SOCKET

u8(n) == n % 256

Init ==
  /\ states = "INIT"
  /\ busyId = 0
  /\ occupied = {}
  /\ clientFd = [s \in Slots |-> 0]
  /\ listenFd = PCT_INVAILD_SOCKET
  /\ openFds = {}
  /\ status = "IDLE" /\ senders = {}
  /\ wifi = FALSE

EmptyBuffer == status' = "IDLE" /\ senders' = {}

-----------------------------------------------------------------------------
(* QC_SetNetwork returns.  PCT_WakeUp wakes the clients unless the MCU has  *)
(* registered while the WLAN was coming up: then they are not listened for. *)
WakeUp ==
  /\ ~wifi
  /\ wifi' = TRUE
  /\ states' \in {"WAKEUP", states}
  /\ UNCHANGED <<busyId, slotVars, listenFd, openFds, bufferVars>>

(* ZC_StartClientListen, when QC_ListenClient succeeds; otherwise the       *)
(* socket is closed again and the next turn of the loop tries again.        *)
StartClientListen ==
  /\ states = "WAKEUP"
  /\ \E f \in Fds \ openFds :
       /\ listenFd' = f
       /\ openFds' = openFds \cup {f}
  /\ states' = "IDLE"
  /\ UNCHANGED <<busyId, slotVars, bufferVars, wifi>>

(* A mutant of the next definition: the first slot, free or not.            *)
ConnectInFirstSlot(f) ==
  \E s \in Slots :
    /\ \A t \in Slots : s <= t
    /\ occupied' = occupied \cup {s}
    /\ clientFd' = [clientFd EXCEPT ![s] = f]

(* ZC_ClientConnect: the first free slot.                                   *)
ClientConnect(f) ==
  \E s \in Slots \ occupied :
    /\ \A t \in Slots \ occupied : s <= t
    /\ occupied' = occupied \cup {s}
    /\ clientFd' = [clientFd EXCEPT ![s] = f]

(* A mutant of the next definition: the socket of a client that finds no    *)
(* slot stays open.                                                         *)
AcceptWithoutClose ==
  /\ listenFd # PCT_INVAILD_SOCKET
  /\ \E f \in Fds \ openFds :
       /\ openFds' = openFds \cup {f}
       /\ IF occupied # Slots THEN ClientConnect(f) ELSE UNCHANGED slotVars
  /\ UNCHANGED <<states, busyId, listenFd, bufferVars, wifi>>

(* qcom_accept.  When it fails a slot is taken for the descriptor -1 all    *)
(* the same, until the WLAN is lost; a client that finds no slot is closed. *)
Accept ==
  /\ listenFd # PCT_INVAILD_SOCKET
  /\ \E f \in (Fds \ openFds) \cup {PCT_INVAILD_SOCKET} :
       IF occupied # Slots
       THEN /\ ClientConnect(f)
            /\ openFds' = openFds \cup ({f} \ {PCT_INVAILD_SOCKET})
       ELSE UNCHANGED <<slotVars, openFds>>
  /\ UNCHANGED <<states, busyId, listenFd, bufferVars, wifi>>

-----------------------------------------------------------------------------
(* The sockets of clients that select may report.                           *)
Readable == {clientFd[s] : s \in occupied} \ {PCT_INVAILD_SOCKET}

(* A mutant of the next definition: every client may send.                  *)
MayReceiveAlways(f) == TRUE

(* ZC_CheckClientIdle.                                                      *)
MayReceive(f) == states = "IDLE" \/ f = busyId

(* ZC_RecvDataFromClient, while the message is not complete: the first part *)
(* makes the client the busy one.                                           *)
RecvSegment(f) ==
  /\ MayReceive(f)
  /\ states' = "BUSY"
  /\ busyId' = u8(f)
  /\ status' \in {"SEGMENT_NOHEAD", "SEGMENT_HEAD"}
  /\ status = "SEGMENT_HEAD" => status' = "SEGMENT_HEAD"
  /\ senders' = senders \cup {f}

(* MSG_RecvData refuses a message that is too long.  The client stays busy. *)
RecvTooLong(f) ==
  /\ MayReceive(f)
  /\ status # "SEGMENT_HEAD"
  /\ states' = "BUSY"
  /\ busyId' = u8(f)
  /\ EmptyBuffer

(* The message is complete: it is forwarded to the MCU with f as its        *)
(* session, or dropped when it is damaged, and the next client may send.    *)
RecvMessage(f) ==
  /\ MayReceive(f)
  /\ states' = "IDLE"
  /\ busyId' = u8(f)
  /\ EmptyBuffer

(* The client gets an error while another one is busy.                      *)
Refuse(f) ==
  /\ ~MayReceive(f)
  /\ UNCHANGED <<states, busyId, bufferVars>>

RecvDataFromClient ==
  /\ \E f \in Readable :
       RecvSegment(f) \/ RecvTooLong(f) \/ RecvMessage(f) \/ Refuse(f)
  /\ UNCHANGED <<slotVars, listenFd, openFds, wifi>>

(* A mutant of the next definition: the busy client stays the busy one.     *)
DisconnectKeepingBusy ==
  \E f \in Readable :
    /\ occupied' = {s \in occupied : clientFd[s] # f}
    /\ openFds' = openFds \ {f}
    /\ senders' = {IF g = f THEN Gone ELSE g : g \in senders}
    /\ UNCHANGED <<states, busyId, clientFd, listenFd, status, wifi>>

(* ZC_ClientDisconnect and qcom_close.  The part of a message that the      *)
(* client has sent stays in the buffer.                                     *)
ClientDisconnect ==
  \E f \in Readable :
    /\ occupied' = {s \in occupied : clientFd[s] # f}
    /\ openFds' = openFds \ {f}
    /\ states' = IF states = "BUSY" /\ f = busyId THEN "IDLE" ELSE states
    /\ senders' = {IF g = f THEN Gone ELSE g : g \in senders}
    /\ UNCHANGED <<busyId, clientFd, listenFd, status, wifi>>

(* MSG_Init when the cloud disconnects.                                     *)
MSG_Init ==
  /\ status # "IDLE"
  /\ EmptyBuffer
  /\ UNCHANGED <<states, busyId, slotVars, listenFd, openFds, wifi>>

(* QC_Sleep, PCT_Sleep and ZC_ClientSleep: the WLAN is lost.                *)
Sleep ==
  /\ wifi
  /\ wifi' = FALSE
  /\ openFds' = openFds \ ({listenFd} \cup Readable)
  /\ listenFd' = PCT_INVAILD_SOCKET
  /\ clientFd' = [s \in Slots |-> IF s \in occupied THEN PCT_INVAILD_SOCKET
                                                    ELSE clientFd[s]]
  /\ occupied' = {}
  /\ states' = "INIT"
  /\ EmptyBuffer
  /\ UNCHANGED busyId

Next ==
  \/ WakeUp \/ StartClientListen \/ Accept \/ RecvDataFromClient
  \/ ClientDisconnect \/ MSG_Init \/ Sleep

Spec == Init /\ [][Next]_vars

-----------------------------------------------------------------------------
(* The type invariant.                                                      *)
TypeOK ==
  /\ states \in {"INIT", "WAKEUP", "IDLE", "BUSY"}
  /\ busyId \in 0 .. 255
  /\ occupied \in SUBSET Slots
  /\ clientFd \in [Slots -> Fds \cup {0, PCT_INVAILD_SOCKET}]
  /\ listenFd \in Fds \cup {PCT_INVAILD_SOCKET}
  /\ openFds \in SUBSET Fds
  /\ status \in {"IDLE", "SEGMENT_NOHEAD", "SEGMENT_HEAD"}
  /\ senders \in SUBSET (Fds \cup {Gone})
  /\ wifi \in BOOLEAN

(* No socket leaks, whether the table is full, a client leaves or the WLAN  *)
(* is lost: those open are the listening socket and the clients', each in   *)
(* one slot, and the stale descriptors of free slots are never closed again *)
(* after their numbers have been given to others.                           *)
ClientSocketsAreOwned ==
  /\ openFds = ({listenFd} \cup {clientFd[s] : s \in occupied}) \ {PCT_INVAILD_SOCKET}
  /\ \A s \in occupied : clientFd[s] = listenFd => clientFd[s] = PCT_INVAILD_SOCKET
  /\ \A s, t \in occupied : clientFd[s] = clientFd[t] /\ s # t =>
       clientFd[s] = PCT_INVAILD_SOCKET

(* The table refuses every other client while one is busy, so the busy one  *)
(* must be connected: if it left without being freed, or its number were    *)
(* cut off, nobody could send until the WLAN is lost.                       *)
BusyClientIsConnected ==
  states = "BUSY" => busyId \in {clientFd[s] : s \in occupied} /\ busyId \in openFds

(* The client buffer is shared one client at a time: of the clients whose   *)
(* bytes it holds at most one is still connected, and that is the busy one. *)
(* The bytes of clients that left in the middle of a message stay in front. *)
OneConnectedSender ==
  senders \ {Gone} \subseteq (IF states = "BUSY" THEN {busyId} ELSE {})

(* Clients are served exactly while there is a listening socket, and none   *)
(* is connected or listened for without the WLAN: a second listening socket *)
(* could not be bound to the port.                                          *)
ListeningIsServed ==
  /\ states \in {"IDLE", "BUSY"} <=> listenFd # PCT_INVAILD_SOCKET
  /\ ~wifi => states = "INIT"
  /\ states \in {"INIT", "WAKEUP"} => occupied = {}
=============================================================================
