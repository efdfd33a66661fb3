--------------------------- MODULE Network_proofs ---------------------------
(***************************************************************************)
(* What is proved of the two networks of the module.                       *)
(*                                                                         *)
(* The LAN: the invariants of the client manager for any number of slots   *)
(* and any set of descriptors that fit a u8.  Together they are inductive: *)
(* to know that the busy client is connected one must know that its socket *)
(* is in one slot only, and that nobody else's bytes are in the buffer     *)
(* while it is idle.  Every step of Lan is a step of the client manager or *)
(* leaves its variables alone, so that the invariants hold there too, and  *)
(* carry those about the answers of the MCU and the broadcast socket.      *)
(*                                                                         *)
(* The WLAN: what the commands of the shell do, for any set of lines and   *)
(* anything left over in argv and in unset variables.  What a line means   *)
(* does not depend on the state, so it is proved handler by handler; that  *)
(* what a command has asked the chip still holds when it acts is an        *)
(* invariant (WlanInv) that every step of the cloud thread keeps.          *)
(***************************************************************************)
EXTENDS Lan, Wlan, SequenceTheorems, WellFoundedInduction, TLAPS

-----------------------------------------------------------------------------
(* The clients of the LAN. *)

IndInv ==
  /\ TypeOK
  /\ ClientSocketsAreOwned
  /\ BusyClientIsConnected
  /\ OneConnectedSender
  /\ ListeningIsServed

LEMMA Descriptors ==
  /\ PCT_INVAILD_SOCKET \notin Fds
  /\ \A f \in Fds : f \in 0 .. 255 /\ u8(f) = f
BY ClientsAssumption DEF u8

LEMMA InitIndInv == Init => IndInv
<1> SUFFICES ASSUME Init PROVE IndInv
  OBVIOUS
<1>1. TypeOK
  <2>1. wifi \in BOOLEAN
    BY DEF Init
  <2>2. /\ states = "INIT" /\ busyId = 0 /\ occupied = {}
        /\ clientFd = [s \in Slots |-> 0]
        /\ listenFd = PCT_INVAILD_SOCKET
        /\ openFds = {} /\ status = "IDLE" /\ senders = {}
    BY DEF Init
  <2> QED
    BY <2>1, <2>2 DEF TypeOK
<1>2. {clientFd[s] : s \in occupied} = {}
  BY DEF Init
<1>3. ClientSocketsAreOwned
  BY <1>2 DEF Init, ClientSocketsAreOwned
<1> QED
  BY <1>1, <1>3
  DEF Init, IndInv, BusyClientIsConnected, OneConnectedSender, ListeningIsServed

(* Everybody who can be read is connected.                                  *)
LEMMA ReadableIsOpen ==
  ASSUME IndInv, NEW f \in Readable
  PROVE  /\ f \in Fds /\ f \in openFds /\ f # listenFd
         /\ \E s \in occupied : clientFd[s] = f
         /\ states \in {"IDLE", "BUSY"} /\ wifi
BY Descriptors
DEF IndInv, TypeOK, ClientSocketsAreOwned, ListeningIsServed, Readable

LEMMA WakeUpStep == IndInv /\ WakeUp => IndInv'
BY DEF IndInv, WakeUp, TypeOK, ClientSocketsAreOwned, BusyClientIsConnected,
       OneConnectedSender, ListeningIsServed, slotVars, bufferVars, Gone

LEMMA ListenStep == IndInv /\ StartClientListen => IndInv'
<1> SUFFICES ASSUME IndInv, StartClientListen PROVE IndInv'
  OBVIOUS
<1>1. PICK f \in Fds \ openFds : listenFd' = f /\ openFds' = openFds \cup {f}
  BY DEF StartClientListen
<1>2. /\ occupied = {} /\ openFds = {} /\ wifi
      /\ senders \ {Gone} = {}
      /\ states' = "IDLE"
      /\ UNCHANGED <<busyId, occupied, clientFd, status, senders, wifi>>
  BY DEF StartClientListen, IndInv, ListeningIsServed, ClientSocketsAreOwned,
         OneConnectedSender, slotVars, bufferVars
<1> QED
  BY <1>1, <1>2, Descriptors
  DEF IndInv, TypeOK, ClientSocketsAreOwned, BusyClientIsConnected,
      OneConnectedSender, ListeningIsServed, Gone

LEMMA AcceptStep == IndInv /\ Accept => IndInv'
<1> SUFFICES ASSUME IndInv, Accept PROVE IndInv'
  OBVIOUS
<1>1. PICK f \in (Fds \ openFds) \cup {PCT_INVAILD_SOCKET} :
        IF occupied # Slots
        THEN /\ ClientConnect(f)
             /\ openFds' = openFds \cup ({f} \ {PCT_INVAILD_SOCKET})
        ELSE UNCHANGED <<slotVars, openFds>>
  BY DEF Accept
<1>2. UNCHANGED <<states, busyId, listenFd, status, senders, wifi>>
  BY DEF Accept, bufferVars
<1>3. states \in {"IDLE", "BUSY"}
  BY DEF Accept, IndInv, ListeningIsServed
<1>4. CASE occupied = Slots
  BY <1>1, <1>2, <1>4
  DEF IndInv, TypeOK, ClientSocketsAreOwned, BusyClientIsConnected,
      OneConnectedSender, ListeningIsServed, slotVars, Gone
<1>5. CASE occupied # Slots
  <2>1. PICK s \in Slots \ occupied : /\ occupied' = occupied \cup {s}
                                      /\ clientFd' = [clientFd EXCEPT ![s] = f]
    BY <1>1, <1>5 DEF ClientConnect
  <2>2. openFds' = openFds \cup ({f} \ {PCT_INVAILD_SOCKET})
    BY <1>1, <1>5
  <2>3. /\ \A t \in occupied : clientFd'[t] = clientFd[t]
        /\ clientFd'[s] = f
        /\ clientFd' \in [Slots -> Fds \cup {0, PCT_INVAILD_SOCKET}]
    BY <2>1 DEF IndInv, TypeOK
  <2>4. TypeOK'
    BY <1>2, <2>1, <2>2, <2>3 DEF IndInv, TypeOK
  <2>5. \A t \in occupied : clientFd[t] \in openFds \cup {PCT_INVAILD_SOCKET}
    BY DEF IndInv, ClientSocketsAreOwned
  <2>6. ClientSocketsAreOwned'
    BY <1>2, <2>1, <2>2, <2>3, <2>5, Descriptors DEF IndInv, TypeOK, ClientSocketsAreOwned
  <2>7. BusyClientIsConnected'
    BY <1>2, <2>1, <2>2, <2>3 DEF IndInv, BusyClientIsConnected
  <2>8. OneConnectedSender' /\ ListeningIsServed'
    BY <1>2, <1>3 DEF IndInv, OneConnectedSender, ListeningIsServed, Gone
  <2> QED
    BY <2>4, <2>6, <2>7, <2>8 DEF IndInv
<1> QED
  BY <1>4, <1>5

LEMMA RecvStep == IndInv /\ RecvDataFromClient => IndInv'
<1> SUFFICES ASSUME IndInv, RecvDataFromClient PROVE IndInv'
  OBVIOUS
<1>1. PICK f \in Readable :
        RecvSegment(f) \/ RecvTooLong(f) \/ RecvMessage(f) \/ Refuse(f)
  BY DEF RecvDataFromClient
<1>2. UNCHANGED <<occupied, clientFd, listenFd, openFds, wifi>>
  BY DEF RecvDataFromClient, slotVars
<1>3. /\ f \in Fds /\ f \in openFds /\ u8(f) = f /\ f \in 0 .. 255 /\ f # Gone
      /\ f \in {clientFd[s] : s \in occupied}
      /\ states \in {"IDLE", "BUSY"} /\ wifi
  BY ReadableIsOpen, Descriptors DEF Gone
<1>4. ClientSocketsAreOwned'
  BY <1>2 DEF IndInv, ClientSocketsAreOwned
<1>5. CASE RecvSegment(f)
  <2>1. senders \ {Gone} \subseteq {f}
    BY <1>3, <1>5 DEF RecvSegment, MayReceive, IndInv, OneConnectedSender
  <2> QED
    BY <1>2, <1>3, <1>4, <1>5, <2>1
    DEF RecvSegment, IndInv, TypeOK, BusyClientIsConnected, OneConnectedSender,
        ListeningIsServed, Gone
<1>6. CASE RecvTooLong(f) \/ RecvMessage(f)
  BY <1>2, <1>3, <1>4, <1>6
  DEF RecvTooLong, RecvMessage, EmptyBuffer, IndInv, TypeOK, BusyClientIsConnected,
      OneConnectedSender, ListeningIsServed, Gone
<1>7. CASE Refuse(f)
  BY <1>2, <1>4, <1>7
  DEF Refuse, bufferVars, IndInv, TypeOK, BusyClientIsConnected,
      OneConnectedSender, ListeningIsServed, Gone
<1> QED
  BY <1>1, <1>5, <1>6, <1>7

LEMMA DisconnectStep == IndInv /\ ClientDisconnect => IndInv'
<1> SUFFICES ASSUME IndInv, ClientDisconnect PROVE IndInv'
  OBVIOUS
<1>1. PICK f \in Readable :
        /\ occupied' = {s \in occupied : clientFd[s] # f}
        /\ openFds' = openFds \ {f}
        /\ states' = IF states = "BUSY" /\ f = busyId THEN "IDLE" ELSE states
        /\ senders' = {IF g = f THEN Gone ELSE g : g \in senders}
        /\ UNCHANGED <<busyId, clientFd, listenFd, status, wifi>>
  BY DEF ClientDisconnect
<1>2. /\ f \in Fds /\ f \in openFds /\ f # listenFd /\ f # PCT_INVAILD_SOCKET
      /\ states \in {"IDLE", "BUSY"} /\ wifi
  BY ReadableIsOpen, Descriptors
<1>3. TypeOK'
  BY <1>1, <1>2 DEF IndInv, TypeOK, Gone
<1>4. ClientSocketsAreOwned'
  BY <1>1, <1>2 DEF IndInv, ClientSocketsAreOwned
<1>5. BusyClientIsConnected'
  BY <1>1 DEF IndInv, BusyClientIsConnected
<1>6. OneConnectedSender'
  <2>1. senders' \ {Gone} \subseteq (senders \ {Gone}) \ {f}
    BY <1>1
  <2> QED
    BY <1>1, <2>1 DEF IndInv, OneConnectedSender, Gone
<1>7. ListeningIsServed'
  BY <1>1, <1>2 DEF IndInv, ListeningIsServed
<1> QED
  BY <1>3, <1>4, <1>5, <1>6, <1>7 DEF IndInv

LEMMA MSG_InitStep == IndInv /\ MSG_Init => IndInv'
BY DEF IndInv, MSG_Init, EmptyBuffer, TypeOK, ClientSocketsAreOwned, slotVars,
       BusyClientIsConnected, OneConnectedSender, ListeningIsServed, Gone

LEMMA SleepStep == IndInv /\ Sleep => IndInv'
<1> SUFFICES ASSUME IndInv, Sleep PROVE IndInv'
  OBVIOUS
<1>1. openFds' = {}
  BY DEF Sleep, Readable, IndInv, ClientSocketsAreOwned
<1>2. wifi' \in BOOLEAN
  BY DEF Sleep
<1>3. /\ listenFd' = PCT_INVAILD_SOCKET /\ occupied' = {} /\ states' = "INIT"
      /\ status' = "IDLE" /\ senders' = {} /\ busyId' = busyId
      /\ clientFd' \in [Slots -> Fds \cup {0, PCT_INVAILD_SOCKET}]
  BY DEF Sleep, EmptyBuffer, IndInv, TypeOK
<1>4. TypeOK'
  BY <1>1, <1>2, <1>3 DEF IndInv, TypeOK
<1>5. {clientFd'[s] : s \in occupied'} = {}
  BY <1>3
<1> QED
  BY <1>1, <1>3, <1>4, <1>5
  DEF IndInv, ClientSocketsAreOwned, BusyClientIsConnected, OneConnectedSender,
      ListeningIsServed

(* Every step of the client manager preserves the inductive invariant.      *)
THEOREM Inductive == Spec => []IndInv
<1>1. IndInv /\ UNCHANGED vars => IndInv'
  BY DEF vars, slotVars, bufferVars, IndInv, TypeOK, ClientSocketsAreOwned,
         BusyClientIsConnected, OneConnectedSender, ListeningIsServed, Gone
<1>2. IndInv /\ [Next]_vars => IndInv'
  BY <1>1, WakeUpStep, ListenStep, AcceptStep, RecvStep, DisconnectStep,
     MSG_InitStep, SleepStep DEF Next
<1> QED
  BY <1>2, InitIndInv, PTL DEF Spec

(* The variables of the client manager keep their types.                    *)
THEOREM ClientsTyped == Spec => []TypeOK
BY Inductive, PTL DEF IndInv

(* No client or listening socket leaks or is in two places.                 *)
THEOREM SocketsOwned == Spec => []ClientSocketsAreOwned
BY Inductive, PTL DEF IndInv

(* The table is never blocked by a client that is gone.                     *)
THEOREM BusyConnected == Spec => []BusyClientIsConnected
BY Inductive, PTL DEF IndInv

(* The client buffer is used by one connected client at a time.             *)
THEOREM BufferOwned == Spec => []OneConnectedSender
BY Inductive, PTL DEF IndInv

(* Clients are served exactly while they are listened for.                  *)
THEOREM ListeningServed == Spec => []ListeningIsServed
BY Inductive, PTL DEF IndInv

-----------------------------------------------------------------------------
LEMMA LanStepIsStep == LanNext => [Next]_vars
<1> SUFFICES ASSUME LanNext PROVE [Next]_vars
  OBVIOUS
<1>1. CASE Forward
  BY <1>1 DEF Forward, Next, RecvDataFromClient
<1>2. CASE Wake \/ Serve \/ GoToSleep
  BY <1>2 DEF Wake, Serve, GoToSleep, Next
<1>3. CASE BcInit \/ Answer \/ SendAnswer \/ CloudChanges \/ SendBc
  BY <1>3 DEF BcInit, Answer, SendAnswer, CloudChanges, SendBc
<1> QED
  BY <1>1, <1>2, <1>3 DEF LanNext

(* The clients of Lan are those of ClientManager.                           *)
THEOREM LanClients == LanSpec => []IndInv
<1>1. LanInit => Init
  BY DEF LanInit
<1>2. [LanNext]_lanVars => [Next]_vars
  BY LanStepIsStep DEF lanVars
<1>3. LanSpec => Spec
  BY <1>1, <1>2, PTL DEF LanSpec, Spec
<1> QED
  BY <1>3, Inductive, PTL

(* No client or listening socket of the composed system leaks.              *)
THEOREM LanSocketsOwned == LanSpec => []ClientSocketsAreOwned
BY LanClients, PTL DEF IndInv

(* The table is not blocked by a client that is gone.                       *)
THEOREM LanBusyConnected == LanSpec => []BusyClientIsConnected
BY LanClients, PTL DEF IndInv

(* The client buffer is used by one connected client at a time.             *)
THEOREM LanBufferOwned == LanSpec => []OneConnectedSender
BY LanClients, PTL DEF IndInv

-----------------------------------------------------------------------------
Sessions == [fd : Fds \cup {PCT_INVAILD_SOCKET}, left : BOOLEAN]

AnswerInv ==
  /\ asked \subseteq Sessions
  /\ answering \in Sessions
  /\ AnswersReachTheirClient

(* The listening socket is new, the same or none.                           *)
LEMMA ListenerIsNew ==
  ASSUME IndInv, [Next]_vars
  PROVE  listenFd' \in {listenFd, PCT_INVAILD_SOCKET} \/ listenFd' \notin openFds
BY DEF Next, vars, WakeUp, StartClientListen, Accept, RecvDataFromClient, ClientDisconnect,
       MSG_Init, Sleep

(* A client whose socket stays open stays in the table.                     *)
LEMMA OpenStaysReadable ==
  ASSUME IndInv, IndInv', [Next]_vars, NEW f \in Readable, f # listenFd, f \in openFds'
  PROVE  f \in Readable' /\ f # listenFd'
<1>1. f \in openFds /\ f # PCT_INVAILD_SOCKET
  BY ReadableIsOpen, Descriptors
<1>2. f # listenFd'
  BY <1>1, ListenerIsNew
<1> QED
  BY <1>1, <1>2 DEF IndInv, ClientSocketsAreOwned, Readable

LEMMA AgedKeeps ==
  ASSUME IndInv, IndInv', AnswerInv, [Next]_vars, NEW q \in asked \cup {answering}
  PROVE  /\ Aged(q) \in Sessions
         /\ ~Aged(q).left => Aged(q).fd \in Readable' /\ Aged(q).fd # listenFd'
<1>1. q \in Sessions /\ (~q.left => q.fd \in Readable /\ q.fd # listenFd)
  BY DEF AnswerInv, AnswersReachTheirClient
<1>2. CASE q.fd \in openFds'
  BY <1>1, <1>2, OpenStaysReadable DEF Aged
<1>3. CASE q.fd \notin openFds'
  <2>1. Aged(q) = [q EXCEPT !.left = TRUE]
    BY <1>3 DEF Aged
  <2> QED
    BY <1>1, <2>1 DEF Sessions
<1> QED
  BY <1>2, <1>3

LEMMA AnswerStep == IndInv /\ IndInv' /\ AnswerInv /\ [LanNext]_lanVars => AnswerInv'
<1> SUFFICES ASSUME IndInv, IndInv', AnswerInv, [LanNext]_lanVars PROVE AnswerInv'
  OBVIOUS
<1>1. [Next]_vars
  BY LanStepIsStep DEF lanVars
<1>2. CASE Age
  BY <1>1, <1>2, AgedKeeps DEF Age, AnswerInv, AnswersReachTheirClient
<1>3. CASE UNCHANGED vars /\ asked' \subseteq asked /\ answering' \in asked \cup {answering, NoAnswer}
  <2>1. Readable' = Readable /\ listenFd' = listenFd
    BY <1>3 DEF vars, slotVars, Readable
  <2>2. NoAnswer \in Sessions /\ NoAnswer.left
    BY DEF NoAnswer, Sessions
  <2> QED
    BY <1>3, <2>1, <2>2 DEF AnswerInv, AnswersReachTheirClient
<1>4. CASE Forward
  <2>1. PICK f \in Readable : asked' = asked \cup {Session(f)}
    BY <1>4 DEF Forward
  <2>2. f \in Fds /\ f # listenFd
    BY ReadableIsOpen
  <2>3. Session(f) \in Sessions /\ Session(f).fd = f
    BY <2>2 DEF Session, Sessions
  <2>4. UNCHANGED <<occupied, clientFd, listenFd, answering>>
    BY <1>4 DEF Forward, slotVars
  <2>5. Readable' = Readable
    BY <2>4 DEF Readable
  <2> QED
    BY <2>1, <2>2, <2>3, <2>4, <2>5 DEF AnswerInv, AnswersReachTheirClient
<1>5. CASE Answer
  BY <1>3, <1>5 DEF Answer, FindSession
<1>6. CASE SendAnswer \/ BcInit \/ CloudChanges \/ SendBc \/ UNCHANGED lanVars
  BY <1>3, <1>6 DEF SendAnswer, BcInit, CloudChanges, SendBc, lanVars, answerVars
<1>7. CASE Wake \/ Serve \/ GoToSleep
  BY <1>2, <1>7 DEF Wake, Serve, GoToSleep
<1> QED
  BY <1>4, <1>5, <1>6, <1>7 DEF LanNext

(* The answer to a client that is connected goes to this client.            *)
THEOREM AnswersReach == LanSpec => []AnswersReachTheirClient
<1>1. LanInit => AnswerInv
  BY DEF LanInit, AnswerInv, AnswersReachTheirClient, NoAnswer, Sessions
<1>2. IndInv /\ IndInv' /\ AnswerInv /\ [LanNext]_lanVars => AnswerInv'
  BY AnswerStep
<1>3. AnswerInv => AnswersReachTheirClient
  BY DEF AnswerInv
<1> QED
  BY <1>1, <1>2, <1>3, LanClients, PTL DEF LanSpec

(* The broadcast socket does not leak and is no client's.                   *)
THEOREM BroadcastOwned == LanSpec => []BroadcastSocketIsOwned
<1>1. LanInit => BroadcastSocketIsOwned
  BY DEF LanInit, Init, BroadcastSocketIsOwned
<1>2. IndInv /\ BroadcastSocketIsOwned /\ [LanNext]_lanVars => BroadcastSocketIsOwned'
  <2> SUFFICES ASSUME IndInv, BroadcastSocketIsOwned, [LanNext]_lanVars
               PROVE  BroadcastSocketIsOwned'
    OBVIOUS
  <2>1. CASE Wake
    <3>1. ~bcReady
      BY <2>1 DEF Wake, WakeUp, BroadcastSocketIsOwned
    <3> QED
      BY <2>1, <3>1 DEF Wake, WakeUp, BroadcastSocketIsOwned
  <2>2. CASE BcInit
    BY <2>2 DEF BcInit, BroadcastSocketIsOwned, vars
  <2>3. CASE Serve
    <3>1. wifi' = wifi
      BY <2>3 DEF Serve, StartClientListen, Accept, RecvDataFromClient, ClientDisconnect,
                  MSG_Init
    <3> QED
      BY <2>3, <3>1 DEF Serve, NumbersAreNew, bcVars, BroadcastSocketIsOwned
  <2>4. CASE GoToSleep
    BY <2>4 DEF GoToSleep, Sleep, BroadcastSleeps, BroadcastSocketIsOwned
  <2>5. CASE Forward \/ Answer \/ SendAnswer \/ CloudChanges \/ SendBc \/ UNCHANGED lanVars
    BY <2>5 DEF Forward, Answer, SendAnswer, CloudChanges, SendBc, lanVars, vars, bcVars,
                BroadcastSocketIsOwned
  <2> QED
    BY <2>1, <2>2, <2>3, <2>4, <2>5 DEF LanNext
<1> QED
  BY <1>1, <1>2, LanClients, PTL DEF LanSpec

(* No socket of the LAN leaks, neither a client's nor the broadcasts'.      *)
THEOREM LanSocketsSafe == LanSpec => []SocketsOfTheLanAreOwned
<1>1. ClientSocketsAreOwned /\ BroadcastSocketIsOwned => SocketsOfTheLanAreOwned
  BY DEF SocketsOfTheLanAreOwned
<1> QED
  BY <1>1, LanSocketsOwned, BroadcastOwned, PTL

-----------------------------------------------------------------------------
(* Since the last broadcast the loop has turned at least as often as        *)
(* ZC_SendBc has counted: the count is set back while the module is not     *)
(* online and by every broadcast, the turns only by a broadcast.            *)
CountLagsSilence ==
  /\ sleepcount \in 0 .. BcSleepCount /\ silence \in 0 .. BcSleepCount
  /\ sleepcount <= silence
  /\ sendBcNum \in 0 .. PCT_SEND_BC_MAX_NUM

LEMMA CountLagsInit ==
  LanInit => CountLagsSilence
BY BroadcastAssumption DEF LanInit, CountLagsSilence

(* A turn of the loop.                                                      *)
LEMMA SendBcCounts ==
  ASSUME CountLagsSilence, SendBc
  PROVE  /\ CountLagsSilence'
         /\ sendBcNum' > sendBcNum =>
              silence = BcSleepCount /\ sendBcNum' <= PCT_SEND_BC_MAX_NUM
<1>0. BcSleepCount \in Nat /\ PCT_SEND_BC_MAX_NUM \in Nat
  BY BroadcastAssumption
<1>1. silence' = IF sendBcNum' > sendBcNum THEN 0 ELSE Longer(silence)
  BY DEF SendBc
<1>2. CASE ~online /\ Offline
  BY <1>0, <1>1, <1>2 DEF Offline, Longer, CountLagsSilence
<1>3. CASE online /\ sleepcount + 1 > BcSleepCount /\ Due
  BY <1>0, <1>1, <1>3 DEF Due, Longer, CountLagsSilence
<1>4. CASE online /\ sleepcount + 1 <= BcSleepCount /\ NotDue
  BY <1>0, <1>1, <1>4 DEF NotDue, Longer, CountLagsSilence
<1> QED
  BY <1>2, <1>3, <1>4 DEF SendBc

LEMMA BroadcastStep ==
  ASSUME CountLagsSilence, [LanNext]_lanVars
  PROVE  /\ CountLagsSilence'
         /\ sendBcNum' > sendBcNum =>
              silence = BcSleepCount /\ sendBcNum' <= PCT_SEND_BC_MAX_NUM
<1>0. PCT_SEND_BC_MAX_NUM \in Nat
  BY BroadcastAssumption
<1>1. CASE SendBc
  BY <1>1, SendBcCounts
<1>2. CASE ~SendBc
  <2>1. UNCHANGED <<sleepcount, silence>> /\ sendBcNum' \in {0, sendBcNum}
    BY <1>2 DEF LanNext, lanVars, bcVars, Wake, BcInit, Serve, Forward, GoToSleep,
       BroadcastSleeps, Answer, SendAnswer, CloudChanges
  <2> QED BY <1>0, <2>1 DEF CountLagsSilence
<1> QED BY <1>1, <1>2

(* However the WLAN and the session with the cloud come and go, a broadcast *)
(* is made only when the loop has turned g_u32BcSleepCount times since the  *)
(* last one, and PCT_SEND_BC_MAX_NUM times at most.                         *)
THEOREM BroadcastsSpaced == LanSpec => BroadcastsAreSpaced
<1>1. CountLagsSilence /\ [LanNext]_lanVars => CountLagsSilence'
  BY BroadcastStep
<1>2. CountLagsSilence /\ [LanNext]_lanVars =>
        [sendBcNum' > sendBcNum => /\ silence = BcSleepCount
                                   /\ sendBcNum' <= PCT_SEND_BC_MAX_NUM]_lanVars
  BY BroadcastStep
<1> QED
  BY <1>1, <1>2, CountLagsInit, PTL DEF LanSpec, BroadcastsAreSpaced

-----------------------------------------------------------------------------
(* The commands of the shell: induction and the functions defined by it. *)

(* Induction on the natural numbers, for a set instead of a predicate.      *)
LEMMA SetInduction ==
  ASSUME NEW S, 0 \in S, \A n \in Nat : n \in S => n + 1 \in S
  PROVE  \A n \in Nat : n \in S
<1> DEFINE T == {n \in Nat : n \notin S}
<1>1. SUFFICES ASSUME T # {} PROVE FALSE
  OBVIOUS
<1>2. PICK x \in T : \A y \in T : ~ (<<y, x>> \in OpToRel(<, Nat))
  BY <1>1, NatLessThanWellFounded, WFMin
<1>3. x \in Nat /\ x # 0 /\ x - 1 \in Nat /\ x - 1 \in S
  <2>1. x \in Nat /\ x # 0
    OBVIOUS
  <2>2. x - 1 \in Nat
    BY <2>1
  <2>3. <<x - 1, x>> \in OpToRel(<, Nat)
    BY <2>1, <2>2 DEF OpToRel
  <2> QED BY <1>2, <2>1, <2>2, <2>3
<1>4. (x - 1) + 1 \in S
  BY <1>3
<1> QED BY <1>3, <1>4

-----------------------------------------------------------------------------
(* The chip after the calls of a command. *)

IsChip(ch) == {"mode", "country"} \subseteq DOMAIN ch

(* What the cloud thread does to the chip leaves the country alone and sets *)
(* no mode but the station's.                                               *)
OfCloudThread(call) ==
    /\ call[1] \notin {"qcom_set_country_code", "qcom_sys_reset"}
    /\ call[1] = "qcom_op_set_mode" => call[2] = "station"

KeepsAnswers(old, new) ==
    /\ new.country = old.country
    /\ new.mode \in {old.mode, "station"}

LEMMA OneCall ==
  ASSUME NEW ch, NEW call, IsChip(ch)
  PROVE  /\ IsChip(AfterCall(ch, call))
         /\ OfCloudThread(call) => KeepsAnswers(ch, AfterCall(ch, call))
<1>1. CASE call[1] = "qcom_op_set_mode"
  BY <1>1 DEF AfterCall, SetMode, IsChip, OfCloudThread, KeepsAnswers
<1>2. CASE call[1] = "qcom_sys_reset"
  BY <1>2 DEF AfterCall, ChipAtReset, IsChip, OfCloudThread, KeepsAnswers
<1>3. CASE call[1] \notin {"qcom_op_set_mode", "qcom_sys_reset"}
  BY <1>3 DEF AfterCall, IsChip, OfCloudThread, KeepsAnswers
<1> QED BY <1>1, <1>2, <1>3

(* The chip after none, one, two ... of the calls.                          *)
Chips(ch, calls, n, f) ==
    f = [k \in 0 .. n |-> IF k = 0 THEN ch ELSE AfterCall(f[k - 1], calls[k])]

LEMMA ChipsExist ==
  ASSUME NEW ch, NEW calls
  PROVE  \A n \in Nat : \E f : Chips(ch, calls, n, f)
<1> DEFINE S == {n \in Nat : \E f : Chips(ch, calls, n, f)}
<1>1. 0 \in S
  <2>1. Chips(ch, calls, 0, [k \in 0 .. 0 |-> ch])
    BY DEF Chips
  <2> QED BY <2>1
<1>2. ASSUME NEW n \in Nat, n \in S PROVE n + 1 \in S
  <2>1. PICK f : Chips(ch, calls, n, f)
    BY <1>2
  <2>2. /\ DOMAIN f = 0 .. n
        /\ \A k \in 0 .. n : f[k] = IF k = 0 THEN ch ELSE AfterCall(f[k - 1], calls[k])
    BY <2>1 DEF Chips
  <2> DEFINE g == [k \in 0 .. (n + 1) |-> IF k = n + 1 THEN AfterCall(f[n], calls[n + 1]) ELSE f[k]]
  <2>3. \A k \in 0 .. (n + 1) : g[k] = IF k = 0 THEN ch ELSE AfterCall(g[k - 1], calls[k])
    <3>1. CASE n + 1 = 0
      BY <3>1
    <3>2. \A k \in 1 .. n : k - 1 \in 0 .. n
      OBVIOUS
    <3> QED BY <2>2, <3>2
  <2>4. Chips(ch, calls, n + 1, g)
    BY <2>3 DEF Chips
  <2> QED BY <2>4
<1> HIDE DEF S
<1>3. \A n \in Nat : n \in S
  BY <1>1, <1>2, SetInduction
<1> QED BY <1>3 DEF S

LEMMA AfterCalls ==
  ASSUME NEW ch, NEW calls, Len(calls) \in Nat, IsChip(ch)
  PROVE  /\ IsChip(After(ch, calls))
         /\ (\A k \in 1 .. Len(calls) : OfCloudThread(calls[k])) => KeepsAnswers(ch, After(ch, calls))
<1> DEFINE last == Len(calls)
           after == CHOOSE f : Chips(ch, calls, last, f)
           quiet == \A k \in 1 .. last : OfCloudThread(calls[k])
<1>1. Chips(ch, calls, last, after)
  BY ChipsExist
<1>2. After(ch, calls) = after[last]
  BY DEF After, Chips
<1> HIDE DEF after
<1>3. \A k \in 0 .. last : after[k] = IF k = 0 THEN ch ELSE AfterCall(after[k - 1], calls[k])
  BY <1>1 DEF Chips
<1> DEFINE S == {k \in Nat : k <= last => /\ IsChip(after[k])
                                          /\ quiet => KeepsAnswers(ch, after[k])}
<1>4. 0 \in S
  BY <1>3 DEF KeepsAnswers
<1>5. ASSUME NEW k \in Nat, k \in S PROVE k + 1 \in S
  <2>1. SUFFICES ASSUME k + 1 <= last
                 PROVE  /\ IsChip(after[k + 1])
                        /\ quiet => KeepsAnswers(ch, after[k + 1])
    OBVIOUS
  <2>2. IsChip(after[k]) /\ (quiet => KeepsAnswers(ch, after[k]))
    BY <1>5, <2>1
  <2>3. after[k + 1] = AfterCall(after[k], calls[k + 1]) /\ k + 1 \in 1 .. last
    BY <1>3, <2>1
  <2> QED BY <2>2, <2>3, OneCall DEF KeepsAnswers
<1> HIDE DEF S, quiet
<1>6. \A k \in Nat : k \in S
  BY <1>4, <1>5, SetInduction
<1> QED BY <1>2, <1>6 DEF S, quiet
-----------------------------------------------------------------------------
(* What the handlers of wmiconfig return, whatever they read in the words.  *)

IsCalls(calls) == \E S : calls \in Seq(S)

Answered(v, country) ==
    /\ v.answer \in {SWAT_NOFOUND, SWAT_OK, SWAT_ERROR}
    /\ v.answer # SWAT_OK => v.calls = <<>>
    /\ IsCalls(v.calls)
    /\ ChannelsFit(v.calls, country)

(* A handler, and the commands it knows.                                    *)
Handles(v, country, word, commands) ==
    /\ Answered(v, country)
    /\ v.answer # SWAT_NOFOUND => word \in commands

LEMMA NoCalls == IsCalls(<<>>)
BY DEF IsCalls

LEMMA NoneOrRefused ==
  ASSUME NEW country
  PROVE  /\ Answered(NotFound, country) /\ Answered(Refused, country)
         /\ Answered(Done(<<>>), country)
         /\ NotFound.answer = SWAT_NOFOUND
BY NoCalls DEF Answered, NotFound, Refused, Done, ChannelsFit, SWAT_NOFOUND, SWAT_OK, SWAT_ERROR

LEMMA TwoCalls ==
  ASSUME NEW a, NEW b
  PROVE  <<a>> \o <<b>> = <<a, b>>
<1> DEFINE s == <<a>>
           t == <<b>>
           u == <<a, b>>
<1>1. /\ s \in Seq({a, b}) /\ Len(s) = 1 /\ s[1] = a
      /\ t \in Seq({a, b}) /\ Len(t) = 1 /\ t[1] = b
      /\ u \in Seq({a, b}) /\ Len(u) = 2 /\ u[1] = a /\ u[2] = b
  OBVIOUS
<1> HIDE DEF s, t, u
<1>2. /\ s \o t \in Seq({a, b}) /\ Len(s \o t) = Len(s) + Len(t)
      /\ \A i \in 1..(Len(s) + Len(t)) : (s \o t)[i] = IF i <= Len(s) THEN s[i] ELSE t[i - Len(s)]
  BY <1>1, ConcatProperties
<1>3. Len(s \o t) = 2 /\ (s \o t)[1] = a /\ (s \o t)[2] = b
  BY <1>1, <1>2
<1>4. s \o t = u
  BY <1>1, <1>2, <1>3, SeqEqual
<1> QED BY <1>4 DEF s, t, u

(* One call, or two, none of which sets a channel.                          *)
LEMMA CallsAnswered ==
  ASSUME NEW country, NEW a, NEW b, a[1] # "qcom_set_channel", b[1] # "qcom_set_channel"
  PROVE  /\ Answered(Done(<<a>>), country) /\ Answered(Done(<<a, b>>), country)
<1>1. <<a>> \in Seq({a, b}) /\ <<a, b>> \in Seq({a, b})
  OBVIOUS
<1>2. IsCalls(<<a>>) /\ IsCalls(<<a, b>>)
  BY <1>1 DEF IsCalls
<1>3. ChannelsFit(<<a>>, country) /\ ChannelsFit(<<a, b>>, country)
  BY DEF ChannelsFit
<1> QED BY <1>2, <1>3 DEF Answered, Done, SWAT_NOFOUND, SWAT_OK, SWAT_ERROR

LEMMA OneCallAnswered ==
  ASSUME NEW country, NEW a, a[1] # "qcom_set_channel"
  PROVE  Answered(Done(<<a>>), country)
BY CallsAnswered

ConnectWords == {"--connect", "--disc"}

LEMMA ConnectHandles ==
  ASSUME NEW c, NEW seen
  PROVE  Handles(swat_wmiconfig_connect_handle(c, seen), seen.country, c.argv[1], ConnectWords)
<1>1. Answered(Connect(c, seen), seen.country)
  <2>1. swat_wmiconfig_connect_ssid(Ssid(c), seen)[1] # "qcom_set_channel"
    BY DEF swat_wmiconfig_connect_ssid
  <2> QED BY <2>1, OneCallAnswered, NoneOrRefused DEF Connect, Require
<1>2. Answered(Done(<< <<"qcom_disconnect">> >>), seen.country)
  <2>1. <<"qcom_disconnect">>[1] # "qcom_set_channel"
    OBVIOUS
  <2> QED BY <2>1, OneCallAnswered
<1> QED BY <1>1, <1>2, NoneOrRefused DEF swat_wmiconfig_connect_handle, Handles, ConnectWords

SoftApWords == {"--mode", "--channel", "--wmode", "--listen", "--scanctrl", "--setscanpara", "--ap"}

LEMMA SoftApHandles ==
  ASSUME NEW c, NEW seen
  PROVE  Handles(swat_wmiconfig_softAp_handle(c, seen), seen.country, c.argv[1], SoftApWords)
<1> DEFINE co == seen.country
<1>0. /\ Answered(NotFound, co) /\ Answered(Refused, co) /\ Answered(Done(<<>>), co)
      /\ NotFound.answer = SWAT_NOFOUND
  BY NoneOrRefused
<1>1. Answered(Mode(c), co)
  <2>1. Answered(Done(<< <<"qcom_op_set_mode", c.argv[2]>> >>), co)
    BY OneCallAnswered
  <2>2. Answered(Done(<< <<"qcom_ap_hidden_mode_enable", 1>> >>), co)
    BY OneCallAnswered
  <2>3. Answered(Done(<< <<"qcom_wps_enable", 1>> >>), co)
    BY OneCallAnswered
  <2> QED BY <1>0, <2>1, <2>2, <2>3 DEF Mode, swat_wmiconfig_dev_mode_set
<1>2. Answered(Channel(c, seen), co)
  <2> DEFINE data == Number(c.argv[2], 0)
             call == <<"qcom_set_channel", data>>
  <2>1. ASSUME ChannelFits(data, co) PROVE Answered(Done(<<call>>), co)
    <3>1. data <= 14 => data \in 1 .. LastChannel(co)
      BY <2>1 DEF ChannelFits
    <3>2. \A k \in DOMAIN <<call>> : <<call>>[k][2] = data
      OBVIOUS
    <3> HIDE DEF data
    <3>3. ChannelsFit(<<call>>, co)
      BY <3>1, <3>2 DEF ChannelsFit
    <3>4. <<call>> \in Seq({call})
      OBVIOUS
    <3> HIDE DEF call
    <3> QED BY <3>3, <3>4 DEF Answered, Done, IsCalls, SWAT_NOFOUND, SWAT_OK, SWAT_ERROR
  <2> QED BY <1>0, <2>1 DEF Channel, Require
<1>3. Answered(WMode(c), co)
  <2>1. Answered(Done(<< <<"qcom_set_phy_mode", PhyMode[c.argv[2]]>> >>), co)
    BY OneCallAnswered
  <2> QED BY <1>0, <2>1 DEF WMode, Require
<1>4. Answered(Listen(c), co)
  <2>1. Answered(Done(<< <<"qcom_sta_set_listen_time", Number(c.argv[2], 0)>> >>), co)
    BY OneCallAnswered
  <2> QED BY <1>0, <2>1 DEF Listen, Require
<1>5. Answered(ScanCtrl(c), co)
  <2>1. Answered(Done(<< <<"qcom_scan_set_mode", Number(c.argv[2], 0)>> >>), co)
    BY OneCallAnswered
  <2> QED BY <1>0, <2>1 DEF ScanCtrl, Require, swat_wmiconfig_scan_ctl_set
<1>6. Answered(SetScanPara(c), co)
  <2> DEFINE max == Number(c.argv[2], 0)
             call == <<"qcom_scan_set_para", U16(max), U16(Number(c.argv[3], max))>>
  <2>1. Answered(Done(<<call>>), co)
    BY OneCallAnswered
  <2> QED BY <1>0, <2>1 DEF SetScanPara, Require
<1>7. Answered(AccessPoint(c), co)
  <2> DEFINE data == U16(Number(c.argv[3], 0))
             name == Char(c.argv[3], 1) \o Char(c.argv[3], 2)
  <2>1. Answered(Done(<< <<"qcom_ap_set_beacon_interval", data>> >>), co)
    BY OneCallAnswered
  <2>2. Answered(Done(<< <<"qcom_set_country_code", name>> >>), co)
    BY OneCallAnswered
  <2>3. Answered(Done(<< <<"qcom_ap_set_inact_time", data>> >>), co)
    BY OneCallAnswered
  <2> QED BY <1>0, <2>1, <2>2, <2>3 DEF AccessPoint, Require
<1> HIDE DEF co
<1>8. Answered(swat_wmiconfig_softAp_handle(c, seen), co)
  BY <1>0, <1>1, <1>2, <1>3, <1>4, <1>5, <1>6, <1>7 DEF swat_wmiconfig_softAp_handle
<1>9. c.argv[1] \notin SoftApWords => swat_wmiconfig_softAp_handle(c, seen) = NotFound
  BY DEF swat_wmiconfig_softAp_handle, SoftApWords
<1> QED BY <1>0, <1>8, <1>9 DEF Handles, co

WepWords == {"--wepkey", "--wep"}
WpaWords == {"--p", "--wpa"}
WpsWords == {"--wps"}

LEMMA KeysHandle ==
  ASSUME NEW c, NEW co
  PROVE  /\ Handles(swat_wmiconfig_wep_handle(c), co, c.argv[1], WepWords)
         /\ Handles(swat_wmiconfig_wpa_handle(c), co, c.argv[1], WpaWords)
         /\ Handles(swat_wmiconfig_wps_handle(c), co, c.argv[1], WpsWords)
<1>0. /\ Answered(NotFound, co) /\ Answered(Refused, co) /\ Answered(Done(<<>>), co)
      /\ NotFound.answer = SWAT_NOFOUND
  BY NoneOrRefused
<1>1. Answered(Indexed(c, <<"qcom_sec_set_wepkey", KeyIndex(c), c.argv[3]>>), co)
  <2>1. Answered(Done(<< <<"qcom_sec_set_wepkey", KeyIndex(c), c.argv[3]>> >>), co)
    BY OneCallAnswered
  <2> QED BY <1>0, <2>1 DEF Indexed, Require
<1>2. Answered(Indexed(c, <<"qcom_sec_set_wepkey_index", KeyIndex(c)>>), co)
  <2>1. Answered(Done(<< <<"qcom_sec_set_wepkey_index", KeyIndex(c)>> >>), co)
    BY OneCallAnswered
  <2> QED BY <1>0, <2>1 DEF Indexed, Require
<1>3. Handles(swat_wmiconfig_wep_handle(c), co, c.argv[1], WepWords)
  BY <1>0, <1>1, <1>2 DEF swat_wmiconfig_wep_handle, Handles, WepWords
<1>4. Answered(Done(<< <<"qcom_sec_set_passphrase", c.argv[2]>> >>), co)
  BY OneCallAnswered
<1>5. Handles(swat_wmiconfig_wpa_handle(c), co, c.argv[1], WpaWords)
  BY <1>0, <1>4 DEF swat_wmiconfig_wpa_handle, Handles, WpaWords, Require
<1>6. \A mode, pin : Answered(WpsStart(c, mode, pin), co)
  <2> TAKE mode, pin
  <2> DEFINE a == <<"qcom_wps_enable", 1>>
             b == <<"qcom_wps_start", Number(c.argv[2], 0), mode, pin>>
  <2>1. a[1] # "qcom_set_channel" /\ b[1] # "qcom_set_channel"
    OBVIOUS
  <2>2. WpsStart(c, mode, pin) = Done(<<a, b>>)
    BY DEF WpsStart
  <2> HIDE DEF a, b
  <2> QED BY <2>1, <2>2, CallsAnswered
<1>7. Handles(swat_wmiconfig_wps_handle(c), co, c.argv[1], WpsWords)
  <2>1. Answered(WpsStart(c, 0, c.argv[4]), co) /\ Answered(WpsStart(c, 1, ""), co)
    BY <1>6
  <2>2. Answered(swat_wmiconfig_wps_handle(c), co)
    BY <1>0, <2>1 DEF swat_wmiconfig_wps_handle, Require
  <2>3. c.argv[1] # "--wps" => swat_wmiconfig_wps_handle(c) = NotFound
    BY DEF swat_wmiconfig_wps_handle
  <2> QED BY <1>0, <2>2, <2>3 DEF Handles, WpsWords
<1> QED BY <1>3, <1>5, <1>7

IpWords == {"--ipstatic", "--ipdhcp", "--ipconfig", "--ip_gethostbyname", "--ip_dns_client",
            "--ip_dns_server_addr", "--ip_dns_delete_server_addr", "--ipdhcppool"}

LEMMA IpHandles ==
  ASSUME NEW c, NEW co
  PROVE  Handles(swat_wmiconfig_ip_handle(c), co, c.argv[1], IpWords)
<1>0. /\ Answered(NotFound, co) /\ Answered(Refused, co) /\ Answered(Done(<<>>), co)
      /\ NotFound.answer = SWAT_NOFOUND
  BY NoneOrRefused
<1>1. Answered(IpStatic(c), co)
  <2> DEFINE addresses == [k \in 1 .. 3 |-> _inet_addr(<<c.argv[2], c.argv[3], c.argv[4]>>[k], c.junk)]
             call == <<"qcom_ip_address_set">> \o addresses
  <2>1. call[1] = "qcom_ip_address_set"
    <3>1. DOMAIN addresses = 1 .. 3 /\ addresses \in Seq({addresses[k] : k \in 1 .. 3})
      OBVIOUS
    <3> HIDE DEF addresses
    <3> QED BY <3>1
  <2>2. swat_wmiconfig_ipstatic(<<c.argv[2], c.argv[3], c.argv[4]>>, c.junk) = <<call>>
    BY DEF swat_wmiconfig_ipstatic
  <2> HIDE DEF call
  <2>3. Answered(Done(<<call>>), co)
    BY <2>1, OneCallAnswered
  <2> QED BY <1>0, <2>2, <2>3 DEF IpStatic, Require
<1>2. Answered(Done(<< <<"qcom_dhcpc_enable", 1>> >>), co)
  BY OneCallAnswered
<1>3. Answered(Done(swat_wmiconfig_dns(c.argv[2])), co)
  BY OneCallAnswered DEF swat_wmiconfig_dns
<1>4. Answered(Done(swat_wmiconfig_dns_enable(c.argv[2])), co)
  <2>1. Answered(Done(<< <<"qcom_dnsc_enable", 1>> >>), co) /\ Answered(Done(<< <<"qcom_dnsc_enable", 0>> >>), co)
    BY OneCallAnswered
  <2> QED BY <1>0, <2>1 DEF swat_wmiconfig_dns_enable
<1>5. \A ip : Answered(Done(swat_wmiconfig_dns_svr_add(ip)), co)
  <2> TAKE ip
  <2>1. Answered(Done(<< <<"qcom_dnsc_add_server_address", ip>> >>), co)
    BY OneCallAnswered
  <2> QED BY <1>0, <2>1 DEF swat_wmiconfig_dns_svr_add
<1>6. \A ip : Answered(Done(swat_wmiconfig_dns_svr_del(ip)), co)
  <2> TAKE ip
  <2>1. Answered(Done(<< <<"qcom_dnsc_del_server_address", ip>> >>), co)
    BY OneCallAnswered
  <2> QED BY <1>0, <2>1 DEF swat_wmiconfig_dns_svr_del
<1>7. Answered(DhcpPool(c), co)
  <2> DEFINE start == _inet_addr(c.argv[2], c.junk)
             end == _inet_addr(c.argv[3], c.junk)
  <2>1. swat_wmiconfig_dhcp_pool(c.argv[2], c.argv[3], c.junk, c.junk)
           = << <<"qcom_dhcps_set_pool", start, end, c.junk>> >>
    BY DEF swat_wmiconfig_dhcp_pool
  <2> HIDE DEF start, end
  <2>2. Answered(Done(<< <<"qcom_dhcps_set_pool", start, end, c.junk>> >>), co)
    BY OneCallAnswered
  <2> QED BY <1>0, <2>1, <2>2 DEF DhcpPool, Require
<1>8. Answered(swat_wmiconfig_ip_handle(c), co)
  <2> DEFINE add == Done(swat_wmiconfig_dns_svr_add(_inet_addr(c.argv[2], c.junk)))
             del == Done(swat_wmiconfig_dns_svr_del(_inet_addr(c.argv[2], c.junk)))
  <2>1. Answered(add, co) /\ Answered(del, co)
    BY <1>5, <1>6
  <2> HIDE DEF add, del
  <2> QED BY <1>0, <1>1, <1>2, <1>3, <1>4, <1>7, <2>1 DEF swat_wmiconfig_ip_handle, Require, add, del
<1>9. c.argv[1] \notin IpWords => swat_wmiconfig_ip_handle(c) = NotFound
  BY DEF swat_wmiconfig_ip_handle, IpWords
<1> QED BY <1>0, <1>8, <1>9 DEF Handles

MiscWords == {"--help", "--rssi", "--version", "--hostname", "--psram", "--i2c", "--wdt", "--test",
              "--pmparams", "--pwrmode", "--driver", "--reset", "--settxpower", "--suspend",
              "--suspstart", "--allow_aggr", "--promisc"}

LEMMA MemoryAnswered ==
  ASSUME NEW c, NEW co
  PROVE  Answered(Psram(c), co) /\ Answered(I2c(c), co)
<1> DEFINE addr == atoi(c.argv[3])
           value == atoi(c.argv[4])
<1>0. Answered(Refused, co)
  BY NoneOrRefused
<1>1. Answered(Done(<< <<"qcom_psram_read", addr>> >>), co) /\ Answered(Done(<< <<"qcom_psram_write", addr, value>> >>), co)
  BY OneCallAnswered
<1>2. Answered(Done(<< <<"eeprom24l_write", addr, value>> >>), co)
  BY OneCallAnswered
<1>3. Answered(Done(<< <<"qcom_i2c_init", 12, 6, 5>>, <<"eeprom24l_read", addr>> >>), co)
  <2> DEFINE a == <<"qcom_i2c_init", 12, 6, 5>>
             b == <<"eeprom24l_read", addr>>
  <2>1. a[1] # "qcom_set_channel" /\ b[1] # "qcom_set_channel"
    OBVIOUS
  <2> HIDE DEF a, b
  <2>2. Answered(Done(<<a, b>>), co)
    BY <2>1, CallsAnswered
  <2> QED BY <2>2 DEF a, b
<1>4. \A x : <<>> \o <<x>> = <<x>>
  OBVIOUS
<1>5. \A x, y : <<x>> \o <<y>> = <<x, y>>
  <2> TAKE x, y
  <2>1. <<x>> \in Seq({x, y}) /\ <<y>> \in Seq({x, y}) /\ <<x, y>> \in Seq({x, y})
    OBVIOUS
  <2> DEFINE xy == <<x>> \o <<y>>
  <2>2. xy \in Seq({x, y}) /\ Len(xy) = 2 /\ xy[1] = x /\ xy[2] = y
    BY <2>1
  <2> HIDE DEF xy
  <2>3. Len(<<x, y>>) = 2 /\ <<x, y>>[1] = x /\ <<x, y>>[2] = y
    OBVIOUS
  <2>4. xy = <<x, y>>
    BY <2>1, <2>2
  <2> QED BY <2>4 DEF xy
<1>6. Answered(Psram(c), co)
  <2>1. <<>> \o << <<"qcom_psram_read", addr>> >> = << <<"qcom_psram_read", addr>> >>
    BY <1>4
  <2> HIDE DEF addr, value
  <2> QED BY <1>0, <1>1, <2>1 DEF Psram, Memory, Require, addr, value
<1>7. Answered(I2c(c), co)
  <2>1. << <<"qcom_i2c_init", 12, 6, 5>> >> \o << <<"eeprom24l_read", addr>> >>
           = << <<"qcom_i2c_init", 12, 6, 5>>, <<"eeprom24l_read", addr>> >>
    BY <1>5
  <2> HIDE DEF addr, value
  <2> QED BY <1>0, <1>2, <1>3, <2>1 DEF I2c, Memory, Require, addr, value
<1> QED BY <1>6, <1>7

LEMMA MiscHandles ==
  ASSUME NEW c, NEW seen
  PROVE  Handles(swat_wmiconfig_misc_handle(c, seen), seen.country, c.argv[1], MiscWords)
<1> DEFINE co == seen.country
<1>0. /\ Answered(NotFound, co) /\ Answered(Refused, co) /\ Answered(Done(<<>>), co)
      /\ NotFound.answer = SWAT_NOFOUND
  BY NoneOrRefused
<1>1. Answered(HostName(c), co)
  <2>1. Answered(Done(<< <<"qcom_set_dhcpc_hostname", c.argv[3]>> >>), co)
    BY OneCallAnswered
  <2> QED BY <1>0, <2>1 DEF HostName, Require
<1>2. Answered(Wdt(c), co)
  <2> DEFINE one == atoi(c.argv[2])
             two == atoi(c.argv[3])
  <2>1. Answered(Done(<< <<"qcom_watchdog", one, two>> >>), co)
    BY OneCallAnswered
  <2> QED BY <1>0, <2>1 DEF Wdt, Require
<1>3. Answered(TestFlash(c), co)
  <2> DEFINE one == atoi(c.argv[4])
             two == atoi(c.argv[5])
  <2>1. Answered(Done(<< <<"test_spi_flash_read", one, two>> >>), co)
    BY OneCallAnswered
  <2> QED BY <1>0, <2>1 DEF TestFlash, Require
<1>4. Answered(PmParams(c), co)
  <2>1. \A params : Answered(Done(swat_wmiconfig_pmparams(params)), co)
    <3> TAKE params
    <3> DEFINE values == [k \in 1 .. 6 |-> U16(params[k])]
               call == <<"qcom_power_set_parameters">> \o values
    <3>1. call[1] = "qcom_power_set_parameters"
      <4>1. DOMAIN values = 1 .. 6 /\ values \in Seq({values[k] : k \in 1 .. 6})
        OBVIOUS
      <4> HIDE DEF values
      <4> QED BY <4>1
    <3>2. swat_wmiconfig_pmparams(params) = <<call>>
      BY DEF swat_wmiconfig_pmparams
    <3> HIDE DEF call
    <3> QED BY <3>1, <3>2, OneCallAnswered
  <2>2. \E params : PmParams(c) \in {Refused, Done(swat_wmiconfig_pmparams(params))}
    BY DEF PmParams, Require
  <2> QED BY <1>0, <2>1, <2>2
<1>5. Answered(PwrMode(c, seen), co)
  <2>1. Answered(Done(<< <<"qcom_power_set_mode", 1>> >>), co) /\ Answered(Done(<< <<"qcom_power_set_mode", 2>> >>), co)
    BY OneCallAnswered
  <2> QED BY <1>0, <2>1 DEF PwrMode, Require
<1>6. Answered(Done(<< <<"qcom_sys_reset">> >>), co)
  BY OneCallAnswered
<1>7. Answered(Driver(c), co)
  BY <1>0, <1>6 DEF Driver, Require
<1>8. Answered(SetTxPower(c), co)
  <2>1. Answered(Done(<< <<"qcom_set_tx_power", Number(c.argv[2], 0)>> >>), co)
    BY OneCallAnswered
  <2> QED BY <1>0, <2>1 DEF SetTxPower, Require
<1>9. Answered(SuspStart(c, seen), co)
  <2>1. Answered(Done(<< <<"qcom_suspend_start", atoi(c.argv[2])>> >>), co)
    BY OneCallAnswered
  <2> QED BY <1>0, <2>1 DEF SuspStart, Require
<1>10. Answered(AllowAggr(c), co)
  <2> DEFINE data == <<atoi(c.argv[2]), atoi(c.argv[3])>>
             one == U16(data[1])
             two == U16(data[2])
  <2>1. Answered(Done(<< <<"qcom_allow_aggr_set_tid", one, two>> >>), co)
    BY OneCallAnswered
  <2> QED BY <1>0, <2>1 DEF AllowAggr, Require
<1>11. Answered(Promisc(c), co)
  <2>1. Answered(Done(<< <<"qcom_promiscuous_enable", U8(atoi(c.argv[2]))>> >>), co)
    BY OneCallAnswered
  <2> QED BY <1>0, <2>1 DEF Promisc, Require
<1>12. Answered(Done(<< <<"qcom_suspend_enable", 1>> >>), co)
  BY OneCallAnswered
<1> HIDE DEF co
<1>13. Answered(Psram(c), co) /\ Answered(I2c(c), co)
  BY MemoryAnswered
<1>14. Answered(swat_wmiconfig_misc_handle(c, seen), co)
  BY <1>0, <1>1, <1>2, <1>3, <1>4, <1>5, <1>6, <1>7, <1>8, <1>9, <1>10, <1>11, <1>12, <1>13
     DEF swat_wmiconfig_misc_handle
<1>15. c.argv[1] \notin MiscWords => swat_wmiconfig_misc_handle(c, seen) = NotFound
  BY DEF swat_wmiconfig_misc_handle, MiscWords
<1> QED BY <1>0, <1>14, <1>15 DEF Handles, co

-----------------------------------------------------------------------------
(* A line with no command of wmiconfig's is answered by none of the         *)
(* handlers, and one with a command by the one that knows it.               *)

LEMMA BothHandle ==
  ASSUME NEW v, NEW w, NEW co, NEW word, NEW V, NEW W, V \cap W = {},
         Handles(v, co, word, V), Handles(w, co, word, W)
  PROVE  Handles(Both(v, w), co, word, V \cup W)
<1>1. \A calls : IsCalls(calls) => calls \o <<>> = calls /\ <<>> \o calls = calls
  BY DEF IsCalls
<1>2. v.answer = SWAT_NOFOUND \/ w.answer = SWAT_NOFOUND
  BY DEF Handles
<1>3. CASE v.answer = SWAT_NOFOUND
  <2>1. v.calls = <<>>
    BY <1>3 DEF Handles, Answered, SWAT_NOFOUND, SWAT_OK
  <2>2. <<>> \o w.calls = w.calls
    BY <1>1 DEF Handles, Answered
  <2>3. 0 + w.answer = w.answer
    BY DEF Handles, Answered, SWAT_NOFOUND, SWAT_OK, SWAT_ERROR
  <2>4. Both(v, w).answer = w.answer /\ Both(v, w).calls = w.calls
    BY <1>3, <2>1, <2>2, <2>3 DEF Both, SWAT_NOFOUND
  <2> QED BY <2>4 DEF Handles, Answered
<1>4. CASE w.answer = SWAT_NOFOUND
  <2>1. w.calls = <<>>
    BY <1>4 DEF Handles, Answered, SWAT_NOFOUND, SWAT_OK
  <2>2. v.calls \o <<>> = v.calls
    BY <1>1 DEF Handles, Answered
  <2>3. v.answer + 0 = v.answer
    BY DEF Handles, Answered, SWAT_NOFOUND, SWAT_OK, SWAT_ERROR
  <2>4. Both(v, w).answer = v.answer /\ Both(v, w).calls = v.calls
    BY <1>4, <2>1, <2>2, <2>3 DEF Both, SWAT_NOFOUND
  <2> QED BY <2>4 DEF Handles, Answered
<1> QED BY <1>2, <1>3, <1>4

LEMMA SettingsHandle ==
  ASSUME NEW c, NEW seen, c.argc # 1
  PROVE  Answered(swat_wmiconfig_handle(c, seen), seen.country)
<1> DEFINE co == seen.country
           word == c.argv[1]
           v1 == swat_wmiconfig_connect_handle(c, seen)
           v2 == swat_wmiconfig_softAp_handle(c, seen)
           v3 == swat_wmiconfig_wep_handle(c)
           v4 == swat_wmiconfig_wpa_handle(c)
           v5 == swat_wmiconfig_wps_handle(c)
           v6 == swat_wmiconfig_ip_handle(c)
           v7 == swat_wmiconfig_misc_handle(c, seen)
           w6 == Both(v6, v7)
           w5 == Both(v5, w6)
           w4 == Both(v4, w5)
           w3 == Both(v3, w4)
           w2 == Both(v2, w3)
           w1 == Both(v1, w2)
           W6 == IpWords \cup MiscWords
           W5 == WpsWords \cup W6
           W4 == WpaWords \cup W5
           W3 == WepWords \cup W4
           W2 == SoftApWords \cup W3
<1>1. swat_wmiconfig_handle(c, seen) = w1
  BY DEF swat_wmiconfig_handle
<1>2. /\ Handles(v1, co, word, ConnectWords) /\ Handles(v2, co, word, SoftApWords)
      /\ Handles(v3, co, word, WepWords) /\ Handles(v4, co, word, WpaWords)
      /\ Handles(v5, co, word, WpsWords) /\ Handles(v6, co, word, IpWords)
      /\ Handles(v7, co, word, MiscWords)
  BY ConnectHandles, SoftApHandles, KeysHandle, IpHandles, MiscHandles
<1>3. /\ IpWords \cap MiscWords = {} /\ WpsWords \cap W6 = {} /\ WpaWords \cap W5 = {}
      /\ WepWords \cap W4 = {} /\ SoftApWords \cap W3 = {} /\ ConnectWords \cap W2 = {}
  BY DEF ConnectWords, SoftApWords, WepWords, WpaWords, WpsWords, IpWords, MiscWords
<1> HIDE DEF co, word, v1, v2, v3, v4, v5, v6, v7
<1>4. Handles(w6, co, word, W6)
  BY <1>2, <1>3, BothHandle
<1> HIDE DEF w6, W6
<1>5. Handles(w5, co, word, W5)
  BY <1>2, <1>3, <1>4, BothHandle
<1> HIDE DEF w5, W5
<1>6. Handles(w4, co, word, W4)
  BY <1>2, <1>3, <1>5, BothHandle
<1> HIDE DEF w4, W4
<1>7. Handles(w3, co, word, W3)
  BY <1>2, <1>3, <1>6, BothHandle
<1> HIDE DEF w3, W3
<1>8. Handles(w2, co, word, W2)
  BY <1>2, <1>3, <1>7, BothHandle
<1> HIDE DEF w2, W2
<1>9. Handles(w1, co, word, ConnectWords \cup W2)
  BY <1>2, <1>3, <1>8, BothHandle
<1> QED BY <1>1, <1>9 DEF Handles, co

(* What a line of the four commands comes to.                               *)
LEMMA VerdictsHold ==
  ASSUME NEW line \in Lines \cup Typed, NEW c \in CommandLines(line), NEW seen
  PROVE  /\ RefusedReachesNothing(line, cust_cmds(c, seen))
         /\ ChannelsFit(cust_cmds(c, seen).calls, seen.country)
         /\ IsCalls(cust_cmds(c, seen).calls)
<1> DEFINE v == cust_cmds(c, seen)
           co == seen.country
<1>0. /\ line \in Seq(STRING) /\ line # <<>>
      /\ line[1] \in {"ping", "wmiconfig", "iwconfig", "ota_fw_upgrade"}
  BY WlanAssumption
<1>1. /\ c.argc = Len(line) /\ Len(line) \in Nat /\ c.argv[0] = line[1]
      /\ Len(line) > 1 => c.argv[1] = line[2]
  <2>1. PICK left \in Leftovers, junk \in Junk, host \in Hosts :
           c = [argc |-> Len(line), junk |-> junk, host |-> host,
                argv |-> [i \in 0 .. Len(line) + 4 |-> IF i < Len(line) THEN line[i + 1] ELSE left]]
    BY DEF CommandLines
  <2>2. Len(line) \in Nat /\ Len(line) > 0
    BY <1>0
  <2>3. 0 \in 0 .. Len(line) + 4
    BY <2>2
  <2>4. Len(line) > 1 => 1 \in 0 .. Len(line) + 4 /\ 1 < Len(line)
    BY <2>2
  <2> QED BY <2>1, <2>2, <2>3, <2>4
<1>2. \A call : call[1] # "qcom_set_channel" => IsCalls(<<call>>) /\ ChannelsFit(<<call>>, co)
  BY OneCallAnswered DEF Answered, Done
<1>3. IsCalls(<<>>) /\ ChannelsFit(<<>>, co)
  BY NoneOrRefused, NoCalls DEF Answered, Done
<1>4. CASE line[1] = "wmiconfig" /\ Len(line) = 1
  <2> DEFINE call == <<"print", Information(c, seen)>>
  <2>1. v = [answer |-> 0, calls |-> <<call>>]
    BY <1>1, <1>4 DEF cust_cmds, swat_wmiconfig_handle
  <2>2. call[1] # "qcom_set_channel"
    OBVIOUS
  <2> HIDE DEF call
  <2> QED BY <1>2, <1>4, <2>1, <2>2 DEF RefusedReachesNothing, Setting
<1>5. CASE line[1] = "wmiconfig" /\ Len(line) # 1
  <2>1. v = swat_wmiconfig_handle(c, seen)
    BY <1>1, <1>5 DEF cust_cmds
  <2>2. Answered(v, co)
    BY <1>1, <1>5, <2>1, SettingsHandle
  <2> QED BY <2>2 DEF RefusedReachesNothing, Answered, SWAT_NOFOUND, SWAT_OK, SWAT_ERROR
<1>6. CASE line[1] = "ping"
  <2>1. v = swat_ping_handle(c)
    BY <1>1, <1>6 DEF cust_cmds
  <2> DEFINE options == Options(c, PingNames, FALSE)
             Value(k) == ValueOf(options, k, <<1, 64, 0>>[k])
             host == HostAddress(c)
             dnsCalls == HostQuery(c)
             bad == host = <<>> \/ ~options.ok \/ Value(2) \notin 0 .. 7000
             query == <<"qcom_dnsc_get_host_by_name", c.argv[1]>>
             call == <<"qcom_ip_ping", host, Value(2), Value(1), Value(3)>>
  <2>2. swat_ping_handle(c) =
           IF c.argc < 2 THEN Returned(-1, <<>>)
           ELSE IF bad THEN Returned(-1, dnsCalls) ELSE Returned(0, dnsCalls \o <<call>>)
    BY DEF swat_ping_handle
  <2>3. dnsCalls \in {<<>>, <<query>>}
    BY DEF HostQuery
  <2>4. ~(c.argc < 2) => query = <<"qcom_dnsc_get_host_by_name", line[2]>> /\ Len(line) > 1
    BY <1>0, <1>1
  <2>5. call[1] # "qcom_set_channel" /\ query[1] # "qcom_set_channel"
    OBVIOUS
  <2> HIDE DEF options, Value, host, dnsCalls, bad, query, call
  <2>6. CASE v = Returned(-1, <<>>)
    BY <1>2, <1>3, <1>6, <2>6 DEF RefusedReachesNothing, Setting, Returned
  <2>7. CASE v = Returned(-1, dnsCalls) /\ ~(c.argc < 2)
    BY <1>2, <1>3, <1>6, <2>3, <2>4, <2>5, <2>7
       DEF RefusedReachesNothing, HostAsked, Setting, Returned
  <2>8. CASE v = Returned(0, dnsCalls \o <<call>>)
    <3>1. dnsCalls \o <<call>> = <<call>> \/ dnsCalls \o <<call>> = <<query, call>>
      <4>1. <<>> \o <<call>> = <<call>>
        OBVIOUS
      <4>2. <<query>> \o <<call>> = <<query, call>>
        BY TwoCalls
      <4> QED BY <2>3, <4>1, <4>2, Zenon
    <3>2. IsCalls(<<query, call>>) /\ ChannelsFit(<<query, call>>, co)
      <4>1. Answered(Done(<<query, call>>), co)
        BY <2>5, CallsAnswered
      <4> QED BY <4>1 DEF Answered, Done
    <3>3. IsCalls(<<call>>) /\ ChannelsFit(<<call>>, co)
      BY <1>2, <2>5
    <3>4. IsCalls(v.calls) /\ ChannelsFit(v.calls, co)
      <4>1. v.calls = dnsCalls \o <<call>>
        BY <2>8 DEF Returned
      <4> QED BY <3>1, <3>2, <3>3, <4>1, Zenon
    <3>5. RefusedReachesNothing(line, v)
      <4>1. v.answer = 0 /\ 0 # -1
        BY <2>8 DEF Returned
      <4>2. ~Setting(line) /\ v.answer # -1
        BY <1>6, <4>1 DEF Setting
      <4> QED BY <4>2 DEF RefusedReachesNothing
    <3> QED BY <3>4, <3>5
  <2>9. \/ v = Returned(-1, <<>>)
        \/ v = Returned(-1, dnsCalls) /\ ~(c.argc < 2)
        \/ v = Returned(0, dnsCalls \o <<call>>)
    <3>1. CASE c.argc < 2
      BY <2>1, <2>2, <3>1
    <3>2. CASE ~(c.argc < 2) /\ bad
      BY <2>1, <2>2, <3>2
    <3>3. CASE ~(c.argc < 2) /\ ~bad
      BY <2>1, <2>2, <3>3
    <3> QED BY <3>1, <3>2, <3>3
  <2> QED BY <2>6, <2>7, <2>8, <2>9, Zenon
<1>7. CASE line[1] = "iwconfig"
  <2>1. v = swat_iwconfig_scan_handle(c)
    BY <1>1, <1>7 DEF cust_cmds
  <2>2. PICK call : call[1] # "qcom_set_channel" /\ v \in {Returned(-1, <<>>), Returned(0, <<call>>)}
    <3>1. /\ <<"qcom_scan_all_bss_start">>[1] # "qcom_set_channel"
          /\ <<"qcom_scan_bss_start", c.argv[2]>>[1] # "qcom_set_channel"
      OBVIOUS
    <3> QED BY <2>1, <3>1 DEF swat_iwconfig_scan_handle
  <2> QED BY <1>2, <1>3, <1>7, <2>2 DEF RefusedReachesNothing, Setting, Returned
<1>8. CASE line[1] = "ota_fw_upgrade"
  <2>1. v = cmd_ota_fw_upgrade(c)
    BY <1>1, <1>8 DEF cust_cmds
  <2> DEFINE addr == _inet_addr(c.argv[1], c.junk)
             size == atoi(c.argv[3])
             call == <<"qca_ota_upgrade", addr, c.argv[2], size, -1>>
  <2>2. call[1] # "qcom_set_channel" /\ v \in {Returned(-1, <<>>), Returned(0, <<call>>)}
    BY <2>1 DEF cmd_ota_fw_upgrade
  <2> HIDE DEF call
  <2> QED BY <1>2, <1>3, <1>8, <2>2 DEF RefusedReachesNothing, Setting, Returned
<1> QED BY <1>0, <1>4, <1>5, <1>6, <1>7, <1>8

-----------------------------------------------------------------------------
(* The options of a line, read from its end. *)

NoOptions(names) == [ok |-> TRUE, given |-> [k \in DOMAIN names |-> FALSE], value |-> [k \in DOMAIN names |-> <<>>]]

IsOption(c, names, i) == \E k \in DOMAIN names : names[k] = c.argv[i]
OptionAt(c, names, i) == CHOOSE k \in DOMAIN names : names[k] = c.argv[i]

WithOption(k, word, rest) ==
    [rest EXCEPT !.given[k] = TRUE, !.value[k] = IF @ = <<>> THEN Scanned(word) ELSE @]

ReadAt(c, names, strict, f, i) ==
    IF i >= c.argc THEN NoOptions(names)
    ELSE IF IsOption(c, names, i)
         THEN IF i + 1 = c.argc THEN [NoOptions(names) EXCEPT !.ok = FALSE]
              ELSE WithOption(OptionAt(c, names, i), c.argv[i + 1], f[i + 2])
         ELSE IF strict THEN [NoOptions(names) EXCEPT !.ok = FALSE] ELSE f[i + 2]

ReadFrom(c, names, strict, first, f) ==
    f = [i \in first .. c.argc + 1 |-> ReadAt(c, names, strict, f, i)]

LEMMA ReadingExists ==
  ASSUME NEW c, NEW names, NEW strict, c.argc \in Nat
  PROVE  \A n \in Nat : \E f : ReadFrom(c, names, strict, (c.argc + 1) - n, f)
<1> DEFINE argc == c.argc
           S == {n \in Nat : \E f : ReadFrom(c, names, strict, (argc + 1) - n, f)}
<1>1. 0 \in S
  <2> DEFINE f == [i \in argc + 1 .. argc + 1 |-> NoOptions(names)]
  <2>1. \A i \in argc + 1 .. argc + 1 : ReadAt(c, names, strict, f, i) = NoOptions(names)
    BY DEF ReadAt
  <2>2. f = [i \in argc + 1 .. argc + 1 |-> ReadAt(c, names, strict, f, i)]
    BY <2>1
  <2> HIDE DEF f
  <2>3. ReadFrom(c, names, strict, argc + 1, f) /\ (argc + 1) - 0 = argc + 1
    BY <2>2 DEF ReadFrom
  <2> QED BY <2>3
<1>2. ASSUME NEW n \in Nat, n \in S PROVE n + 1 \in S
  <2> DEFINE first == (argc + 1) - n
             before == (argc + 1) - (n + 1)
  <2>1. PICK f : f = [i \in first .. argc + 1 |-> ReadAt(c, names, strict, f, i)]
    BY <1>2 DEF ReadFrom
  <2> DEFINE g == [i \in before .. argc + 1 |-> IF i = before THEN ReadAt(c, names, strict, f, before) ELSE f[i]]
  <2>2. \A i \in before .. argc + 1 : i < argc => i + 2 \in before .. argc + 1 /\ i + 2 # before /\ i + 2 \in first .. argc + 1
    OBVIOUS
  <2>3. \A i \in before .. argc + 1 : i < argc => g[i + 2] = f[i + 2]
    BY <2>2
  <2>4. \A i \in before .. argc + 1 : i = before \/ (i # before /\ i \in first .. argc + 1)
    OBVIOUS
  <2>5. \A i \in before .. argc + 1 : ReadAt(c, names, strict, g, i) = ReadAt(c, names, strict, f, i)
    <3> HIDE DEF g
    <3> QED BY <2>3 DEF ReadAt
  <2>6. \A i \in before .. argc + 1 : g[i] = ReadAt(c, names, strict, f, i)
    <3>1. \A i \in first .. argc + 1 : f[i] = ReadAt(c, names, strict, f, i)
      BY <2>1
    <3> QED BY <2>4, <3>1
  <2>7. g = [i \in before .. argc + 1 |-> g[i]]
    OBVIOUS
  <2> HIDE DEF g
  <2>8. g = [i \in before .. argc + 1 |-> ReadAt(c, names, strict, g, i)]
    BY <2>5, <2>6, <2>7
  <2> QED BY <2>8 DEF ReadFrom
<1> HIDE DEF S
<1>3. \A n \in Nat : n \in S
  BY <1>1, <1>2, SetInduction
<1> QED BY <1>3 DEF S

LEMMA OptionsFollow ==
  ASSUME NEW c, NEW names, NEW strict, c.argc \in Nat, c.argc >= 1
  PROVE  \A i \in 2 .. c.argc + 1 :
            OptionsFrom(c, names, strict)[i] = ReadAt(c, names, strict, OptionsFrom(c, names, strict), i)
<1> DEFINE from == CHOOSE f : ReadFrom(c, names, strict, 2, f)
<1>1. \E f : ReadFrom(c, names, strict, 2, f)
  <2>1. c.argc - 1 \in Nat /\ (c.argc + 1) - (c.argc - 1) = 2
    OBVIOUS
  <2> QED BY <2>1, ReadingExists
<1>2. ReadFrom(c, names, strict, 2, from)
  BY <1>1
<1>3. OptionsFrom(c, names, strict) = from
  BY DEF OptionsFrom, ReadFrom, ReadAt, NoOptions, IsOption, OptionAt, WithOption
<1> HIDE DEF from
<1> QED BY <1>2, <1>3 DEF ReadFrom

(* What has been read from place i on: whether the options there are in     *)
(* order, which are there, and the last number given for each.              *)
PlacesFrom(c, i) == {j \in i .. c.argc - 1 : j % 2 = 0}
Given(c, names, i, k) == {j \in PlacesFrom(c, i) : c.argv[j] = names[k]}
NumbersGiven(c, names, i, k) ==
    {j \in Given(c, names, i, k) : j + 1 < c.argc /\ Scanned(c.argv[j + 1]) # <<>>}

InOrder(c, names, strict, i) ==
    \A j \in PlacesFrom(c, i) : /\ IsOption(c, names, j) => j + 1 < c.argc
                                /\ strict => IsOption(c, names, j)

ValueRead(c, names, i, k, value) ==
    IF NumbersGiven(c, names, i, k) = {} THEN value = <<>>
    ELSE \E last \in NumbersGiven(c, names, i, k) :
            /\ \A j \in NumbersGiven(c, names, i, k) : j <= last
            /\ value = Scanned(c.argv[last + 1])

OptionsHold(c, names, strict, i, read) ==
    /\ read.ok <=> InOrder(c, names, strict, i)
    /\ read.given = [k \in DOMAIN names |-> read.given[k]]
    /\ read.value = [k \in DOMAIN names |-> read.value[k]]
    /\ {"ok", "given", "value"} \subseteq DOMAIN read
    /\ read.ok => \A k \in DOMAIN names : /\ read.given[k] <=> Given(c, names, i, k) # {}
                                          /\ ValueRead(c, names, i, k, read.value[k])

LEMMA PlacesBefore ==
  ASSUME NEW c, c.argc \in Nat, NEW i \in Nat, i < c.argc, i % 2 = 0
  PROVE  PlacesFrom(c, i) = {i} \cup PlacesFrom(c, i + 2)
<1> DEFINE argc == c.argc
<1>1. (i + 1) % 2 # 0
  OBVIOUS
<1>2. \A j \in i .. argc - 1 : j % 2 = 0 => j = i \/ j \in i + 2 .. argc - 1
  BY <1>1
<1>3. i \in i .. argc - 1
  OBVIOUS
<1> QED BY <1>2, <1>3 DEF PlacesFrom

LEMMA NothingRead ==
  ASSUME NEW c, NEW names, NEW strict, NEW i
  PROVE  /\ ~ InOrder(c, names, strict, i) => OptionsHold(c, names, strict, i, [NoOptions(names) EXCEPT !.ok = FALSE])
         /\ PlacesFrom(c, i) = {} => OptionsHold(c, names, strict, i, NoOptions(names))
<1> DEFINE Ids == DOMAIN names
           given == [k \in Ids |-> FALSE]
           value == [k \in Ids |-> <<>>]
           none == NoOptions(names)
           wrong == [none EXCEPT !.ok = FALSE]
<1>1. /\ none.ok = TRUE /\ none.given = given /\ none.value = value
      /\ {"ok", "given", "value"} \subseteq DOMAIN none
  BY DEF NoOptions
<1> HIDE DEF none
<1>2. /\ wrong.ok = FALSE /\ wrong.given = given /\ wrong.value = value
      /\ {"ok", "given", "value"} \subseteq DOMAIN wrong
  BY <1>1
<1> HIDE DEF wrong
<1>3. given = [k \in Ids |-> given[k]] /\ value = [k \in Ids |-> value[k]]
  OBVIOUS
<1>4. \A k \in Ids : given[k] = FALSE /\ value[k] = <<>>
  OBVIOUS
<1> HIDE DEF given, value
<1>5. ASSUME ~ InOrder(c, names, strict, i) PROVE OptionsHold(c, names, strict, i, wrong)
  BY <1>2, <1>3, <1>5 DEF OptionsHold
<1>6. ASSUME PlacesFrom(c, i) = {} PROVE OptionsHold(c, names, strict, i, none)
  <2>1. /\ InOrder(c, names, strict, i)
        /\ \A k \in Ids : Given(c, names, i, k) = {} /\ NumbersGiven(c, names, i, k) = {}
    BY <1>6 DEF InOrder, Given, NumbersGiven
  <2>2. \A k \in Ids : (none.given[k] <=> Given(c, names, i, k) # {}) /\ ValueRead(c, names, i, k, none.value[k])
    BY <1>1, <1>4, <2>1 DEF ValueRead
  <2> QED BY <1>1, <1>3, <2>1, <2>2 DEF OptionsHold
<1> QED BY <1>5, <1>6 DEF none, wrong

LEMMA ReadStep ==
  ASSUME NEW c, NEW names, NEW strict, c.argc \in Nat, NEW i \in Nat, i < c.argc, i % 2 = 0,
         NEW f, OptionsHold(c, names, strict, i + 2, f[i + 2]),
         \A j, k \in DOMAIN names : names[j] = names[k] => j = k
  PROVE  OptionsHold(c, names, strict, i, ReadAt(c, names, strict, f, i))
<1> DEFINE rest == f[i + 2]
           Ids == DOMAIN names
<1>1. PlacesFrom(c, i) = {i} \cup PlacesFrom(c, i + 2)
  BY PlacesBefore
<1>2. \A j \in PlacesFrom(c, i + 2) : j \in Nat /\ j > i
  BY DEF PlacesFrom
<1>4. CASE IsOption(c, names, i) /\ i + 1 # c.argc
  <2> DEFINE o == OptionAt(c, names, i)
             word == c.argv[i + 1]
             read == WithOption(o, word, rest)
  <2>1. o \in Ids /\ names[o] = c.argv[i] /\ \A k \in Ids : names[k] = c.argv[i] <=> k = o
    BY <1>4 DEF IsOption, OptionAt
  <2>2. ReadAt(c, names, strict, f, i) = read
    BY <1>4 DEF ReadAt
  <2> HIDE DEF o
  <2>3. rest.given = [k \in Ids |-> rest.given[k]] /\ rest.value = [k \in Ids |-> rest.value[k]]
    BY DEF OptionsHold
  <2>4. /\ read.ok = rest.ok
        /\ read.given = [k \in Ids |-> IF k = o THEN TRUE ELSE rest.given[k]]
        /\ read.value = [k \in Ids |-> IF k = o /\ rest.value[o] = <<>> THEN Scanned(word) ELSE rest.value[k]]
        /\ {"ok", "given", "value"} \subseteq DOMAIN read
    <3>1. {"ok", "given", "value"} \subseteq DOMAIN rest
      BY DEF OptionsHold
    <3>2. /\ read.ok = rest.ok
          /\ read.given = [rest.given EXCEPT ![o] = TRUE]
          /\ read.value = [rest.value EXCEPT ![o] = IF @ = <<>> THEN Scanned(word) ELSE @]
          /\ DOMAIN read = DOMAIN rest
      BY <3>1 DEF WithOption
    <3> HIDE DEF read
    <3> QED BY <2>1, <2>3, <3>1, <3>2
  <2> HIDE DEF read
  <2>5. i + 1 < c.argc
    BY <1>4
  <2>6. InOrder(c, names, strict, i) <=> InOrder(c, names, strict, i + 2)
    BY <1>1, <1>4, <2>5 DEF InOrder
  <2>7. \A k \in Ids : Given(c, names, i, k) = IF k = o THEN {i} \cup Given(c, names, i + 2, k) ELSE Given(c, names, i + 2, k)
    BY <1>1, <2>1 DEF Given
  <2>8. ASSUME rest.ok, NEW k \in Ids PROVE ValueRead(c, names, i, k, read.value[k])
    <3> DEFINE later == NumbersGiven(c, names, i + 2, k)
               all == NumbersGiven(c, names, i, k)
    <3>1. ValueRead(c, names, i + 2, k, rest.value[k])
      BY <2>8 DEF OptionsHold
    <3>2. all = IF k = o /\ Scanned(word) # <<>> THEN {i} \cup later ELSE later
      BY <2>5, <2>7 DEF NumbersGiven
    <3>3. \A j \in later : j \in Nat /\ j > i /\ Scanned(c.argv[j + 1]) # <<>>
      BY <1>2 DEF NumbersGiven, Given
    <3>4. read.value[k] = IF k = o /\ rest.value[k] = <<>> THEN Scanned(word) ELSE rest.value[k]
      BY <2>4
    <3>5. CASE later = {}
      <4>1. rest.value[k] = <<>>
        BY <3>1, <3>5 DEF ValueRead
      <4>2. CASE k = o /\ Scanned(word) # <<>>
        <5>1. all = {i} /\ read.value[k] = Scanned(c.argv[i + 1]) /\ i <= i
          BY <3>2, <3>4, <3>5, <4>1, <4>2
        <5> HIDE DEF word
        <5> QED BY <5>1 DEF ValueRead
      <4>3. CASE ~ (k = o /\ Scanned(word) # <<>>)
        <5>1. all = {} /\ read.value[k] = <<>>
          BY <3>2, <3>4, <3>5, <4>1, <4>3
        <5> QED BY <5>1 DEF ValueRead
      <4> QED BY <4>2, <4>3
    <3>6. CASE later # {}
      <4>1. PICK last \in later : (\A j \in later : j <= last) /\ rest.value[k] = Scanned(c.argv[last + 1])
        BY <3>1, <3>6 DEF ValueRead
      <4>2. read.value[k] = Scanned(c.argv[last + 1])
        BY <3>3, <3>4, <4>1
      <4>3. last \in all /\ \A j \in all : j <= last
        BY <3>2, <3>3, <4>1
      <4> HIDE DEF all, later
      <4>4. all # {} /\ last \in all /\ (\A j \in all : j <= last) /\ read.value[k] = Scanned(c.argv[last + 1])
        BY <4>2, <4>3
      <4> QED BY <4>4 DEF ValueRead, all
    <3> QED BY <3>5, <3>6
  <2>9. ASSUME rest.ok, NEW k \in Ids PROVE read.given[k] <=> Given(c, names, i, k) # {}
    <3>1. rest.given[k] <=> Given(c, names, i + 2, k) # {}
      BY <2>9 DEF OptionsHold
    <3>2. k = o => read.given[k] = TRUE
      BY <2>4
    <3>3. k # o => read.given[k] = rest.given[k]
      BY <2>4
    <3> QED BY <2>7, <3>1, <3>2, <3>3
  <2>10. rest.ok <=> InOrder(c, names, strict, i + 2)
    BY DEF OptionsHold
  <2>11. read.given = [k \in Ids |-> read.given[k]] /\ read.value = [k \in Ids |-> read.value[k]]
    BY <2>4
  <2> HIDE DEF rest
  <2>12. \A k \in Ids : rest.ok => /\ read.given[k] <=> Given(c, names, i, k) # {}
                                   /\ ValueRead(c, names, i, k, read.value[k])
    BY <2>8, <2>9
  <2>13. OptionsHold(c, names, strict, i, read)
    BY <2>4, <2>6, <2>10, <2>11, <2>12 DEF OptionsHold
  <2> QED BY <2>2, <2>13
<1>5. CASE IsOption(c, names, i) /\ i + 1 = c.argc
  <2>1. ReadAt(c, names, strict, f, i) = [NoOptions(names) EXCEPT !.ok = FALSE]
    BY <1>5 DEF ReadAt
  <2>2. ~ InOrder(c, names, strict, i)
    BY <1>1, <1>5 DEF InOrder
  <2> QED BY <2>1, <2>2, NothingRead
<1>6. CASE ~ IsOption(c, names, i) /\ strict
  <2>1. ReadAt(c, names, strict, f, i) = [NoOptions(names) EXCEPT !.ok = FALSE]
    BY <1>6 DEF ReadAt
  <2>2. ~ InOrder(c, names, strict, i)
    BY <1>1, <1>6 DEF InOrder
  <2> QED BY <2>1, <2>2, NothingRead
<1>7. CASE ~ IsOption(c, names, i) /\ ~ strict
  <2>1. ReadAt(c, names, strict, f, i) = rest
    BY <1>7 DEF ReadAt
  <2>2. InOrder(c, names, strict, i) <=> InOrder(c, names, strict, i + 2)
    BY <1>1, <1>7 DEF InOrder
  <2>3. \A k \in Ids : Given(c, names, i, k) = Given(c, names, i + 2, k)
    BY <1>1, <1>7 DEF Given, IsOption
  <2>4. \A k \in Ids : NumbersGiven(c, names, i, k) = NumbersGiven(c, names, i + 2, k)
    BY <2>3 DEF NumbersGiven
  <2> HIDE DEF rest
  <2>5. \A k \in Ids : ValueRead(c, names, i, k, rest.value[k]) <=> ValueRead(c, names, i + 2, k, rest.value[k])
    BY <2>4 DEF ValueRead
  <2>6. OptionsHold(c, names, strict, i, rest)
    <3>1. OptionsHold(c, names, strict, i + 2, rest)
      BY DEF rest
    <3> QED BY <2>2, <2>3, <2>5, <3>1 DEF OptionsHold
  <2> QED BY <2>1, <2>6
<1> QED BY <1>4, <1>5, <1>6, <1>7

LEMMA OptionsRead ==
  ASSUME NEW c, NEW names, NEW strict, c.argc \in Nat, c.argc >= 1,
         \A j, k \in DOMAIN names : names[j] = names[k] => j = k
  PROVE  OptionsAreRead(c, names, strict)
<1> DEFINE argc == c.argc
           from == OptionsFrom(c, names, strict)
           Claim(i) == OptionsHold(c, names, strict, i, from[i])
           S == {n \in Nat : \A i \in 2 .. argc + 1 : i % 2 = 0 /\ i + n >= argc => Claim(i)}
<1>1. \A i \in 2 .. argc + 1 : from[i] = ReadAt(c, names, strict, from, i)
  BY OptionsFollow
<1> HIDE DEF from
<1>2. ASSUME NEW i \in 2 .. argc + 1, i >= argc PROVE Claim(i)
  <2>1. from[i] = NoOptions(names)
    BY <1>1, <1>2 DEF ReadAt
  <2>2. PlacesFrom(c, i) = {}
    BY <1>2 DEF PlacesFrom
  <2> QED BY <2>1, <2>2, NothingRead
<1>3. 0 \in S
  BY <1>2
<1>4. ASSUME NEW n \in Nat, n \in S PROVE n + 1 \in S
  <2>1. SUFFICES ASSUME NEW i \in 2 .. argc + 1, i % 2 = 0, i + (n + 1) >= argc, i < argc
                 PROVE  Claim(i)
    BY <1>2
  <2>2. i + 2 \in 2 .. argc + 1 /\ (i + 2) % 2 = 0 /\ (i + 2) + n >= argc
    BY <2>1
  <2>3. OptionsHold(c, names, strict, i + 2, from[i + 2])
    BY <1>4, <2>2
  <2>4. i \in Nat
    OBVIOUS
  <2> QED BY <1>1, <2>1, <2>3, <2>4, ReadStep
<1> HIDE DEF S
<1>5. \A n \in Nat : n \in S
  BY <1>3, <1>4, SetInduction
<1>6. Claim(2)
  <2>1. argc \in S
    BY <1>5
  <2>2. 2 \in 2 .. argc + 1 /\ 2 % 2 = 0 /\ 2 + argc >= argc
    OBVIOUS
  <2> QED BY <2>1, <2>2 DEF S
<1> DEFINE read == Options(c, names, strict)
           places == {i \in 2 .. c.argc - 1 : i % 2 = 0}
           PlacesOf(k) == {i \in places : c.argv[i] = names[k]}
           Numbers(k) == {i \in PlacesOf(k) : i + 1 < c.argc /\ Scanned(c.argv[i + 1]) # <<>>}
           known == UNION {PlacesOf(k) : k \in DOMAIN names}
<1>7. OptionsHold(c, names, strict, 2, read)
  BY <1>6 DEF Options, from
<1>8. places = PlacesFrom(c, 2)
  BY DEF PlacesFrom
<1> HIDE DEF read, places
<1>9. \A k : PlacesOf(k) = Given(c, names, 2, k)
  BY <1>8 DEF Given
<1>10. \A k : Numbers(k) = NumbersGiven(c, names, 2, k)
  BY <1>9 DEF NumbersGiven
<1>11. \A j : j \in known <=> j \in places /\ IsOption(c, names, j)
  BY DEF IsOption
<1> HIDE DEF known, PlacesOf, Numbers
<1>12. read.ok <=> /\ \A i \in known : i + 1 < c.argc
                   /\ strict => places = known
  BY <1>7, <1>8, <1>11 DEF OptionsHold, InOrder
<1>13. ASSUME read.ok, NEW k \in DOMAIN names
       PROVE  /\ read.given[k] <=> PlacesOf(k) # {}
              /\ IF Numbers(k) = {} THEN read.value[k] = <<>>
                 ELSE \E last \in Numbers(k) :
                          /\ \A i \in Numbers(k) : i <= last
                          /\ read.value[k] = Scanned(c.argv[last + 1])
  BY <1>7, <1>9, <1>10, <1>13 DEF OptionsHold, ValueRead
<1> QED BY <1>12, <1>13 DEF OptionsAreRead, read, places, PlacesOf, Numbers, known

-----------------------------------------------------------------------------
(* The digits of a word. *)

LEMMA LeastElement ==
  ASSUME NEW T, T \subseteq Nat, T # {}
  PROVE  \E x \in T : \A y \in T : x <= y
<1>1. PICK x \in T : \A y \in T : ~ (<<y, x>> \in OpToRel(<, Nat))
  BY NatLessThanWellFounded, WFMin
<1>2. \A y \in T : ~ (y < x)
  BY <1>1 DEF OpToRel
<1>3. \A y \in T : x <= y
  BY <1>2
<1> QED BY <1>3

LEMMA RunEnds ==
  ASSUME NEW w, Len(w) \in Nat, NEW i \in 1 .. Len(w) + 1
  PROVE  /\ RunEnd(w, i) \in i .. Len(w) + 1
         /\ ~ IsDigit(w, RunEnd(w, i))
         /\ \A k \in i .. RunEnd(w, i) - 1 : IsDigit(w, k)
<1> DEFINE T == {e \in i .. Len(w) + 1 : ~ IsDigit(w, e)}
<1>1. Len(w) + 1 \in T /\ T \subseteq Nat
  BY DEF IsDigit
<1> HIDE DEF T
<1>2. PICK e \in T : \A y \in T : e <= y
  BY <1>1, LeastElement
<1> USE DEF T
<1>3. \A k \in i .. e - 1 : k \in i .. Len(w) + 1 /\ k \notin T
  BY <1>2
<1>4. e \in i .. Len(w) + 1 /\ ~ IsDigit(w, e) /\ \A k \in i .. e - 1 : IsDigit(w, k)
  BY <1>2, <1>3
<1> HIDE DEF T
<1> QED BY <1>4 DEF RunEnd

LEMMA RunEndIs ==
  ASSUME NEW w, Len(w) \in Nat, NEW i \in 1 .. Len(w) + 1, NEW e \in i .. Len(w) + 1,
         ~ IsDigit(w, e), \A k \in i .. e - 1 : IsDigit(w, k)
  PROVE  RunEnd(w, i) = e
<1> DEFINE d == RunEnd(w, i)
<1>1. d \in i .. Len(w) + 1 /\ ~ IsDigit(w, d) /\ \A k \in i .. d - 1 : IsDigit(w, k)
  BY RunEnds
<1> HIDE DEF d
<1>2. ~ (d < e) /\ ~ (e < d)
  BY <1>1
<1>3. d = e
  BY <1>1, <1>2
<1> QED BY <1>3 DEF d

LEMMA DigitIsSmall ==
  ASSUME NEW w, NEW k, IsDigit(w, k)
  PROVE  DigitAt(w, k) \in 0 .. 9
<1>1. \E j \in 1 .. 10 : Char(Numerals, j) = Char(w, k)
  BY DEF IsDigit
<1> DEFINE j == CHOOSE j \in 1 .. 10 : Char(Numerals, j) = Char(w, k)
<1>2. j \in 1 .. 10
  BY <1>1
<1>3. DigitAt(w, k) = j - 1
  BY DEF DigitAt
<1> HIDE DEF j
<1> QED BY <1>2, <1>3

(* The value of the digits from place i up to each place.                   *)
Values(w, i, last, f) ==
    f = [e \in i - 1 .. last |-> IF e < i THEN 0 ELSE 10 * f[e - 1] + DigitAt(w, e)]

LEMMA ValuesExist ==
  ASSUME NEW w, NEW i \in Nat
  PROVE  \A n \in Nat : \E f : Values(w, i, (i - 1) + n, f)
<1> DEFINE S == {n \in Nat : \E f : Values(w, i, (i - 1) + n, f)}
<1>1. 0 \in S
  <2> DEFINE f == [e \in i - 1 .. i - 1 |-> 0]
  <2>1. f = [e \in i - 1 .. i - 1 |-> IF e < i THEN 0 ELSE 10 * f[e - 1] + DigitAt(w, e)]
    OBVIOUS
  <2> HIDE DEF f
  <2>2. Values(w, i, i - 1, f) /\ (i - 1) + 0 = i - 1
    BY <2>1 DEF Values
  <2> QED BY <2>2
<1>2. ASSUME NEW n \in Nat, n \in S PROVE n + 1 \in S
  <2> DEFINE last == (i - 1) + n
             next == (i - 1) + (n + 1)
             Entry(f, e) == IF e < i THEN 0 ELSE 10 * f[e - 1] + DigitAt(w, e)
  <2>1. PICK f : f = [e \in i - 1 .. last |-> Entry(f, e)]
    BY <1>2 DEF Values
  <2> DEFINE g == [e \in i - 1 .. next |-> IF e = next THEN Entry(f, next) ELSE f[e]]
  <2>2. \A e \in i - 1 .. next : e >= i => e - 1 \in i - 1 .. next /\ e - 1 # next /\ e - 1 \in i - 1 .. last
    OBVIOUS
  <2>3. \A e \in i - 1 .. next : e >= i => g[e - 1] = f[e - 1]
    BY <2>2
  <2>4. \A e \in i - 1 .. next : Entry(g, e) = Entry(f, e)
    <3> HIDE DEF g
    <3>1. \A e \in i - 1 .. next : e >= i \/ e < i
      OBVIOUS
    <3> QED BY <2>3, <3>1
  <2>5. \A e \in i - 1 .. next : g[e] = Entry(f, e)
    <3>1. \A e \in i - 1 .. last : f[e] = Entry(f, e)
      BY <2>1
    <3>2. \A e \in i - 1 .. next : e = next \/ (e # next /\ e \in i - 1 .. last)
      OBVIOUS
    <3> HIDE DEF Entry
    <3> QED BY <3>1, <3>2
  <2>6. g = [e \in i - 1 .. next |-> g[e]]
    OBVIOUS
  <2> HIDE DEF g
  <2>7. g = [e \in i - 1 .. next |-> Entry(g, e)]
    <3> HIDE DEF Entry
    <3> QED BY <2>4, <2>5, <2>6
  <2> QED BY <2>7 DEF Values
<1> HIDE DEF S
<1>3. \A n \in Nat : n \in S
  BY <1>1, <1>2, SetInduction
<1> QED BY <1>3 DEF S

LEMMA RunValueIs ==
  ASSUME NEW w, Len(w) \in Nat, NEW i \in 1 .. Len(w) + 1
  PROVE  \E f : /\ RunValue(w, i) = f[RunEnd(w, i) - 1]
                /\ f[i - 1] = 0
                /\ \A e \in i .. Len(w) : f[e] = 10 * f[e - 1] + DigitAt(w, e)
<1> DEFINE f == CHOOSE f : Values(w, i, Len(w), f)
<1>1. \E g : Values(w, i, Len(w), g)
  <2> DEFINE n == (Len(w) + 1) - i
  <2>1. i \in Nat /\ n \in Nat /\ (i - 1) + n = Len(w)
    OBVIOUS
  <2> HIDE DEF n
  <2>2. \E g : Values(w, i, (i - 1) + n, g)
    BY <2>1, ValuesExist
  <2> QED BY <2>1, <2>2
<1>2. Values(w, i, Len(w), f)
  BY <1>1
<1>3. RunValue(w, i) = f[RunEnd(w, i) - 1]
  BY DEF RunValue, Values
<1> HIDE DEF f
<1>4. \A e \in i - 1 .. Len(w) : f[e] = IF e < i THEN 0 ELSE 10 * f[e - 1] + DigitAt(w, e)
  BY <1>2 DEF Values
<1>5. f[i - 1] = 0 /\ \A e \in i .. Len(w) : f[e] = 10 * f[e - 1] + DigitAt(w, e)
  BY <1>4
<1> QED BY <1>3, <1>5

LEMMA RunValueIsNat ==
  ASSUME NEW w, Len(w) \in Nat, NEW i \in 1 .. Len(w) + 1
  PROVE  RunValue(w, i) \in Nat
<1> DEFINE end == RunEnd(w, i)
<1>1. end \in i .. Len(w) + 1 /\ \A k \in i .. end - 1 : IsDigit(w, k)
  BY RunEnds
<1>2. PICK f : /\ RunValue(w, i) = f[end - 1]
               /\ f[i - 1] = 0
               /\ \A e \in i .. Len(w) : f[e] = 10 * f[e - 1] + DigitAt(w, e)
  BY RunValueIs
<1> HIDE DEF end
<1> DEFINE S == {n \in Nat : (i - 1) + n <= end - 1 => f[(i - 1) + n] \in Nat}
<1>3. 0 \in S
  BY <1>2
<1>4. ASSUME NEW n \in Nat, n \in S PROVE n + 1 \in S
  <2> DEFINE e == i + n
  <2>1. SUFFICES ASSUME e <= end - 1 PROVE f[e] \in Nat
    BY DEF S
  <2>2. f[e - 1] \in Nat
    <3>1. e - 1 = (i - 1) + n /\ e - 1 <= end - 1
      BY <1>1, <2>1
    <3> QED BY <1>4, <3>1
  <2>3. e \in i .. end - 1 /\ e \in i .. Len(w)
    BY <1>1, <2>1
  <2>4. f[e] = 10 * f[e - 1] + DigitAt(w, e) /\ DigitAt(w, e) \in 0 .. 9
    BY <1>1, <1>2, <2>3, DigitIsSmall
  <2> HIDE DEF e
  <2> QED BY <2>2, <2>4
<1> HIDE DEF S
<1>5. \A n \in Nat : n \in S
  BY <1>3, <1>4, SetInduction
<1>6. end - i \in Nat /\ (i - 1) + (end - i) = end - 1
  BY <1>1
<1>7. (end - i) \in S
  BY <1>5, <1>6
<1>8. f[end - 1] \in Nat
  <2>1. end - 1 <= end - 1
    BY <1>1
  <2> QED BY <1>6, <1>7, <2>1 DEF S
<1> QED BY <1>2, <1>8

(* The beginning of a word, up to the end of a run of digits, has the same  *)
(* run.                                                                     *)
LEMMA CharOfPrefix ==
  ASSUME NEW Character, NEW w \in Seq(Character), NEW n \in 1 .. Len(w), NEW k \in 1 .. n
  PROVE  Char(SubSeq(w, 1, n), k) = Char(w, k)
BY DEF Char

LEMMA RunOfPrefix ==
  ASSUME NEW Character, NEW w \in Seq(Character), NEW i \in 1 .. Len(w), IsDigit(w, i)
  PROVE  RunValue(SubSeq(w, 1, RunEnd(w, i) - 1), i) = RunValue(w, i)
<1> DEFINE end == RunEnd(w, i)
           n == end - 1
           u == SubSeq(w, 1, n)
<1>1. end \in i .. Len(w) + 1 /\ ~ IsDigit(w, end) /\ \A k \in i .. end - 1 : IsDigit(w, k)
  BY RunEnds
<1> HIDE DEF end
<1>2. n \in i .. Len(w) /\ end = n + 1
  <2>1. end # i
    BY <1>1
  <2> QED BY <1>1, <2>1
<1>3. Len(u) = n
  BY <1>2
<1>4. \A k \in 1 .. n : Char(u, k) = Char(w, k)
  BY <1>2, CharOfPrefix
<1> HIDE DEF u, n
<1>5. \A k \in i .. n : IsDigit(u, k) /\ DigitAt(u, k) = DigitAt(w, k)
  <2> TAKE k \in i .. n
  <2>1. Char(u, k) = Char(w, k) /\ IsDigit(w, k) /\ k <= Len(u)
    BY <1>1, <1>2, <1>3, <1>4
  <2> QED BY <2>1 DEF IsDigit, DigitAt
<1>6. ~ IsDigit(u, n + 1)
  BY <1>2, <1>3 DEF IsDigit
<1>7. RunEnd(u, i) = n + 1
  BY <1>2, <1>3, <1>5, <1>6, RunEndIs
<1>8. PICK f : /\ RunValue(w, i) = f[n]
               /\ f[i - 1] = 0
               /\ \A e \in i .. Len(w) : f[e] = 10 * f[e - 1] + DigitAt(w, e)
  BY <1>2, RunValueIs DEF end
<1>9. PICK g : /\ RunValue(u, i) = g[n]
               /\ g[i - 1] = 0
               /\ \A e \in i .. n : g[e] = 10 * g[e - 1] + DigitAt(u, e)
  <2>1. i \in 1 .. Len(u) + 1 /\ Len(u) \in Nat /\ (n + 1) - 1 = n
    BY <1>2, <1>3
  <2> QED BY <1>3, <1>7, <2>1, RunValueIs
<1> DEFINE S == {m \in Nat : (i - 1) + m <= n => f[(i - 1) + m] = g[(i - 1) + m]}
<1>10. 0 \in S
  BY <1>8, <1>9
<1>11. ASSUME NEW m \in Nat, m \in S PROVE m + 1 \in S
  <2> DEFINE e == i + m
  <2>1. SUFFICES ASSUME e <= n PROVE f[e] = g[e]
    BY DEF S
  <2>2. f[e - 1] = g[e - 1]
    BY <1>2, <1>11, <2>1
  <2>3. e \in i .. n /\ e \in i .. Len(w)
    BY <1>2, <2>1
  <2> HIDE DEF e
  <2>4. f[e] = 10 * f[e - 1] + DigitAt(w, e) /\ g[e] = 10 * g[e - 1] + DigitAt(w, e)
    BY <1>5, <1>8, <1>9, <2>3
  <2> QED BY <2>2, <2>4
<1> HIDE DEF S
<1>12. \A m \in Nat : m \in S
  BY <1>10, <1>11, SetInduction
<1>13. (n + 1) - i \in Nat /\ (i - 1) + ((n + 1) - i) = n
  BY <1>2
<1>14. ((n + 1) - i) \in S
  BY <1>12, <1>13
<1>15. f[n] = g[n]
  <2>1. n <= n
    BY <1>2
  <2> QED BY <1>13, <1>14, <2>1 DEF S
<1> QED BY <1>8, <1>9, <1>15 DEF u, n, end

-----------------------------------------------------------------------------
(* Addresses. *)

(* Where the second, third and fourth number of an address begin.           *)
Second(w) == RunEnd(w, 1) + 1
Third(w) == RunEnd(w, Second(w)) + 1
Fourth(w) == RunEnd(w, Third(w)) + 1

ByteAt(w, p) == IsDigit(w, p) /\ RunValue(w, p) <= 255

AtonReads(w) ==
    /\ ByteAt(w, 1) /\ Char(w, RunEnd(w, 1)) = "."
    /\ ByteAt(w, Second(w)) /\ Char(w, RunEnd(w, Second(w))) = "."
    /\ ByteAt(w, Third(w)) /\ Char(w, RunEnd(w, Third(w))) = "."
    /\ ByteAt(w, Fourth(w)) /\ RunEnd(w, Fourth(w)) > Len(w)

LEMMA AtonIs ==
  ASSUME NEW w
  PROVE  inet_aton(w) = IF AtonReads(w)
                        THEN <<RunValue(w, 1), RunValue(w, Second(w)), RunValue(w, Third(w)), RunValue(w, Fourth(w))>>
                        ELSE <<>>
<1> DEFINE Start(f) == f = [k \in 1 .. 4 |-> IF k = 1 THEN 1 ELSE RunEnd(w, f[k - 1]) + 1]
           start == CHOOSE f : Start(f)
           IsByte(k) ==
              /\ IsDigit(w, start[k])
              /\ RunValue(w, start[k]) <= 255
              /\ IF k < 4 THEN Char(w, RunEnd(w, start[k])) = "." ELSE RunEnd(w, start[k]) > Len(w)
           bytes == [k \in 1 .. 4 |-> RunValue(w, start[k])]
<1>1. \E f : Start(f)
  <2> DEFINE f == [k \in 1 .. 4 |-> IF k = 1 THEN 1 ELSE IF k = 2 THEN Second(w) ELSE IF k = 3 THEN Third(w) ELSE Fourth(w)]
  <2>1. f[1] = 1 /\ f[2] = Second(w) /\ f[3] = Third(w) /\ f[4] = Fourth(w)
    OBVIOUS
  <2>2. f = [k \in 1 .. 4 |-> f[k]]
    OBVIOUS
  <2> HIDE DEF f
  <2>3. \A k \in 1 .. 4 : k = 1 \/ k = 2 \/ k = 3 \/ k = 4
    OBVIOUS
  <2>4. \A k \in 1 .. 4 : f[k] = IF k = 1 THEN 1 ELSE RunEnd(w, f[k - 1]) + 1
    <3>1. f[2] = RunEnd(w, f[1]) + 1 /\ f[3] = RunEnd(w, f[2]) + 1 /\ f[4] = RunEnd(w, f[3]) + 1
      BY <2>1 DEF Second, Third, Fourth
    <3> QED BY <2>1, <2>3, <3>1
  <2>5. Start(f)
    BY <2>2, <2>4
  <2> HIDE DEF Start
  <2> QED BY <2>5
<1>2. Start(start)
  <2> HIDE DEF Start
  <2> QED BY <1>1
<1>3. inet_aton(w) = IF \A k \in 1 .. 4 : IsByte(k) THEN bytes ELSE <<>>
  BY DEF inet_aton
<1> HIDE DEF start
<1>4. start[1] = 1 /\ start[2] = Second(w) /\ start[3] = Third(w) /\ start[4] = Fourth(w)
  <2>1. \A k \in 1 .. 4 : start[k] = IF k = 1 THEN 1 ELSE RunEnd(w, start[k - 1]) + 1
    BY <1>2
  <2>2. start[1] = 1 /\ start[2] = RunEnd(w, start[1]) + 1 /\ start[3] = RunEnd(w, start[2]) + 1 /\ start[4] = RunEnd(w, start[3]) + 1
    BY <2>1
  <2> QED BY <2>2 DEF Second, Third, Fourth
<1>5. (\A k \in 1 .. 4 : IsByte(k)) <=> AtonReads(w)
  <2>1. (\A k \in 1 .. 4 : IsByte(k)) <=> IsByte(1) /\ IsByte(2) /\ IsByte(3) /\ IsByte(4)
    <3>1. \A k \in 1 .. 4 : k = 1 \/ k = 2 \/ k = 3 \/ k = 4
      OBVIOUS
    <3> HIDE DEF IsByte
    <3> QED BY <3>1
  <2>2. /\ IsByte(1) <=> ByteAt(w, 1) /\ Char(w, RunEnd(w, 1)) = "."
        /\ IsByte(2) <=> ByteAt(w, Second(w)) /\ Char(w, RunEnd(w, Second(w))) = "."
        /\ IsByte(3) <=> ByteAt(w, Third(w)) /\ Char(w, RunEnd(w, Third(w))) = "."
        /\ IsByte(4) <=> ByteAt(w, Fourth(w)) /\ RunEnd(w, Fourth(w)) > Len(w)
    BY <1>4 DEF ByteAt
  <2> HIDE DEF IsByte
  <2> QED BY <2>1, <2>2 DEF AtonReads
<1>6. bytes = <<RunValue(w, 1), RunValue(w, Second(w)), RunValue(w, Third(w)), RunValue(w, Fourth(w))>>
  BY <1>4
<1> HIDE DEF bytes, IsByte
<1> QED BY <1>3, <1>5, <1>6

(* A word that is four numbers below 256 with three dots between them.      *)
IsDot(w, i) == i \in 1 .. Len(w) /\ Char(w, i) = "."
IsByteFrom(w, first, last) == first <= last /\ RunEnd(w, first) = last + 1 /\ RunValue(w, first) < 256
SplitsAt(w, p, q, r) ==
    /\ IsDot(w, p) /\ IsDot(w, q) /\ IsDot(w, r)
    /\ p < q /\ q < r
    /\ IsByteFrom(w, 1, p - 1) /\ IsByteFrom(w, p + 1, q - 1)
    /\ IsByteFrom(w, q + 1, r - 1) /\ IsByteFrom(w, r + 1, Len(w))

LEMMA ByteIsRead ==
  ASSUME NEW w, Len(w) \in Nat, NEW first \in 1 .. Len(w) + 1, NEW last \in 0 .. Len(w)
  PROVE  /\ IsByteFrom(w, first, last) => ByteAt(w, first)
         /\ ByteAt(w, first) /\ RunEnd(w, first) = last + 1 => IsByteFrom(w, first, last)
<1> DEFINE end == RunEnd(w, first)
           n == RunValue(w, first)
<1>1. end \in first .. Len(w) + 1 /\ ~ IsDigit(w, end) /\ \A k \in first .. end - 1 : IsDigit(w, k)
  BY RunEnds
<1>2. n \in Nat
  BY RunValueIsNat
<1> HIDE DEF end, n
<1>3. first <= last /\ end = last + 1 => IsDigit(w, first)
  BY <1>1
<1>4. IsDigit(w, first) => end > first
  BY <1>1
<1>5. n < 256 <=> n <= 255
  BY <1>2
<1>6. IsByteFrom(w, first, last) => ByteAt(w, first)
  BY <1>3, <1>5 DEF IsByteFrom, ByteAt, end, n
<1>7. ASSUME ByteAt(w, first), end = last + 1 PROVE IsByteFrom(w, first, last)
  <2>1. IsDigit(w, first) /\ n < 256
    BY <1>5, <1>7 DEF ByteAt, n
  <2>2. first <= last
    BY <1>1, <1>4, <1>7, <2>1
  <2> QED BY <1>7, <2>1, <2>2 DEF IsByteFrom, end, n
<1> QED BY <1>6, <1>7 DEF end

LEMMA CharInside ==
  ASSUME NEW w, NEW i, Char(w, i) = "."
  PROVE  i \in 1 .. Len(w)
BY DEF Char, NoText

LEMMA SplitIsRead ==
  ASSUME NEW w, Len(w) \in Nat, NEW p, NEW q, NEW r, SplitsAt(w, p, q, r)
  PROVE  AtonReads(w) /\ Second(w) = p + 1 /\ Third(w) = q + 1 /\ Fourth(w) = r + 1
<1>1. /\ p \in 1 .. Len(w) /\ q \in 1 .. Len(w) /\ r \in 1 .. Len(w)
      /\ Char(w, p) = "." /\ Char(w, q) = "." /\ Char(w, r) = "."
      /\ IsByteFrom(w, 1, p - 1) /\ IsByteFrom(w, p + 1, q - 1)
      /\ IsByteFrom(w, q + 1, r - 1) /\ IsByteFrom(w, r + 1, Len(w))
  BY DEF SplitsAt, IsDot
<1>2. ByteAt(w, 1) /\ ByteAt(w, p + 1) /\ ByteAt(w, q + 1) /\ ByteAt(w, r + 1)
  <2>1. /\ 1 \in 1 .. Len(w) + 1 /\ p + 1 \in 1 .. Len(w) + 1 /\ q + 1 \in 1 .. Len(w) + 1 /\ r + 1 \in 1 .. Len(w) + 1
        /\ p - 1 \in 0 .. Len(w) /\ q - 1 \in 0 .. Len(w) /\ r - 1 \in 0 .. Len(w) /\ Len(w) \in 0 .. Len(w)
    BY <1>1
  <2> QED BY <1>1, <2>1, ByteIsRead
<1>3. /\ RunEnd(w, 1) = p /\ RunEnd(w, p + 1) = q /\ RunEnd(w, q + 1) = r /\ RunEnd(w, r + 1) = Len(w) + 1
  BY <1>1 DEF IsByteFrom
<1>4. Second(w) = p + 1
  BY <1>3 DEF Second
<1>5. Third(w) = q + 1
  BY <1>3, <1>4 DEF Third
<1>6. Fourth(w) = r + 1
  BY <1>3, <1>5 DEF Fourth
<1>7. RunEnd(w, Fourth(w)) > Len(w)
  BY <1>3, <1>6
<1> QED BY <1>1, <1>2, <1>3, <1>4, <1>5, <1>6, <1>7 DEF AtonReads

LEMMA ReadIsSplit ==
  ASSUME NEW w, Len(w) \in Nat, AtonReads(w)
  PROVE  SplitsAt(w, RunEnd(w, 1), RunEnd(w, Second(w)), RunEnd(w, Third(w)))
<1> DEFINE p == RunEnd(w, 1)
           q == RunEnd(w, p + 1)
           r == RunEnd(w, q + 1)
           s == RunEnd(w, r + 1)
<1>1. Second(w) = p + 1 /\ Third(w) = q + 1 /\ Fourth(w) = r + 1
  BY DEF Second, Third, Fourth
<1>2. /\ ByteAt(w, 1) /\ ByteAt(w, p + 1) /\ ByteAt(w, q + 1) /\ ByteAt(w, r + 1)
      /\ Char(w, p) = "." /\ Char(w, q) = "." /\ Char(w, r) = "." /\ s > Len(w)
  BY <1>1 DEF AtonReads
<1>3. p \in 1 .. Len(w) /\ q \in 1 .. Len(w) /\ r \in 1 .. Len(w)
  <2> HIDE DEF p, q, r
  <2> QED BY <1>2, CharInside
<1>4. p < q /\ q < r /\ s = Len(w) + 1
  <2>1. p + 1 \in 1 .. Len(w) + 1 /\ q + 1 \in 1 .. Len(w) + 1 /\ r + 1 \in 1 .. Len(w) + 1
    <3> HIDE DEF p, q, r
    <3> QED BY <1>3
  <2>2. q \in p + 1 .. Len(w) + 1
    BY <2>1, RunEnds
  <2>3. r \in q + 1 .. Len(w) + 1
    BY <2>1, RunEnds
  <2>4. s \in r + 1 .. Len(w) + 1
    BY <2>1, RunEnds
  <2> HIDE DEF p, q, r, s
  <2> QED BY <1>2, <1>3, <2>2, <2>3, <2>4
<1>5. /\ IsByteFrom(w, 1, p - 1) /\ IsByteFrom(w, p + 1, q - 1)
      /\ IsByteFrom(w, q + 1, r - 1) /\ IsByteFrom(w, r + 1, Len(w))
  <2>1. RunEnd(w, 1) = p /\ RunEnd(w, p + 1) = q /\ RunEnd(w, q + 1) = r /\ RunEnd(w, r + 1) = s
    OBVIOUS
  <2> HIDE DEF p, q, r, s
  <2>2. /\ 1 \in 1 .. Len(w) + 1 /\ p + 1 \in 1 .. Len(w) + 1 /\ q + 1 \in 1 .. Len(w) + 1 /\ r + 1 \in 1 .. Len(w) + 1
        /\ p - 1 \in 0 .. Len(w) /\ q - 1 \in 0 .. Len(w) /\ r - 1 \in 0 .. Len(w) /\ Len(w) \in 0 .. Len(w)
        /\ p = (p - 1) + 1 /\ q = (q - 1) + 1 /\ r = (r - 1) + 1
    BY <1>3
  <2>3. IsByteFrom(w, 1, p - 1)
    BY <1>2, <2>1, <2>2, ByteIsRead
  <2>4. IsByteFrom(w, p + 1, q - 1)
    BY <1>2, <2>1, <2>2, ByteIsRead
  <2>5. IsByteFrom(w, q + 1, r - 1)
    BY <1>2, <2>1, <2>2, ByteIsRead
  <2>6. IsByteFrom(w, r + 1, Len(w))
    BY <1>2, <1>4, <2>1, <2>2, ByteIsRead
  <2> QED BY <2>3, <2>4, <2>5, <2>6
<1>6. IsDot(w, p) /\ IsDot(w, q) /\ IsDot(w, r)
  BY <1>2, <1>3 DEF IsDot
<1>7. SplitsAt(w, p, q, r)
  <2> HIDE DEF p, q, r, s
  <2> QED BY <1>4, <1>5, <1>6 DEF SplitsAt
<1> QED BY <1>1, <1>7

LEMMA NothingOred ==
  ASSUME NEW b \in 0 .. 255
  PROVE  OrLow(b % 256, 0 \div 256) = b
<1> DEFINE Bit(x, y) == IF x = 1 \/ y = 1 THEN 1 ELSE 0
<1>1. b % 256 = b /\ 0 \div 256 = 0 /\ 0 \div 2 = 0 /\ 0 % 2 = 0
  OBVIOUS
<1>2. Bit((b \div 2) % 2, 0) = (b \div 2) % 2 /\ Bit(b % 2, 0) = b % 2
  <2>1. \A x : x = 0 \/ x = 1 => Bit(x, 0) = x
    OBVIOUS
  <2>2. (b % 2 = 0 \/ b % 2 = 1) /\ ((b \div 2) % 2 = 0 \/ (b \div 2) % 2 = 1)
    OBVIOUS
  <2> HIDE DEF Bit
  <2> QED BY <2>1, <2>2
<1>3. OrLow(b, 0) = 4 * (b \div 4) + 2 * Bit((b \div 2) % 2, 0) + Bit(b % 2, 0)
  BY <1>1 DEF OrLow
<1>4. 4 * (b \div 4) + 2 * ((b \div 2) % 2) + (b % 2) = b
  <2> DEFINE h == b \div 2
             l == b % 2
             g == h \div 2
             m == h % 2
  <2>1. h \in Nat /\ l \in 0 .. 1 /\ b = 2 * h + l
    OBVIOUS
  <2>2. h \in Nat => g \in Nat /\ m \in 0 .. 1 /\ h = 2 * g + m
    <3> HIDE DEF h
    <3> QED OBVIOUS
  <2> HIDE DEF h, l, g, m
  <2>3. \A x \in Nat, y \in 0 .. 3 : (4 * x + y) \div 4 = x
    OBVIOUS
  <2>4. b = 4 * g + (2 * m + l) /\ b = 4 * g + 2 * m + l
    <3>1. \A H, G, M, L \in Int : H = 2 * G + M => 2 * H + L = 4 * G + (2 * M + L) /\ 2 * H + L = 4 * G + 2 * M + L
      OBVIOUS
    <3>2. h \in Int /\ g \in Int /\ m \in Int /\ l \in Int
      BY <2>1, <2>2
    <3> QED BY <2>1, <2>2, <3>1, <3>2
  <2>5. (2 * m + l) \in 0 .. 3
    BY <2>1, <2>2
  <2>6. b \div 4 = g
    BY <2>1, <2>2, <2>3, <2>4, <2>5
  <2> QED BY <2>4, <2>6 DEF l, m, h
<1> HIDE DEF Bit
<1> QED BY <1>1, <1>2, <1>3, <1>4

LEMMA Concatenated ==
  ASSUME NEW S, NEW s \in Seq(S), NEW t \in Seq(S)
  PROVE  /\ s \o t \in Seq(S)
         /\ Len(s \o t) = Len(s) + Len(t)
         /\ \A k \in 1 .. Len(s) : (s \o t)[k] = s[k]
         /\ \A k \in 1 .. Len(t) : (s \o t)[Len(s) + k] = t[k]
         /\ \A k \in 1 .. Len(s) + Len(t) : (s \o t)[k] \in S
<1>1. s \o t \in Seq(S) /\ Len(s \o t) = Len(s) + Len(t)
  OBVIOUS
<1>2. \A k \in 1 .. Len(s) : (s \o t)[k] = s[k]
  OBVIOUS
<1>3. \A k \in 1 .. Len(t) : (s \o t)[Len(s) + k] = t[k]
  OBVIOUS
<1>4. \A k \in 1 .. Len(s) + Len(t) : (s \o t)[k] \in S
  BY <1>1
<1> QED BY <1>1, <1>2, <1>3, <1>4

LEMMA BytesRead ==
  ASSUME NEW w, NEW junk, Fields(w, junk) \in Seq(0 .. 255), Len(Fields(w, junk)) = 4
  PROVE  _inet_addr(w, junk) = Fields(w, junk)
<1> DEFINE bytes == Fields(w, junk)
           zero == <<0>>
           data == bytes \o zero
<1>1. _inet_addr(w, junk) = [k \in 1 .. 4 |-> OrLow(data[k] % 256, data[k + 1] \div 256)]
  BY DEF _inet_addr
<1> HIDE DEF bytes
<1>2. bytes \in Seq(0 .. 255) /\ Len(bytes) = 4 /\ zero \in Seq(0 .. 255) /\ Len(zero) = 1
  BY DEF bytes
<1> HIDE DEF zero
<1> DEFINE Byte == 0 .. 255
<1>3. (\A k \in 1 .. 4 : data[k] = bytes[k]) /\ (\A k \in 1 .. 5 : data[k] \in 0 .. 255)
  <2>1. bytes \in Seq(Byte) /\ Len(bytes) = 4 /\ zero \in Seq(Byte) /\ Len(zero) = 1
    BY <1>2
  <2> HIDE DEF Byte
  <2>2. /\ \A k \in 1 .. Len(bytes) : data[k] = bytes[k]
        /\ \A k \in 1 .. Len(bytes) + Len(zero) : data[k] \in Byte
    BY <2>1, Concatenated
  <2>3. Len(bytes) + Len(zero) = 5
    BY <2>1
  <2>4. (\A k \in 1 .. 4 : data[k] = bytes[k]) /\ (\A k \in 1 .. 5 : data[k] \in Byte)
    BY <2>1, <2>2, <2>3
  <2> QED BY <2>4 DEF Byte
<1> HIDE DEF data, Byte
<1>4. \A n \in 0 .. 255 : n \div 256 = 0 \div 256
  OBVIOUS
<1>5. \A k \in 1 .. 4 : OrLow(data[k] % 256, data[k + 1] \div 256) = bytes[k]
  <2> TAKE k \in 1 .. 4
  <2>1. data[k] \in 0 .. 255 /\ data[k + 1] \in 0 .. 255
    <3>2. k \in 1 .. 5 /\ k + 1 \in 1 .. 5
      OBVIOUS
    <3> QED BY <1>3, <3>2
  <2>2. data[k + 1] \div 256 = 0 \div 256
    BY <1>4, <2>1
  <2> QED BY <1>3, <2>1, <2>2, NothingOred
<1>6. _inet_addr(w, junk) = [k \in 1 .. 4 |-> bytes[k]]
  BY <1>1, <1>5
<1> QED BY <1>2, <1>6 DEF bytes

StopAt(w, p) == IF RunEnd(w, p) > p + 3 THEN p + 3 ELSE RunEnd(w, p)

LEMMA FieldsAre ==
  ASSUME NEW w, NEW junk, NEW p \in Nat, NEW q \in Nat, NEW r \in Nat, NEW s \in Nat,
         IsDigit(w, 1), StopAt(w, 1) = p, Char(w, p) = ".",
         IsDigit(w, p + 1), StopAt(w, p + 1) = q, Char(w, q) = ".",
         IsDigit(w, q + 1), StopAt(w, q + 1) = r, Char(w, r) = ".",
         IsDigit(w, r + 1), StopAt(w, r + 1) = s
  PROVE  Fields(w, junk) = <<RunValue(SubSeq(w, 1, p - 1), 1), RunValue(SubSeq(w, 1, q - 1), p + 1),
                             RunValue(SubSeq(w, 1, r - 1), q + 1), RunValue(SubSeq(w, 1, s - 1), r + 1)>>
<1> DEFINE Start(f) == f = [k \in 1 .. 4 |-> IF k = 1 THEN 1 ELSE StopAt(w, f[k - 1]) + 1]
           start == CHOOSE f : Start(f)
           IsRead(k) ==
              \A j \in 1 .. k : /\ IsDigit(w, start[j])
                                /\ j < k => Char(w, StopAt(w, start[j])) = "."
           read == [k \in 1 .. 4 |-> IF IsRead(k) THEN RunValue(SubSeq(w, 1, StopAt(w, start[k]) - 1), start[k]) ELSE junk]
<1>1. \E f : Start(f)
  <2> DEFINE f == [k \in 1 .. 4 |-> IF k = 1 THEN 1 ELSE IF k = 2 THEN p + 1 ELSE IF k = 3 THEN q + 1 ELSE r + 1]
  <2>1. f[1] = 1 /\ f[2] = p + 1 /\ f[3] = q + 1 /\ f[4] = r + 1
    OBVIOUS
  <2>2. f = [k \in 1 .. 4 |-> f[k]]
    OBVIOUS
  <2> HIDE DEF f
  <2>3. \A k \in 1 .. 4 : k = 1 \/ k = 2 \/ k = 3 \/ k = 4
    OBVIOUS
  <2>4. \A k \in 1 .. 4 : f[k] = IF k = 1 THEN 1 ELSE StopAt(w, f[k - 1]) + 1
    BY <2>1, <2>3
  <2>5. Start(f)
    BY <2>2, <2>4
  <2> HIDE DEF Start
  <2> QED BY <2>5
<1>2. Start(start)
  <2> HIDE DEF Start
  <2> QED BY <1>1
<1>3. Fields(w, junk) = read
  BY DEF Fields, StopAt
<1> HIDE DEF start
<1>4. start[1] = 1 /\ start[2] = p + 1 /\ start[3] = q + 1 /\ start[4] = r + 1
  <2>1. \A k \in 1 .. 4 : start[k] = IF k = 1 THEN 1 ELSE StopAt(w, start[k - 1]) + 1
    BY <1>2
  <2>2. start[1] = 1 /\ start[2] = StopAt(w, start[1]) + 1 /\ start[3] = StopAt(w, start[2]) + 1 /\ start[4] = StopAt(w, start[3]) + 1
    BY <2>1
  <2> QED BY <2>2
<1>5. \A j \in 1 .. 4 : IsDigit(w, start[j]) /\ (j < 4 => Char(w, StopAt(w, start[j])) = ".")
  <2>1. \A k \in 1 .. 4 : k = 1 \/ k = 2 \/ k = 3 \/ k = 4
    OBVIOUS
  <2> QED BY <1>4, <2>1
<1>6. \A k \in 1 .. 4 : IsRead(k)
  <2> TAKE k \in 1 .. 4
  <2>1. \A j \in 1 .. k : j \in 1 .. 4 /\ (j < k => j < 4)
    OBVIOUS
  <2> QED BY <1>5, <2>1
<1> HIDE DEF IsRead
<1>7. read = [k \in 1 .. 4 |-> RunValue(SubSeq(w, 1, StopAt(w, start[k]) - 1), start[k])]
  BY <1>6
<1> HIDE DEF read
<1> QED BY <1>3, <1>4, <1>7

LEMMA ShortAddress ==
  ASSUME NEW Character, NEW w \in Seq(Character), NEW junk, NEW p, NEW q, NEW r, SplitsAt(w, p, q, r),
         p < 5, q - p < 5, r - q < 5, Len(w) - r < 4
  PROVE  _inet_addr(w, junk) = <<RunValue(w, 1), RunValue(w, p + 1), RunValue(w, q + 1), RunValue(w, r + 1)>>
<1> DEFINE s == Len(w) + 1
<1>1. /\ p \in 1 .. Len(w) /\ q \in 1 .. Len(w) /\ r \in 1 .. Len(w)
      /\ Char(w, p) = "." /\ Char(w, q) = "." /\ Char(w, r) = "."
      /\ IsByteFrom(w, 1, p - 1) /\ IsByteFrom(w, p + 1, q - 1)
      /\ IsByteFrom(w, q + 1, r - 1) /\ IsByteFrom(w, r + 1, Len(w))
  BY DEF SplitsAt, IsDot
<1>2. /\ RunEnd(w, 1) = p /\ RunEnd(w, p + 1) = q /\ RunEnd(w, q + 1) = r /\ RunEnd(w, r + 1) = s
      /\ 1 <= p - 1 /\ p + 1 <= q - 1 /\ q + 1 <= r - 1 /\ r + 1 <= Len(w)
  BY <1>1 DEF IsByteFrom
<1>3. 1 \in 1 .. Len(w) /\ p + 1 \in 1 .. Len(w) /\ q + 1 \in 1 .. Len(w) /\ r + 1 \in 1 .. Len(w)
  BY <1>1, <1>2
<1>4. IsDigit(w, 1) /\ IsDigit(w, p + 1) /\ IsDigit(w, q + 1) /\ IsDigit(w, r + 1)
  <2>1. AtonReads(w) /\ Second(w) = p + 1 /\ Third(w) = q + 1 /\ Fourth(w) = r + 1
    BY SplitIsRead
  <2> QED BY <2>1 DEF AtonReads, ByteAt
<1>5. StopAt(w, 1) = p /\ StopAt(w, p + 1) = q /\ StopAt(w, q + 1) = r /\ StopAt(w, r + 1) = s
  BY <1>1, <1>2 DEF StopAt
<1>6. /\ RunValue(SubSeq(w, 1, p - 1), 1) = RunValue(w, 1)
      /\ RunValue(SubSeq(w, 1, q - 1), p + 1) = RunValue(w, p + 1)
      /\ RunValue(SubSeq(w, 1, r - 1), q + 1) = RunValue(w, q + 1)
      /\ RunValue(SubSeq(w, 1, s - 1), r + 1) = RunValue(w, r + 1)
  BY <1>2, <1>3, <1>4, RunOfPrefix
<1>7. /\ RunValue(w, 1) \in 0 .. 255 /\ RunValue(w, p + 1) \in 0 .. 255
      /\ RunValue(w, q + 1) \in 0 .. 255 /\ RunValue(w, r + 1) \in 0 .. 255
  <2>1. /\ RunValue(w, 1) \in Nat /\ RunValue(w, p + 1) \in Nat
        /\ RunValue(w, q + 1) \in Nat /\ RunValue(w, r + 1) \in Nat
    <3>1. /\ 1 \in 1 .. Len(w) + 1 /\ p + 1 \in 1 .. Len(w) + 1
          /\ q + 1 \in 1 .. Len(w) + 1 /\ r + 1 \in 1 .. Len(w) + 1
      BY <1>3
    <3> QED BY <3>1, RunValueIsNat
  <2>2. \A n \in Nat : n < 256 => n \in 0 .. 255
    OBVIOUS
  <2>3. RunValue(w, 1) < 256 /\ RunValue(w, p + 1) < 256 /\ RunValue(w, q + 1) < 256 /\ RunValue(w, r + 1) < 256
    BY <1>1 DEF IsByteFrom
  <2> QED BY <2>1, <2>2, <2>3
<1>8. p \in Nat /\ q \in Nat /\ r \in Nat /\ s \in Nat
  BY <1>1
<1> HIDE DEF s
<1>9. Fields(w, junk) = <<RunValue(SubSeq(w, 1, p - 1), 1), RunValue(SubSeq(w, 1, q - 1), p + 1),
                          RunValue(SubSeq(w, 1, r - 1), q + 1), RunValue(SubSeq(w, 1, s - 1), r + 1)>>
  BY <1>1, <1>4, <1>5, <1>8, FieldsAre
<1>10. Fields(w, junk) = <<RunValue(w, 1), RunValue(w, p + 1), RunValue(w, q + 1), RunValue(w, r + 1)>>
  BY <1>6, <1>9
<1> DEFINE b1 == RunValue(w, 1)
           b2 == RunValue(w, p + 1)
           b3 == RunValue(w, q + 1)
           b4 == RunValue(w, r + 1)
<1>11. b1 \in 0 .. 255 /\ b2 \in 0 .. 255 /\ b3 \in 0 .. 255 /\ b4 \in 0 .. 255 /\ Fields(w, junk) = <<b1, b2, b3, b4>>
  BY <1>7, <1>10
<1> HIDE DEF b1, b2, b3, b4
<1>12. _inet_addr(w, junk) = <<b1, b2, b3, b4>>
  <2>1. <<b1, b2, b3, b4>> \in Seq(0 .. 255) /\ Len(<<b1, b2, b3, b4>>) = 4
    BY <1>11
  <2> QED BY <1>11, <2>1, BytesRead
<1> QED BY <1>12 DEF b1, b2, b3, b4

LEMMA AddressesRead ==
  ASSUME NEW Character, NEW w \in Seq(Character), NEW junk
  PROVE  AddressesAreRead(w, junk)
<1> DEFINE Number255(first, last) ==
              first <= last /\ RunEnd(w, first) = last + 1 /\ RunValue(w, first) < 256
           dots == {i \in 1 .. Len(w) : Char(w, i) = "."}
           Splits(p, q, r) ==
              /\ p < q /\ q < r
              /\ Number255(1, p - 1) /\ Number255(p + 1, q - 1)
              /\ Number255(q + 1, r - 1) /\ Number255(r + 1, Len(w))
           Read(p, q, r) == <<RunValue(w, 1), RunValue(w, p + 1), RunValue(w, q + 1), RunValue(w, r + 1)>>
           Short(p, q, r) == p < 5 /\ q - p < 5 /\ r - q < 5 /\ Len(w) - r < 4
<1>1. \A p, q, r : p \in dots /\ q \in dots /\ r \in dots /\ Splits(p, q, r) <=> SplitsAt(w, p, q, r)
  BY DEF SplitsAt, IsDot, IsByteFrom
<1>2. \A p, q, r : SplitsAt(w, p, q, r) => inet_aton(w) = Read(p, q, r)
  <2> TAKE p, q, r
  <2> HAVE SplitsAt(w, p, q, r)
  <2>1. AtonReads(w) /\ Second(w) = p + 1 /\ Third(w) = q + 1 /\ Fourth(w) = r + 1
    BY SplitIsRead
  <2> QED BY <2>1, AtonIs
<1>3. \A p, q, r : SplitsAt(w, p, q, r) /\ Short(p, q, r) => _inet_addr(w, junk) = Read(p, q, r)
  BY ShortAddress
<1>4. AtonReads(w) => \E p, q, r : SplitsAt(w, p, q, r)
  <2>1. Len(w) \in Nat
    OBVIOUS
  <2> QED BY <2>1, ReadIsSplit
<1>5. ~ AtonReads(w) => inet_aton(w) = <<>>
  BY AtonIs
<1> HIDE DEF Splits, Read, Short
<1>6. ASSUME \E p, q, r \in dots : Splits(p, q, r)
      PROVE  \E p, q, r \in dots : /\ Splits(p, q, r)
                                   /\ inet_aton(w) = Read(p, q, r)
                                   /\ Short(p, q, r) => _inet_addr(w, junk) = inet_aton(w)
  BY <1>1, <1>2, <1>3, <1>6
<1>7. ASSUME ~ \E p, q, r \in dots : Splits(p, q, r) PROVE inet_aton(w) = <<>>
  BY <1>1, <1>4, <1>5, <1>7
<1> HIDE DEF dots
<1>8. IF \E p, q, r \in dots : Splits(p, q, r)
      THEN \E p, q, r \in dots : /\ Splits(p, q, r)
                                 /\ inet_aton(w) = Read(p, q, r)
                                 /\ Short(p, q, r) => _inet_addr(w, junk) = inet_aton(w)
      ELSE inet_aton(w) = <<>>
  BY <1>6, <1>7
<1> QED BY <1>8 DEF AddressesAreRead, dots, Splits, Read, Short

-----------------------------------------------------------------------------
(* Names. *)

LEMMA SameSequence ==
  ASSUME NEW S, NEW s \in Seq(S), NEW t \in Seq(S), Len(s) = Len(t), \A k \in 1 .. Len(s) : s[k] = t[k]
  PROVE  s = t
OBVIOUS

LEMMA PartOf ==
  ASSUME NEW S, NEW s \in Seq(S), NEW a \in Nat, NEW b \in Nat, 1 <= a, a <= b + 1, b <= Len(s)
  PROVE  /\ SubSeq(s, a, b) \in Seq(S)
         /\ Len(SubSeq(s, a, b)) = (b + 1) - a
         /\ \A k \in 1 .. (b + 1) - a : SubSeq(s, a, b)[k] = s[(a + k) - 1]
<1>1. SubSeq(s, a, b) \in Seq(S)
  OBVIOUS
<1>2. Len(SubSeq(s, a, b)) = (b + 1) - a
  OBVIOUS
<1>3. \A k \in 1 .. (b + 1) - a : SubSeq(s, a, b)[k] = s[(a + k) - 1]
  OBVIOUS
<1> QED BY <1>1, <1>2, <1>3

(* The words before each place, each with its blank.                        *)
Joins(c, last, f) ==
    f = [i \in 2 .. last |-> IF i = 2 THEN NoText ELSE f[i - 1] \o c.argv[i - 1] \o Blank]

LEMMA JoiningExists ==
  ASSUME NEW c
  PROVE  \A n \in Nat : \E f : Joins(c, 2 + n, f)
<1> DEFINE S == {n \in Nat : \E f : Joins(c, 2 + n, f)}
<1>1. 0 \in S
  <2> DEFINE f == [i \in 2 .. 2 |-> NoText]
  <2>1. f = [i \in 2 .. 2 |-> IF i = 2 THEN NoText ELSE f[i - 1] \o c.argv[i - 1] \o Blank]
    OBVIOUS
  <2> HIDE DEF f
  <2>2. Joins(c, 2, f) /\ 2 + 0 = 2
    BY <2>1 DEF Joins
  <2> QED BY <2>2
<1>2. ASSUME NEW n \in Nat, n \in S PROVE n + 1 \in S
  <2> DEFINE last == 2 + n
             next == 2 + (n + 1)
             Entry(f, i) == IF i = 2 THEN NoText ELSE f[i - 1] \o c.argv[i - 1] \o Blank
  <2>1. PICK f : f = [i \in 2 .. last |-> Entry(f, i)]
    BY <1>2 DEF Joins
  <2> DEFINE g == [i \in 2 .. next |-> IF i = next THEN Entry(f, next) ELSE f[i]]
  <2>2. \A i \in 2 .. next : i # 2 => i - 1 \in 2 .. next /\ i - 1 # next /\ i - 1 \in 2 .. last
    OBVIOUS
  <2>3. \A i \in 2 .. next : i # 2 => g[i - 1] = f[i - 1]
    BY <2>2
  <2>4. \A i \in 2 .. next : Entry(g, i) = Entry(f, i)
    <3> HIDE DEF g
    <3> QED BY <2>3
  <2>5. \A i \in 2 .. next : g[i] = Entry(f, i)
    <3>1. \A i \in 2 .. last : f[i] = Entry(f, i)
      BY <2>1
    <3>2. \A i \in 2 .. next : i = next \/ (i # next /\ i \in 2 .. last)
      OBVIOUS
    <3> HIDE DEF Entry
    <3> QED BY <3>1, <3>2
  <2>6. g = [i \in 2 .. next |-> g[i]]
    OBVIOUS
  <2> HIDE DEF g
  <2>7. g = [i \in 2 .. next |-> Entry(g, i)]
    <3> HIDE DEF Entry
    <3> QED BY <2>4, <2>5, <2>6
  <2> QED BY <2>7 DEF Joins
<1> HIDE DEF S
<1>3. \A n \in Nat : n \in S
  BY <1>1, <1>2, SetInduction
<1> QED BY <1>3 DEF S

LEMMA JoinedIs ==
  ASSUME NEW c, c.argc \in Nat, c.argc >= 2
  PROVE  /\ Joined(c)[2] = NoText
         /\ \A i \in 3 .. c.argc : Joined(c)[i] = Joined(c)[i - 1] \o c.argv[i - 1] \o Blank
<1> DEFINE before == CHOOSE f : Joins(c, c.argc, f)
<1>1. \E f : Joins(c, c.argc, f)
  <2> DEFINE n == c.argc - 2
  <2>1. n \in Nat /\ 2 + n = c.argc
    OBVIOUS
  <2> HIDE DEF n
  <2>2. \E f : Joins(c, 2 + n, f)
    BY <2>1, JoiningExists
  <2> QED BY <2>1, <2>2
<1>2. Joins(c, c.argc, before)
  BY <1>1
<1>3. Joined(c) = before
  BY DEF Joined, Joins
<1> HIDE DEF before
<1>4. \A i \in 2 .. c.argc : before[i] = IF i = 2 THEN NoText ELSE before[i - 1] \o c.argv[i - 1] \o Blank
  BY <1>2 DEF Joins
<1>5. before[2] = NoText /\ \A i \in 3 .. c.argc : before[i] = before[i - 1] \o c.argv[i - 1] \o Blank
  <2>1. 2 \in 2 .. c.argc /\ \A i \in 3 .. c.argc : i \in 2 .. c.argc /\ i # 2
    OBVIOUS
  <2>2. before[2] = NoText
    BY <1>4, <2>1
  <2>3. \A i \in 3 .. c.argc : before[i] = before[i - 1] \o c.argv[i - 1] \o Blank
    BY <1>4, <2>1
  <2> QED BY <2>2, <2>3
<1> QED BY <1>3, <1>5

(* One word more.                                                           *)
LongerBy(s, w, blank, t) ==
    /\ Len(t) = Len(s) + Len(w) + 1
    /\ \A k \in 1 .. Len(s) : t[k] = s[k]
    /\ \A k \in 1 .. Len(w) : t[Len(s) + k] = w[k]
    /\ t[Len(t)] = blank[1]

LEMMA OneWordMore ==
  ASSUME NEW Character, NEW s \in Seq(Character), NEW w \in Seq(Character),
         NEW blank \in Seq(Character), Len(blank) = 1
  PROVE  s \o w \o blank \in Seq(Character) /\ LongerBy(s, w, blank, s \o w \o blank)
<1> DEFINE u == s \o w
           t == u \o blank
<1>1. /\ u \in Seq(Character) /\ Len(u) = Len(s) + Len(w)
      /\ \A k \in 1 .. Len(s) : u[k] = s[k]
      /\ \A k \in 1 .. Len(w) : u[Len(s) + k] = w[k]
  BY Concatenated
<1> HIDE DEF u
<1>2. /\ t \in Seq(Character) /\ Len(t) = Len(u) + Len(blank)
      /\ \A k \in 1 .. Len(u) : t[k] = u[k]
      /\ \A k \in 1 .. Len(blank) : t[Len(u) + k] = blank[k]
  <2>1. u \in Seq(Character)
    BY <1>1
  <2>2. t \in Seq(Character) /\ Len(t) = Len(u) + Len(blank)
    BY <2>1, Concatenated
  <2>3. \A k \in 1 .. Len(u) : t[k] = u[k]
    BY <2>1, Concatenated
  <2>4. \A k \in 1 .. Len(blank) : t[Len(u) + k] = blank[k]
    BY <2>1, Concatenated
  <2> QED BY <2>2, <2>3, <2>4
<1> HIDE DEF t
<1>3. \A k \in 1 .. Len(s) : k \in 1 .. Len(u)
  BY <1>1
<1>4. \A k \in 1 .. Len(w) : Len(s) + k \in 1 .. Len(u)
  BY <1>1
<1>5. t[Len(t)] = blank[1]
  <2>1. 1 \in 1 .. Len(blank) /\ Len(t) = Len(u) + 1
    BY <1>2
  <2> QED BY <1>2, <2>1
<1>6. Len(t) = Len(s) + Len(w) + 1
  BY <1>1, <1>2
<1>7. t \in Seq(Character) /\ LongerBy(s, w, blank, t)
  BY <1>1, <1>2, <1>3, <1>4, <1>5, <1>6 DEF LongerBy
<1> QED BY <1>7 DEF t, u

(* Everything that is known of the joined words.                            *)
JoinedWell(Character, c, f) ==
    /\ \A i \in 2 .. c.argc : f[i] \in Seq(Character)
    /\ Len(f[2]) = 0
    /\ \A i \in 2 .. c.argc - 1 : LongerBy(f[i], c.argv[i], Blank, f[i + 1])

WordsOf(Character, c) ==
    /\ c.argc \in Nat /\ c.argc >= 2
    /\ \A i \in 2 .. c.argc - 1 : c.argv[i] \in Seq(Character)
    /\ Blank \in Seq(Character) /\ Len(Blank) = 1
    /\ NoText \in Seq(Character) /\ Len(NoText) = 0

LEMMA JoinedHolds ==
  ASSUME NEW Character, NEW c, WordsOf(Character, c)
  PROVE  JoinedWell(Character, c, Joined(c))
<1> DEFINE f == Joined(c)
           argc == c.argc
<1>1. argc \in Nat /\ argc >= 2
  BY DEF WordsOf
<1>2. f[2] = NoText /\ \A i \in 3 .. argc : f[i] = f[i - 1] \o c.argv[i - 1] \o Blank
  BY <1>1, JoinedIs
<1> HIDE DEF f, argc
<1>3. \A i \in 2 .. argc - 1 : f[i + 1] = f[i] \o c.argv[i] \o Blank
  <2> TAKE i \in 2 .. argc - 1
  <2>1. i + 1 \in 3 .. argc /\ (i + 1) - 1 = i
    BY <1>1
  <2> QED BY <1>2, <2>1
<1>4. \A i \in 2 .. argc - 1 : c.argv[i] \in Seq(Character)
  BY DEF WordsOf, argc
<1>5. /\ Blank \in Seq(Character) /\ Len(Blank) = 1
      /\ NoText \in Seq(Character) /\ Len(NoText) = 0
  BY DEF WordsOf
<1> DEFINE S == {n \in Nat : 2 + n <= argc => f[2 + n] \in Seq(Character)}
<1>6. 0 \in S
  <2>1. f[2] \in Seq(Character) /\ 2 + 0 = 2
    BY <1>2, <1>5
  <2> QED BY <2>1
<1>7. ASSUME NEW n \in Nat, n \in S PROVE n + 1 \in S
  <2>1. SUFFICES ASSUME 2 + (n + 1) <= argc PROVE f[2 + (n + 1)] \in Seq(Character)
    BY DEF S
  <2> DEFINE i == 2 + n
  <2>2. i \in 2 .. argc - 1 /\ f[i] \in Seq(Character) /\ 2 + (n + 1) = i + 1
    BY <1>1, <1>7, <2>1
  <2> HIDE DEF i
  <2>3. f[i + 1] \in Seq(Character)
    <3> DEFINE s == f[i]
               w == c.argv[i]
    <3>1. s \in Seq(Character) /\ w \in Seq(Character)
      BY <1>4, <2>2
    <3>2. f[i + 1] = s \o w \o Blank
      BY <1>3, <2>2
    <3> HIDE DEF s, w
    <3>3. s \o w \o Blank \in Seq(Character)
      BY <1>5, <3>1, OneWordMore
    <3> QED BY <3>2, <3>3
  <2> QED BY <2>2, <2>3
<1> HIDE DEF S
<1>8. \A n \in Nat : n \in S
  BY <1>6, <1>7, SetInduction
<1>9. \A i \in 2 .. argc : f[i] \in Seq(Character)
  <2> TAKE i \in 2 .. argc
  <2>1. (i - 2) \in S /\ i - 2 \in Nat /\ 2 + (i - 2) = i /\ i <= argc
    BY <1>1, <1>8
  <2> QED BY <2>1 DEF S
<1>10. \A i \in 2 .. argc - 1 : LongerBy(f[i], c.argv[i], Blank, f[i + 1])
  <2> TAKE i \in 2 .. argc - 1
  <2>1. f[i] \in Seq(Character) /\ c.argv[i] \in Seq(Character)
    BY <1>1, <1>4, <1>9
  <2> DEFINE s == f[i]
             w == c.argv[i]
  <2>2. s \in Seq(Character) /\ w \in Seq(Character)
    BY <2>1
  <2>3. f[i + 1] = s \o w \o Blank
    BY <1>3
  <2> HIDE DEF s, w
  <2>4. LongerBy(s, w, Blank, s \o w \o Blank)
    BY <1>5, <2>2, OneWordMore
  <2>5. LongerBy(s, w, Blank, f[i + 1])
    BY <2>3, <2>4
  <2> QED BY <2>5 DEF s, w
<1>11. Len(f[2]) = 0
  BY <1>2, <1>5
<1> QED BY <1>9, <1>10, <1>11 DEF JoinedWell, f, argc

(* Joined words never change, and only grow.                                *)
Growing(argc, f, word) ==
    /\ \A i \in 2 .. argc : Len(f[i]) \in Nat
    /\ \A i \in 2 .. argc - 1 : LongerBy(f[i], word[i], Blank, f[i + 1]) /\ Len(word[i]) \in Nat

Grown(f, i, n) ==
    /\ Len(f[i]) + n <= Len(f[i + n])
    /\ \A k \in 1 .. Len(f[i]) : f[i + n][k] = f[i][k]

LEMMA JoinedGrows ==
  ASSUME NEW argc \in Nat, NEW f, NEW word, Growing(argc, f, word), NEW i \in 2 .. argc
  PROVE  \A n \in Nat : i + n <= argc => Grown(f, i, n)
<1> DEFINE S == {n \in Nat : i + n <= argc => Grown(f, i, n)}
<1>1. 0 \in S
  <2>1. Len(f[i]) \in Nat /\ i + 0 = i
    BY DEF Growing
  <2>2. Grown(f, i, 0)
    BY <2>1 DEF Grown
  <2> QED BY <2>2
<1>2. ASSUME NEW n \in Nat, n \in S PROVE n + 1 \in S
  <2>1. SUFFICES ASSUME i + (n + 1) <= argc PROVE Grown(f, i, n + 1)
    OBVIOUS
  <2> DEFINE j == i + n
             s == f[i]
             t == f[j]
             u == f[j + 1]
  <2>2. j \in 2 .. argc - 1 /\ j + 1 \in 2 .. argc /\ j \in 2 .. argc /\ i + (n + 1) = j + 1 /\ i + n = j
    BY <2>1
  <2>3. Len(s) + n <= Len(t) /\ \A k \in 1 .. Len(s) : t[k] = s[k]
    BY <1>2, <2>2 DEF Grown
  <2>4. LongerBy(t, word[j], Blank, u) /\ Len(word[j]) \in Nat
    BY <2>2 DEF Growing
  <2>5. Len(s) \in Nat /\ Len(t) \in Nat /\ Len(u) \in Nat
    BY <2>2 DEF Growing
  <2> HIDE DEF j, s, t, u
  <2>6. Len(u) = Len(t) + Len(word[j]) + 1 /\ \A k \in 1 .. Len(t) : u[k] = t[k]
    BY <2>4 DEF LongerBy
  <2>7. Len(s) + (n + 1) <= Len(u)
    BY <2>3, <2>4, <2>5, <2>6
  <2>8. \A k \in 1 .. Len(s) : u[k] = s[k]
    <3>1. \A k \in 1 .. Len(s) : k \in 1 .. Len(t)
      BY <2>3, <2>5
    <3> QED BY <2>3, <2>6, <3>1
  <2>9. f[i + (n + 1)] = u /\ f[i] = s
    BY <2>2 DEF u, s
  <2> QED BY <2>7, <2>8, <2>9 DEF Grown
<1> HIDE DEF S
<1>3. \A n \in Nat : n \in S
  BY <1>1, <1>2, SetInduction
<1> QED BY <1>3 DEF S

Offsets(c, f) == f = [i \in 2 .. c.argc |-> IF i = 2 THEN 0 ELSE f[i - 1] + Len(c.argv[i - 1]) + 1]

LEMMA NamesJoined ==
  ASSUME NEW Character, NEW c, WordsOf(Character, c)
  PROVE  NamesAreJoined(c)
<1> DEFINE argc == c.argc
           f == Joined(c)
           word == c.argv
           name == Ssid(c)
           offset == CHOOSE g : Offsets(c, g)
<1>1. SUFFICES ASSUME argc > 3
      PROVE  /\ TooLong(c) <=> offset[argc] - 1 > 32
             /\ Len(name) = offset[argc] - 1
             /\ \A i \in 2 .. argc - 1 :
                   /\ SubSeq(name, offset[i] + 1, offset[i + 1] - 1) = word[i]
                   /\ i > 2 => Char(name, offset[i]) = Blank
  BY DEF NamesAreJoined, Offsets
<1>2. argc \in Nat /\ \A i \in 2 .. argc - 1 : word[i] \in Seq(Character)
  BY DEF WordsOf
<1>3. Blank \in Seq(Character) /\ Len(Blank) = 1
  BY DEF WordsOf
<1>4. /\ \A i \in 2 .. argc : f[i] \in Seq(Character)
      /\ Len(f[2]) = 0
      /\ \A i \in 2 .. argc - 1 : LongerBy(f[i], word[i], Blank, f[i + 1])
  BY JoinedHolds DEF JoinedWell
<1>5. name = SubSeq(f[argc], 1, Len(f[argc]) - 1)
  BY <1>1, <1>2 DEF Ssid
<1>6. TooLong(c) <=> \E i \in 2 .. argc - 1 : Len(f[i]) + Len(word[i]) > 32
  BY DEF TooLong
<1>7. \E g : Offsets(c, g)
  <2> DEFINE g == [i \in 2 .. argc |-> Len(f[i])]
  <2>1. \A i \in 2 .. argc : Len(f[i]) = IF i = 2 THEN 0 ELSE Len(f[i - 1]) + Len(word[i - 1]) + 1
    <3> TAKE i \in 2 .. argc
    <3>1. CASE i = 2
      BY <1>4, <3>1
    <3>2. CASE i # 2
      <4>1. i - 1 \in 2 .. argc - 1 /\ (i - 1) + 1 = i
        BY <1>2, <3>2
      <4>2. LongerBy(f[i - 1], word[i - 1], Blank, f[i])
        BY <1>4, <4>1
      <4> QED BY <3>2, <4>2 DEF LongerBy
    <3> QED BY <3>1, <3>2
  <2>2. \A i \in 2 .. argc : i # 2 => i - 1 \in 2 .. argc
    BY <1>2
  <2>3. g = [i \in 2 .. argc |-> IF i = 2 THEN 0 ELSE g[i - 1] + Len(word[i - 1]) + 1]
    <3> HIDE DEF f, word, argc
    <3>1. \A i \in 2 .. argc : g[i] = IF i = 2 THEN 0 ELSE g[i - 1] + Len(word[i - 1]) + 1
      BY <2>1, <2>2
    <3>2. g = [i \in 2 .. argc |-> g[i]]
      OBVIOUS
    <3> HIDE DEF g
    <3> QED BY <3>1, <3>2
  <2> HIDE DEF g
  <2>4. Offsets(c, g)
    BY <2>3 DEF Offsets
  <2> QED BY <2>4
<1>8. Offsets(c, offset)
  BY <1>7
<1> HIDE DEF offset, name, f, word, argc
<1>9. \A i \in 2 .. argc : offset[i] = IF i = 2 THEN 0 ELSE offset[i - 1] + Len(word[i - 1]) + 1
  BY <1>8 DEF Offsets, argc, word
<1>10. \A i \in 2 .. argc - 1 : Len(word[i]) \in Nat
  BY <1>2
<1>11. \A i \in 2 .. argc : Len(f[i]) \in Nat
  BY <1>4
<1>12. \A i \in 2 .. argc : offset[i] = Len(f[i])
  <2> DEFINE S == {n \in Nat : 2 + n <= argc => offset[2 + n] = Len(f[2 + n])}
  <2>1. 0 \in S
    <3>1. offset[2] = Len(f[2]) /\ 2 + 0 = 2
      BY <1>1, <1>2, <1>4, <1>9
    <3> QED BY <3>1
  <2>2. ASSUME NEW n \in Nat, n \in S PROVE n + 1 \in S
    <3>1. SUFFICES ASSUME 2 + (n + 1) <= argc PROVE offset[2 + (n + 1)] = Len(f[2 + (n + 1)])
      BY DEF S
    <3> DEFINE i == 2 + n
    <3>2. i \in 2 .. argc - 1 /\ i + 1 \in 2 .. argc /\ i + 1 # 2 /\ (i + 1) - 1 = i /\ 2 + (n + 1) = i + 1
      BY <1>2, <3>1
    <3>3. offset[i] = Len(f[i])
      BY <1>2, <2>2, <3>1
    <3> HIDE DEF i
    <3>4. offset[i + 1] = offset[i] + Len(word[i]) + 1
      BY <1>9, <3>2
    <3>5. Len(f[i + 1]) = Len(f[i]) + Len(word[i]) + 1
      BY <1>4, <3>2 DEF LongerBy
    <3> QED BY <3>2, <3>3, <3>4, <3>5
  <2> HIDE DEF S
  <2>3. \A n \in Nat : n \in S
    BY <2>1, <2>2, SetInduction
  <2> TAKE i \in 2 .. argc
  <2>4. (i - 2) \in S /\ i - 2 \in Nat /\ 2 + (i - 2) = i /\ i <= argc
    BY <1>2, <2>3
  <2> QED BY <2>4 DEF S
<1>13. \A i \in 2 .. argc : /\ Len(f[i]) <= Len(f[argc])
                            /\ \A k \in 1 .. Len(f[i]) : f[argc][k] = f[i][k]
  <2> TAKE i \in 2 .. argc
  <2> DEFINE n == argc - i
  <2>1. n \in Nat /\ i + n = argc /\ argc >= 2 /\ i + n <= argc
    BY <1>2
  <2> HIDE DEF n
  <2>2. Len(f[i]) + n <= Len(f[i + n]) /\ \A k \in 1 .. Len(f[i]) : f[i + n][k] = f[i][k]
    <3>1. \A m \in Nat : i + m <= argc => Grown(f, i, m)
      <4>1. Growing(argc, f, word)
        BY <1>4, <1>10, <1>11 DEF Growing
      <4> QED BY <1>2, <4>1, JoinedGrows
    <3> QED BY <2>1, <3>1 DEF Grown
  <2>3. Len(f[i]) + n <= Len(f[argc]) /\ \A k \in 1 .. Len(f[i]) : f[argc][k] = f[i][k]
    BY <2>1, <2>2
  <2>4. Len(f[i]) \in Nat /\ Len(f[argc]) \in Nat
    <3>1. argc \in 2 .. argc
      BY <1>2, <2>1
    <3> QED BY <1>11, <3>1
  <2>5. Len(f[i]) <= Len(f[argc])
    BY <2>1, <2>3, <2>4
  <2> QED BY <2>3, <2>5
<1> DEFINE all == f[argc]
           long == Len(all)
<1>14. /\ all \in Seq(Character) /\ long \in Nat /\ long >= 1 /\ offset[argc] = long
       /\ \A i \in 2 .. argc - 1 : i + 1 \in 2 .. argc /\ i \in 2 .. argc
  <2>1. argc \in 2 .. argc /\ 3 \in 2 .. argc /\ 2 \in 2 .. argc - 1 /\ 2 + 1 = 3
    BY <1>1, <1>2
  <2>2. Len(f[3]) = Len(f[2]) + Len(word[2]) + 1
    BY <1>4, <2>1 DEF LongerBy
  <2>3. Len(f[3]) >= 1
    BY <1>4, <1>10, <2>1, <2>2
  <2>4. Len(f[3]) <= Len(f[argc]) /\ Len(f[argc]) \in Nat /\ Len(f[3]) \in Nat
    BY <1>11, <1>13, <2>1
  <2>5. \A i \in 2 .. argc - 1 : i + 1 \in 2 .. argc /\ i \in 2 .. argc
    BY <1>2
  <2> QED BY <1>4, <1>12, <2>1, <2>3, <2>4, <2>5
<1>15. name \in Seq(Character) /\ Len(name) = long - 1 /\ \A k \in 1 .. long - 1 : name[k] = all[k]
  <2> HIDE DEF all
  <2> DEFINE b == long - 1
  <2>1. b \in Nat /\ 1 <= b + 1 /\ b <= Len(all) /\ (b + 1) - 1 = b /\ \A k \in 1 .. b : (1 + k) - 1 = k
    BY <1>14
  <2>2. name = SubSeq(all, 1, b)
    BY <1>5 DEF all
  <2> HIDE DEF b
  <2>3. /\ SubSeq(all, 1, b) \in Seq(Character)
        /\ Len(SubSeq(all, 1, b)) = (b + 1) - 1
        /\ \A k \in 1 .. (b + 1) - 1 : SubSeq(all, 1, b)[k] = all[(1 + k) - 1]
    BY <1>14, <2>1, PartOf
  <2>4. name \in Seq(Character) /\ Len(name) = b /\ \A k \in 1 .. b : name[k] = all[k]
    BY <2>1, <2>2, <2>3
  <2> QED BY <2>4 DEF b
<1> HIDE DEF all, long
<1>16. \A i \in 2 .. argc - 1 :
          /\ Len(f[i]) \in Nat /\ Len(word[i]) \in Nat
          /\ offset[i] = Len(f[i])
          /\ offset[i + 1] = Len(f[i]) + Len(word[i]) + 1
          /\ Len(f[i]) + Len(word[i]) <= long - 1
          /\ \A k \in 1 .. Len(word[i]) : all[Len(f[i]) + k] = word[i][k]
  <2> TAKE i \in 2 .. argc - 1
  <2>1. i \in 2 .. argc /\ i + 1 \in 2 .. argc
    BY <1>14
  <2>2. /\ Len(f[i + 1]) = Len(f[i]) + Len(word[i]) + 1
        /\ \A k \in 1 .. Len(word[i]) : f[i + 1][Len(f[i]) + k] = word[i][k]
    BY <1>4 DEF LongerBy
  <2>3. Len(f[i]) \in Nat /\ Len(word[i]) \in Nat
    BY <1>10, <1>11, <2>1
  <2>4. Len(f[i + 1]) <= long /\ \A k \in 1 .. Len(f[i + 1]) : all[k] = f[i + 1][k]
    BY <1>13, <2>1 DEF long, all
  <2>5. \A k \in 1 .. Len(word[i]) : Len(f[i]) + k \in 1 .. Len(f[i + 1])
    <3> DEFINE x == Len(f[i])
               y == Len(word[i])
    <3>1. x \in Nat /\ y \in Nat /\ Len(f[i + 1]) = x + y + 1
      BY <2>2, <2>3
    <3> HIDE DEF x, y
    <3>2. \A k \in 1 .. y : x + k \in 1 .. x + y + 1
      BY <3>1
    <3> QED BY <3>1, <3>2 DEF x, y
  <2>6. \A k \in 1 .. Len(word[i]) : all[Len(f[i]) + k] = word[i][k]
    BY <2>2, <2>4, <2>5
  <2>7. Len(f[i]) + Len(word[i]) <= long - 1
    <3> DEFINE x == Len(f[i])
               y == Len(word[i])
    <3>1. x \in Nat /\ y \in Nat /\ x + y + 1 <= long
      BY <2>2, <2>3, <2>4
    <3> HIDE DEF x, y
    <3>2. x + y <= long - 1
      BY <1>14, <3>1
    <3> QED BY <3>2 DEF x, y
  <2> QED BY <1>12, <2>1, <2>2, <2>3, <2>6, <2>7
<1>17. TooLong(c) <=> offset[argc] - 1 > 32
  <2>1. ASSUME NEW i \in 2 .. argc - 1, Len(f[i]) + Len(word[i]) > 32 PROVE long - 1 > 32
    <3> DEFINE x == Len(f[i])
               y == Len(word[i])
    <3>1. x \in Nat /\ y \in Nat /\ x + y <= long - 1 /\ x + y > 32
      BY <1>16, <2>1
    <3> HIDE DEF x, y
    <3> QED BY <1>14, <3>1
  <2>2. ASSUME long - 1 > 32 PROVE \E i \in 2 .. argc - 1 : Len(f[i]) + Len(word[i]) > 32
    <3> DEFINE i == argc - 1
    <3>1. i \in 2 .. argc - 1 /\ i + 1 = argc
      BY <1>1, <1>2
    <3> HIDE DEF i
    <3>2. offset[argc] = Len(f[i]) + Len(word[i]) + 1 /\ Len(f[i]) \in Nat /\ Len(word[i]) \in Nat
      BY <1>16, <3>1
    <3>3. Len(f[i]) + Len(word[i]) > 32
      <4> DEFINE x == Len(f[i])
                 y == Len(word[i])
      <4>1. x \in Nat /\ y \in Nat /\ long = x + y + 1
        BY <1>14, <3>2
      <4> HIDE DEF x, y
      <4>2. x + y > 32
        BY <1>14, <2>2, <4>1
      <4> QED BY <4>2 DEF x, y
    <3> QED BY <3>1, <3>3
  <2> QED BY <1>6, <1>14, <2>1, <2>2
<1>18. Len(name) = offset[argc] - 1
  BY <1>14, <1>15
<1>19. ASSUME NEW i \in 2 .. argc - 1 PROVE SubSeq(name, offset[i] + 1, offset[i + 1] - 1) = word[i]
  <2> DEFINE from == Len(f[i])
             w == word[i]
             a == from + 1
             b == from + Len(w)
             part == SubSeq(name, a, b)
  <2>1. w \in Seq(Character) /\ from \in Nat /\ Len(w) \in Nat /\ b <= Len(name)
    BY <1>2, <1>15, <1>16
  <2>2. offset[i] + 1 = a /\ offset[i + 1] - 1 = b
    <3>1. offset[i] = from /\ offset[i + 1] = from + Len(w) + 1
      BY <1>16
    <3> HIDE DEF from, w
    <3>2. offset[i + 1] - 1 = from + Len(w)
      BY <2>1, <3>1
    <3> QED BY <3>1, <3>2
  <2>3. \A k \in 1 .. Len(w) : all[from + k] = w[k]
    BY <1>16
  <2> HIDE DEF from, w
  <2>4. a \in Nat /\ b \in Nat /\ 1 <= a /\ a <= b + 1 /\ (b + 1) - a = Len(w)
    BY <2>1
  <2>5. \A k \in 1 .. Len(w) : (a + k) - 1 = from + k /\ from + k \in 1 .. long - 1
    BY <1>14, <1>15, <2>1
  <2> HIDE DEF a, b
  <2>6. /\ SubSeq(name, a, b) \in Seq(Character)
        /\ Len(SubSeq(name, a, b)) = (b + 1) - a
        /\ \A k \in 1 .. (b + 1) - a : SubSeq(name, a, b)[k] = name[(a + k) - 1]
    BY <1>15, <2>1, <2>4, PartOf
  <2> HIDE DEF part
  <2>7. part \in Seq(Character) /\ Len(part) = Len(w)
    BY <2>4, <2>6 DEF part
  <2>8. \A k \in 1 .. Len(part) : part[k] = w[k]
    <3> TAKE k \in 1 .. Len(part)
    <3>1. k \in 1 .. Len(w) /\ k \in 1 .. (b + 1) - a
      BY <2>4, <2>7
    <3>2. part[k] = name[(a + k) - 1]
      BY <2>6, <3>1 DEF part
    <3>3. name[from + k] = all[from + k]
      BY <1>15, <2>5, <3>1
    <3> QED BY <2>3, <2>5, <3>1, <3>2, <3>3
  <2>9. part = w
    BY <2>1, <2>7, <2>8, SameSequence
  <2> QED BY <2>2, <2>9 DEF part, w
<1>20. ASSUME NEW i \in 2 .. argc - 1, i > 2 PROVE Char(name, offset[i]) = Blank
  <2> DEFINE o == Len(f[i])
             h == i - 1
             part == SubSeq(name, o, o)
  <2>1. h \in 2 .. argc - 1 /\ h + 1 = i /\ i \in 2 .. argc
    BY <1>2, <1>20
  <2>2. f[i][Len(f[i])] = Blank[1] /\ Len(f[i]) = Len(f[h]) + Len(word[h]) + 1
    BY <1>4, <2>1 DEF LongerBy
  <2>3. o \in Nat /\ o >= 1 /\ o <= long - 1 /\ offset[i] = o
    <3> DEFINE y == Len(word[i])
               x == Len(f[h])
               z == Len(word[h])
    <3>1. o \in Nat /\ y \in Nat /\ o + y <= long - 1 /\ offset[i] = o
      BY <1>16
    <3>2. x \in Nat /\ z \in Nat
      BY <1>16, <2>1
    <3>3. o = x + z + 1
      BY <2>2
    <3> HIDE DEF o, x, y, z
    <3> QED BY <1>14, <3>1, <3>2, <3>3
  <2>4. all[o] = f[i][o]
    <3>1. o \in 1 .. Len(f[i])
      BY <2>3
    <3> QED BY <1>13, <2>1, <3>1 DEF all
  <2>5. f[i][o] = Blank[1]
    BY <2>2
  <2> HIDE DEF o, h
  <2>6. name[o] = Blank[1] /\ o \in 1 .. Len(name)
    BY <1>14, <1>15, <2>3, <2>4, <2>5
  <2>7. /\ SubSeq(name, o, o) \in Seq(Character)
        /\ Len(SubSeq(name, o, o)) = (o + 1) - o
        /\ \A k \in 1 .. (o + 1) - o : SubSeq(name, o, o)[k] = name[(o + k) - 1]
    <3>1. 1 <= o /\ o <= o + 1 /\ o <= Len(name)
      BY <2>3, <2>6
    <3> QED BY <1>15, <2>3, <3>1, PartOf
  <2> HIDE DEF part
  <2>8. part \in Seq(Character) /\ Len(part) = 1 /\ part[1] = name[o]
    <3>1. (o + 1) - o = 1 /\ (o + 1) - 1 = o /\ 1 \in 1 .. (o + 1) - o
      BY <2>3
    <3> QED BY <2>7, <3>1 DEF part
  <2>9. part = Blank
    <3>1. \A k \in 1 .. Len(part) : part[k] = Blank[k]
      <4>1. \A k \in 1 .. Len(part) : k = 1
        BY <2>8
      <4> QED BY <2>6, <2>8, <4>1
    <3> QED BY <1>3, <2>8, <3>1, SameSequence
  <2>10. Char(name, o) = part
    BY <2>6 DEF Char, part
  <2> QED BY <2>3, <2>9, <2>10
<1> QED BY <1>17, <1>18, <1>19, <1>20

-----------------------------------------------------------------------------
(* What every line means. *)

(* A word is a sequence of characters, and so are the two strings of the    *)
(* model that are joined with words.                                        *)
WordsAreText(Character) ==
    /\ \A line \in Lines : \A i \in 1 .. Len(line) : line[i] \in Seq(Character)
    /\ Blank \in Seq(Character) /\ Len(Blank) = 1
    /\ NoText \in Seq(Character) /\ Len(NoText) = 0

LEMMA LineIsRead ==
  ASSUME NEW line \in Lines \cup Typed, NEW c \in CommandLines(line)
  PROVE  /\ Len(line) \in Nat /\ Len(line) >= 1 /\ c.argc = Len(line)
         /\ \A i \in 0 .. Len(line) - 1 : c.argv[i] = line[i + 1]
<1>1. PICK left \in Leftovers, junk \in Junk, host \in Hosts :
         c = [argc |-> Len(line), junk |-> junk, host |-> host,
              argv |-> [i \in 0 .. Len(line) + 4 |-> IF i < Len(line) THEN line[i + 1] ELSE left]]
  BY DEF CommandLines
<1>2. Len(line) \in Nat /\ Len(line) >= 1
  <2>1. line \in Seq(STRING) /\ line # <<>>
    BY WlanAssumption
  <2> QED BY <2>1
<1>3. \A i \in 0 .. Len(line) - 1 : i \in 0 .. Len(line) + 4 /\ i < Len(line)
  BY <1>2
<1> QED BY <1>1, <1>2, <1>3

LEMMA OptionsMean ==
  ASSUME NEW line \in Lines \cup Typed, NEW c \in CommandLines(line)
  PROVE  OptionsMeanWhatTheySay(line, c)
<1>1. c.argc \in Nat /\ c.argc >= 1
  BY LineIsRead
<1>2. \A j, k \in DOMAIN PmNames : PmNames[j] = PmNames[k] => j = k
  BY DEF PmNames
<1>3. \A j, k \in DOMAIN PingNames : PingNames[j] = PingNames[k] => j = k
  BY DEF PingNames
<1>4. OptionsAreRead(c, PmNames, TRUE)
  BY <1>1, <1>2, OptionsRead
<1>5. OptionsAreRead(c, PingNames, FALSE)
  BY <1>1, <1>3, OptionsRead
<1> QED BY <1>4, <1>5 DEF OptionsMeanWhatTheySay

LEMMA WordsMean ==
  ASSUME NEW Character, WordsAreText(Character), NEW line \in Lines, NEW c \in CommandLines(line)
  PROVE  WordsMeanWhatTheySay(line, c)
<1>1. /\ Len(line) \in Nat /\ Len(line) >= 1 /\ c.argc = Len(line)
      /\ \A i \in 0 .. Len(line) - 1 : c.argv[i] = line[i + 1]
  BY LineIsRead
<1>2. \A i \in 1 .. Len(line) : line[i] \in Seq(Character)
  BY DEF WordsAreText
<1>3. ASSUME Setting(line) PROVE NamesAreJoined(c)
  <2>1. Len(line) > 1
    BY <1>3 DEF Setting
  <2>2. \A i \in 2 .. c.argc - 1 : i + 1 \in 1 .. Len(line) /\ i \in 0 .. Len(line) - 1
    BY <1>1
  <2>3. \A i \in 2 .. c.argc - 1 : c.argv[i] \in Seq(Character)
    BY <1>1, <1>2, <2>2
  <2>4. WordsOf(Character, c)
    BY <1>1, <2>1, <2>3 DEF WordsOf, WordsAreText
  <2> QED BY <2>4, NamesJoined
<1>4. \A i \in 2 .. Len(line) : AddressesAreRead(line[i], c.junk)
  <2> TAKE i \in 2 .. Len(line)
  <2>1. line[i] \in Seq(Character)
    BY <1>1, <1>2
  <2> QED BY <2>1, AddressesRead
<1> QED BY <1>3, <1>4 DEF WordsMeanWhatTheySay

LEMMA LinesMean ==
  ASSUME NEW Character, WordsAreText(Character)
  PROVE  LinesMeanWhatTheySay
<1> SUFFICES ASSUME NEW line \in Lines, NEW c \in CommandLines(line)
             PROVE  /\ OptionsMeanWhatTheySay(line, c)
                    /\ WordsMeanWhatTheySay(line, c)
                    /\ \A seen \in Answers : \A v \in {cust_cmds(c, seen)} :
                          RefusedReachesNothing(line, v) /\ ChannelsFit(v.calls, seen.country)
  BY DEF LinesMeanWhatTheySay
<1>1. line \in Lines \cup Typed
  OBVIOUS
<1>2. OptionsMeanWhatTheySay(line, c)
  BY <1>1, OptionsMean
<1>3. WordsMeanWhatTheySay(line, c)
  BY WordsMean
<1>4. \A seen \in Answers : /\ RefusedReachesNothing(line, cust_cmds(c, seen))
                            /\ ChannelsFit(cust_cmds(c, seen).calls, seen.country)
  BY <1>1, VerdictsHold
<1> QED BY <1>2, <1>3, <1>4

-----------------------------------------------------------------------------
(* What a command has asked the chip. *)

WlanInv ==
    /\ IsChip(chip)
    /\ AnswersHold
    /\ shell # NoCommand => shell[1] \in Typed

LEMMA InitiallyNothingAsked == WlanInit => WlanInv
BY DEF WlanInit, WlanInv, IsChip, ChipAtReset, AnswersHold

LEMMA CloudKeepsAnswers ==
  ASSUME IsChip(chip), CloudThread
  PROVE  IsChip(chip') /\ KeepsAnswers(chip, chip') /\ shell' = shell
<1> DEFINE Quiet(calls) == Len(calls) \in Nat /\ \A k \in 1 .. Len(calls) : OfCloudThread(calls[k])
           Kept == IsChip(chip') /\ KeepsAnswers(chip, chip')
<1>1. ASSUME NEW from, NEW to, NEW calls, Cloud(from, to, calls), Quiet(calls) PROVE Kept
  BY <1>1, AfterCalls DEF Cloud
<1>2. Quiet(<<>>)
  OBVIOUS
<1>3. \A call : OfCloudThread(call) => Quiet(<<call>>)
  <2> TAKE call
  <2> HAVE OfCloudThread(call)
  <2>1. Len(<<call>>) = 1 /\ <<call>>[1] = call
    OBVIOUS
  <2> QED BY <2>1
<1>4. \A call, more : OfCloudThread(call) /\ OfCloudThread(more) => Quiet(<<call, more>>)
  <2> TAKE call, more
  <2> HAVE OfCloudThread(call) /\ OfCloudThread(more)
  <2>1. Len(<<call, more>>) = 2 /\ <<call, more>>[1] = call /\ <<call, more>>[2] = more
    OBVIOUS
  <2> QED BY <2>1
<1>5. /\ OfCloudThread(<<"qcom_watchdog", 0, 60>>) /\ OfCloudThread(<<"qcom_watchdog", 2, 60>>)
      /\ OfCloudThread(<<"qcom_op_set_mode", "station">>)
      /\ OfCloudThread(<<"qcom_sta_connect_with_scan", "ssid">>)
      /\ OfCloudThread(<<"qcom_sec_set_passphrase", "password">>)
      /\ OfCloudThread(<<"qcom_ip_address_set", NoAddress>>)
      /\ OfCloudThread(<<"qcom_disconnect">>)
      /\ OfCloudThread(<<"qcom_dhcpc_enable", 1>>)
      /\ OfCloudThread(<<"qcom_dnsc_enable", 1>>)
  BY DEF OfCloudThread
<1> DEFINE c1 == << <<"qcom_watchdog", 0, 60>> >>
           c2 == << <<"qcom_op_set_mode", "station">> >>
           c3 == << <<"qcom_sta_connect_with_scan", "ssid">>, <<"qcom_sec_set_passphrase", "password">> >>
           c4 == << <<"qcom_ip_address_set", NoAddress>> >>
           c5 == << <<"qcom_disconnect">> >>
           c6 == << <<"qcom_dhcpc_enable", 1>> >>
           c7 == << <<"qcom_dnsc_enable", 1>> >>
           c8 == << <<"qcom_watchdog", 2, 60>> >>
<1>6. Quiet(c1) /\ Quiet(c2) /\ Quiet(c3) /\ Quiet(c4) /\ Quiet(c5) /\ Quiet(c6) /\ Quiet(c7) /\ Quiet(c8)
  <2> HIDE DEF Quiet
  <2> QED BY <1>3, <1>4, <1>5
<1>7. CASE QC_SetNetwork
  <2>1. \/ Cloud("begin", "mode", c1) \/ Cloud("mode", "connect", c2) \/ Cloud("connect", "look", c3)
        \/ Cloud("look", "ask", c4) \/ Cloud("look", "mode", c5)
    BY <1>7 DEF QC_SetNetwork
  <2> HIDE DEF Quiet, Kept, c1, c2, c3, c4, c5
  <2>2. Kept
    BY <1>1, <1>6, <2>1
  <2> QED BY <1>7, <2>2 DEF QC_SetNetwork, Kept
<1>8. CASE QC_GetDhcp
  <2>1. Cloud("ask", "check", c6) \/ Cloud("check", IF HasAddress THEN "dns" ELSE "ask", <<>>)
    BY <1>8 DEF QC_GetDhcp
  <2> HIDE DEF Quiet, Kept, c6
  <2>2. Kept
    BY <1>1, <1>2, <1>6, <2>1
  <2> QED BY <1>8, <2>2 DEF QC_GetDhcp, Kept
<1>9. CASE FindCloud
  <2>1. Cloud("dns", "lookup", c7) \/ Cloud("lookup", "lookup", <<>>) \/ Cloud("lookup", "online", c8)
    BY <1>9 DEF FindCloud
  <2> HIDE DEF Quiet, Kept, c7, c8
  <2>2. Kept
    BY <1>1, <1>2, <1>6, <2>1
  <2> QED BY <1>9, <2>2 DEF FindCloud, Kept
<1>10. CASE QC_Cloudfunc
  <2>1. Cloud("online", IF chip.link THEN "online" ELSE "begin", <<>>)
    BY <1>10 DEF QC_Cloudfunc
  <2> HIDE DEF Quiet, Kept
  <2>2. Kept
    BY <1>1, <1>2, <2>1
  <2> QED BY <1>10, <2>2 DEF QC_Cloudfunc, Kept
<1> QED BY <1>7, <1>8, <1>9, <1>10 DEF CloudThread

LEMMA ExecuteKeepsChip ==
  ASSUME IsChip(chip), NEW line \in Typed, NEW seen, Execute(line, seen)
  PROVE  IsChip(chip')
<1>1. PICK c \in CommandLines(line) : chip' = After(chip, cust_cmds(c, seen).calls)
  BY DEF Execute, Verdicts
<1> DEFINE calls == cust_cmds(c, seen).calls
<1>2. IsCalls(calls)
  <2>1. line \in Lines \cup Typed
    OBVIOUS
  <2> QED BY <2>1, VerdictsHold
<1> HIDE DEF calls
<1>3. Len(calls) \in Nat
  BY <1>2 DEF IsCalls
<1> QED BY <1>1, <1>3, AfterCalls DEF calls

LEMMA WlanStep == WlanInv /\ [WlanNext]_wlanVars => WlanInv'
<1> SUFFICES ASSUME WlanInv, [WlanNext]_wlanVars PROVE WlanInv'
  OBVIOUS
<1>0. IsChip(chip) /\ AnswersHold /\ (shell # NoCommand => shell[1] \in Typed)
  BY DEF WlanInv
<1>1. CASE CloudThread
  <2>1. IsChip(chip') /\ KeepsAnswers(chip, chip') /\ shell' = shell
    BY <1>0, <1>1, CloudKeepsAnswers
  <2> QED BY <1>0, <2>1 DEF WlanInv, AnswersHold, KeepsAnswers
<1>2. CASE Associate
  BY <1>0, <1>2 DEF Associate, WlanInv, IsChip, AnswersHold
<1>3. CASE LinkLost
  BY <1>0, <1>3 DEF LinkLost, WlanInv, IsChip, AnswersHold
<1>4. ASSUME NEW ip, DhcpAnswers(ip) PROVE WlanInv'
  BY <1>0, <1>4 DEF DhcpAnswers, WlanInv, IsChip, AnswersHold
<1>5. ASSUME NEW line \in Typed, Command(line) PROVE WlanInv'
  <2>1. IsChip(chip')
    BY <1>0, <1>5, ExecuteKeepsChip DEF Command
  <2>2. shell' = NoCommand
    BY <1>5 DEF Command
  <2> QED BY <2>1, <2>2 DEF WlanInv, AnswersHold, NoCommand
<1>6. ASSUME NEW line \in Typed, BeginCommand(line) PROVE WlanInv'
  <2>1. chip' = chip /\ shell' = <<line, [mode |-> chip.mode, country |-> chip.country]>>
    BY <1>6 DEF BeginCommand
  <2> QED BY <1>0, <2>1 DEF WlanInv, IsChip, AnswersHold
<1>7. CASE EndCommand
  <2>1. shell # NoCommand /\ Execute(shell[1], shell[2]) /\ shell' = NoCommand
    BY <1>7 DEF EndCommand
  <2>2. IsChip(chip')
    BY <1>0, <2>1, ExecuteKeepsChip
  <2> QED BY <2>1, <2>2 DEF WlanInv, AnswersHold, NoCommand
<1>8. CASE WatchdogBites
  BY <1>8 DEF WatchdogBites, WlanInv, IsChip, ChipAtReset, AnswersHold, NoCommand
<1>9. CASE UNCHANGED wlanVars
  BY <1>0, <1>9 DEF wlanVars, WlanInv, IsChip, AnswersHold
<1> QED BY <1>1, <1>2, <1>3, <1>4, <1>5, <1>6, <1>7, <1>8, <1>9 DEF WlanNext

(* What a command has asked the chip still holds when the command is        *)
(* executed, except that the cloud thread may have made a station of it     *)
(* (swat_parse.c:377 and 440, between asking and acting).                   *)
THEOREM AnswersStillHold == WlanSpec => []AnswersHold
<1>1. WlanInit => WlanInv
  BY InitiallyNothingAsked
<1>2. WlanInv /\ [WlanNext]_wlanVars => WlanInv'
  BY WlanStep
<1>3. WlanInv => AnswersHold
  BY DEF WlanInv
<1> QED BY <1>1, <1>2, <1>3, PTL DEF WlanSpec

(* Whatever lines are typed and whatever lies in the memory the code reads  *)
(* without having set it: a line that is refused reaches no function of the *)
(* chip, a channel is set only if the country has it, and options, names    *)
(* and addresses mean what they say (swat_parse.c:42 and what it calls).    *)
(* The hypothesis says that a string is a sequence of characters.           *)
THEOREM CommandsMean ==
  ASSUME NEW CONSTANT Character, WordsAreText(Character)
  PROVE  WlanSpec => []CommandsMeanWhatTheySay
<1>1. WlanInit => WlanInv
  BY InitiallyNothingAsked
<1>2. WlanInv /\ [WlanNext]_wlanVars => WlanInv'
  BY WlanStep
<1>3. LinesMeanWhatTheySay
  BY LinesMean
<1>4. WlanInv => CommandsMeanWhatTheySay
  BY <1>3 DEF WlanInv, CommandsMeanWhatTheySay
<1> QED BY <1>1, <1>2, <1>4, PTL DEF WlanSpec

=============================================================================
