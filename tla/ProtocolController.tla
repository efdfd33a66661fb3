------------------------- MODULE ProtocolController -------------------------
(***************************************************************************)
(* The protocol controller of the ZC module (zc_protocol_controller.c) in  *)
(* the execution environment that drives it (zc_qca_adpter.c): the cloud   *)
(* thread's endless loop, the UART thread that delivers the messages of    *)
(* the MCU (zc_moudle_manager.c), the timer callbacks (zc_timer.c) and the *)
(* cloud at the other end of the TCP connection.                           *)
(*                                                                         *)
(* The cloud thread is sequential; pc says which part of its loop comes    *)
(* next.  It gives up the processor at qcom_select, qcom_connect and       *)
(* qcom_thread_msleep, which are the boundaries between its steps:         *)
(*   "setnet"     QC_SetNetwork, waiting for the WLAN                      *)
(*   "recv"       top of the loop: remember the socket, QC_CloudRecvfunc   *)
(*   "run"        PCT_Run                                                  *)
(*   "connecting" inside QC_ConnectToCloud, blocked in qcom_connect        *)
(*   "tail"       after the LED delay: reconnect, or send one message      *)
(*   "wifi"       end of the loop: look at the state of the WLAN           *)
(*   "reboot"     inside QC_Reboot, about to reset the chip                *)
(*   "sniffer"    no network configured yet, waiting for the sniffer       *)
(* Timer callbacks and MCU messages are steps of their own and may come    *)
(* between any two of these.                                               *)
(***************************************************************************)
EXTENDS Timers, Sequences

CONSTANTS
  Fds,                        \* socket descriptors of the TCP/IP stack
  PCT_INVAILD_SOCKET,         \* not a descriptor
  CloudMsgs,                  \* messages the cloud may send
  SecSwitches,                \* values of u32SecSwitch that are configured
  MSG_BUFFER_SEND_MAX_NUM,    \* send buffers; 2 in zc_message_queue.h
  MSG_QUEUE_MAXLEN,           \* capacity of a message queue; 2
  PCT_SENDMOUDLE_NUM          \* retransmissions to the MCU; 4

VARIABLES
  mainState,      \* u8MainState
  keyRecv,        \* u8keyRecv: is there a session key
  secSwitch,      \* u32SecSwitch of the configuration
  timers,         \* timer table and handles
  u32Socket,      \* struCloudConnection.u32Socket
  openFds,        \* cloud sockets that are open in the TCP/IP stack
  connFd,         \* local fd of QC_ConnectToCloud
  fd,             \* local fd of QC_Cloudfunc
  pc,             \* where the cloud thread is
  recvBuf,        \* g_struRecvBuffer
  recvQ,          \* number of entries of g_struRecvQueue
  sendQ,          \* kinds of the messages in g_struSendQueue
  reSendNum,      \* u8ReSendMoudleNum
  mcuView         \* the last cloud status the MCU was told

vars == <<mainState, keyRecv, secSwitch, timers, u32Socket, openFds, connFd,
          fd, pc, recvBuf, recvQ, sendQ, reSendNum, mcuView>>

socketVars  == <<u32Socket, openFds, connFd>>
threadVars  == <<fd, pc>>
messageVars == <<recvBuf, recvQ, sendQ>>

MainStates == {"INIT", "ACCESS_NET", "WAIT_ACCESS", "WAIT_ACCESSRSP",
               "WAIT_MSG4", "CONNECT_CLOUD", "DISCONNECT_CLOUD"}

(* WAIT_ACCESSRSP <= u8MainState < DISCONNECT_CLOUD: the cloud is read.     *)
Receiving == {"WAIT_ACCESSRSP", "WAIT_MSG4", "CONNECT_CLOUD"}

(* ACCESS_NET <= u8MainState < DISCONNECT_CLOUD.                            *)
Registered == {"ACCESS_NET", "WAIT_ACCESS"} \cup Receiving

(* What PCT_Run tells apart in a message of the cloud: its code, the type   *)
(* of its security head, and whether its CRC and its echo of our random     *)
(* bytes are right.                                                         *)
Codes == {"HANDSHAKE_2", "ACCESS_POINT_RSP", "HANDSHAKE_4", "ZOTA",
          "ZOTA_CHUNK", "ZOTA_END", "OTA", "TOKEN_SET", "RESET_NETWORK",
          "OTHER"}
SecTypes == {"NONE", "RSA", "AES"}
Messages == [code : Codes, sec : SecTypes, crcOk : BOOLEAN, randOk : BOOLEAN]
NoMsg == [code |-> "NONE"]

SendKinds == {"MSG1", "MSG3", "HEART", "EMPTY", "ACK", "ERR", "DATA"}

ASSUME ConstantsAssumption ==
  /\ PCT_INVAILD_SOCKET \notin Fds
  /\ CloudMsgs \subseteq Messages
  /\ SecSwitches \subseteq 0 .. 2 /\ 1 \in SecSwitches
  /\ MSG_QUEUE_MAXLEN \in Nat \ {0}
  /\ MSG_BUFFER_SEND_MAX_NUM \in 1 .. MSG_QUEUE_MAXLEN   \* a push always fits
  /\ PCT_SENDMOUDLE_NUM \in Nat

-----------------------------------------------------------------------------
(* Security engine and message queues.                                     *)

(* A mutant of the next definition: the state of the key is not looked at.  *)
AesAlwaysEncrypts(key, switch) == TRUE

(* SEC_Encrypt of a message under AES, which needs the session key; switch  *)
(* 0 sends it in the clear.                                                 *)
AesEncrypts(key, switch) == switch = 0 \/ key = "RECVED"

(* SEC_Encrypt of MSG1 under RSA, which fails when the configured public    *)
(* key is unusable; switches 0 and 2 send it in the clear.                  *)
RsaEncryptResults == IF secSwitch = 1 THEN BOOLEAN ELSE {TRUE}

(* PCT_SendMsgToCloud: into the first idle send buffer, if there is one.    *)
Send(q, kind, key, switch) ==
  IF Len(q) < MSG_BUFFER_SEND_MAX_NUM /\ AesEncrypts(key, switch)
  THEN Append(q, kind)
  ELSE q

SendBoth(q, kind1, kind2, key, switch) ==
  Send(Send(q, kind1, key, switch), kind2, key, switch)

(* SEC_Decrypt: the results it may have on a message with this head.        *)
DecryptResults(sec) ==
  CASE secSwitch = 0 \/ sec = "NONE" -> {TRUE}
    [] secSwitch # 0 /\ sec = "AES"  -> {keyRecv = "RECVED"}
    [] secSwitch = 1 /\ sec = "RSA"  -> BOOLEAN
    [] secSwitch = 2 /\ sec = "RSA"  -> {TRUE}

EmptyBuffer == [status |-> "IDLE", msg |-> NoMsg]

(* A mutant of the next definition: the send side is forgotten.             *)
MSG_InitRecvOnly ==
  /\ recvBuf' = EmptyBuffer
  /\ recvQ' = 0
  /\ UNCHANGED sendQ

(* MSG_Init: both queues and all buffers are emptied.                       *)
MSG_Init ==
  /\ recvBuf' = EmptyBuffer
  /\ recvQ' = 0
  /\ sendQ' = <<>>

(* MSG_PopMsg, and the buffer set idle at the end of the handler.           *)
PopRecvBuffer ==
  /\ recvQ' = recvQ - 1
  /\ recvBuf' = EmptyBuffer

-----------------------------------------------------------------------------
(* Fragments of several handlers.                                          *)

(* Mutants of the next definition: the key stays; the queues and buffers    *)
(* stay; the MCU is not told.                                               *)
DisConnectKeepingKey(q) ==
  /\ mainState' = "DISCONNECT_CLOUD"
  /\ UNCHANGED keyRecv
  /\ mcuView' = "CLOUD_DISCONNECTED"
  /\ recvBuf' = EmptyBuffer /\ recvQ' = 0 /\ sendQ' = q

DisConnectKeepingMessages(q) ==
  /\ mainState' = "DISCONNECT_CLOUD"
  /\ keyRecv' = "UNRECVED"
  /\ mcuView' = "CLOUD_DISCONNECTED"
  /\ UNCHANGED messageVars

DisConnectSilently(q) ==
  /\ mainState' = "DISCONNECT_CLOUD"
  /\ keyRecv' = "UNRECVED"
  /\ UNCHANGED mcuView
  /\ recvBuf' = EmptyBuffer /\ recvQ' = 0 /\ sendQ' = q

(* PCT_DisConnectCloud, which empties queues and buffers (MSG_Init).  The   *)
(* send queue is q when the caller's handler ends.                          *)
DisConnectThenSend(q) ==
  /\ mainState' = "DISCONNECT_CLOUD"
  /\ keyRecv' = "UNRECVED"
  /\ mcuView' = "CLOUD_DISCONNECTED"
  /\ recvBuf' = EmptyBuffer
  /\ recvQ' = 0
  /\ sendQ' = q

DisConnectCloud == DisConnectThenSend(<<>>)

(* Power on: QC_Init, PCT_Init, QC_ReadDataFormFlash.  The MCU keeps what   *)
(* it was told last.  The cloud thread waits for the sniffer while flash    *)
(* holds no network, and for the WLAN otherwise.                            *)
PowerOn ==
  /\ mainState' = "INIT"
  /\ keyRecv' = "UNRECVED"
  /\ secSwitch' \in SecSwitches
  /\ timers' = InitTimers
  /\ u32Socket' = PCT_INVAILD_SOCKET
  /\ openFds' = {}
  /\ connFd' = PCT_INVAILD_SOCKET
  /\ fd' = PCT_INVAILD_SOCKET
  /\ pc' \in {"setnet", "sniffer"}
  /\ MSG_Init
  /\ reSendNum' = 0
  /\ UNCHANGED mcuView

Init ==
  /\ mainState = "INIT"
  /\ keyRecv = "UNRECVED"
  /\ secSwitch \in SecSwitches
  /\ timers = InitTimers
  /\ u32Socket = PCT_INVAILD_SOCKET
  /\ openFds = {}
  /\ connFd = PCT_INVAILD_SOCKET
  /\ fd = PCT_INVAILD_SOCKET
  /\ pc \in {"setnet", "sniffer"}
  /\ recvBuf = EmptyBuffer
  /\ recvQ = 0
  /\ sendQ = <<>>
  /\ reSendNum = 0
  /\ mcuView = "NONE"

-----------------------------------------------------------------------------
(* Timer callbacks: QC_timer_callback runs the action of the slot's type    *)
(* and then stops the slot, whatever the action did.                        *)

(* Mutants of the next three definitions: the callback stops its slot and   *)
(* does nothing else, or does not count.                                    *)
StopSlotOnly(i, type) ==
  /\ timers.slot[i] = type
  /\ timers' = StopSlot(Forget(timers, type), i)
  /\ UNCHANGED <<mainState, keyRecv, secSwitch, socketVars, threadVars, messageVars,
                 reSendNum, mcuView>>

ReconnectTimeoutIgnored(i) == StopSlotOnly(i, "RECONNECT")

AccessTimeoutIgnored(i) == StopSlotOnly(i, "REACCESS")

ResendUncounted(i) ==
  /\ timers.slot[i] = "SENDMOUDLE"
  /\ timers' = StopSlot(SetTimer(timers, "SENDMOUDLE"), i)
  /\ UNCHANGED <<mainState, keyRecv, secSwitch, socketVars, threadVars, messageVars,
                 reSendNum, mcuView>>

ReconnectTimeout(i) ==
  /\ timers.slot[i] = "RECONNECT"
  /\ mainState' = "ACCESS_NET"
  /\ timers' = StopSlot(Forget(timers, "RECONNECT"), i)
  /\ UNCHANGED <<keyRecv, secSwitch, socketVars, threadVars, messageVars,
                 reSendNum, mcuView>>

AccessTimeout(i) ==
  /\ timers.slot[i] = "REACCESS"
  /\ DisConnectCloud
  /\ timers' = StopSlot(timers, i)
  /\ UNCHANGED <<secSwitch, socketVars, threadVars, reSendNum>>

(* PCT_SendMoudleTimeout with retransmissions left: send to the MCU again   *)
(* and start the next timer.                                                *)
ResendToMoudle(i) ==
  /\ timers.slot[i] = "SENDMOUDLE"
  /\ reSendNum + 1 <= PCT_SENDMOUDLE_NUM
  /\ reSendNum' = reSendNum + 1
  /\ timers' = StopSlot(SetTimer(timers, "SENDMOUDLE"), i)
  /\ UNCHANGED <<mainState, keyRecv, secSwitch, socketVars, threadVars,
                 messageVars, mcuView>>

(* PCT_SendMoudleTimeout out of retransmissions: tell the cloud.            *)
GiveUpMoudle(i) ==
  /\ timers.slot[i] = "SENDMOUDLE"
  /\ reSendNum + 1 > PCT_SENDMOUDLE_NUM
  /\ reSendNum' = 0
  /\ timers' = StopSlot(Forget(timers, "SENDMOUDLE"), i)
  /\ sendQ' = Send(sendQ, "ERR", keyRecv, secSwitch)
  /\ UNCHANGED <<mainState, keyRecv, secSwitch, socketVars, threadVars,
                 recvBuf, recvQ, mcuView>>

(* PCT_SendHeartMsg.                                                        *)
HeartTimeout(i) ==
  /\ timers.slot[i] = "SENDHEART"
  /\ sendQ' = Send(sendQ, "HEART", keyRecv, secSwitch)
  /\ timers' = StopSlot(SetTimer(timers, "SENDHEART"), i)
  /\ UNCHANGED <<mainState, keyRecv, secSwitch, socketVars, threadVars,
                 recvBuf, recvQ, reSendNum, mcuView>>

(* The MCU is told again that the WLAN is up until it registers.            *)
RegisterTimeout(i) ==
  /\ timers.slot[i] = "REGISTER"
  /\ timers' = StopSlot(SetTimer(timers, "REGISTER"), i)
  /\ UNCHANGED <<mainState, keyRecv, secSwitch, socketVars, threadVars,
                 messageVars, reSendNum, mcuView>>

SendMoudleTimeout(i) == ResendToMoudle(i) \/ GiveUpMoudle(i)

TimerStep ==
  \E i \in Slots : \/ ReconnectTimeout(i) \/ AccessTimeout(i)
                   \/ SendMoudleTimeout(i) \/ HeartTimeout(i)
                   \/ RegisterTimeout(i)

-----------------------------------------------------------------------------
(* Messages of the MCU, handled on the UART thread.                         *)

(* REGISTER, plain or extended.  Before the network is entered it starts    *)
(* the connection; later it is only answered.                               *)
ModuleRegister ==
  /\ \/ /\ mainState \in Registered
        /\ mcuView' = "CLOUD_CONNECTED"
        /\ UNCHANGED <<mainState, timers>>
     \/ /\ mainState = "DISCONNECT_CLOUD"
        /\ mcuView' = "CLOUD_DISCONNECTED"
        /\ UNCHANGED <<mainState, timers>>
     \/ /\ mainState = "INIT"
        /\ mainState' = "ACCESS_NET"
        /\ timers' = StopAndForget(timers, "REGISTER")
        /\ UNCHANGED mcuView
  /\ UNCHANGED <<keyRecv, secSwitch, socketVars, threadVars, messageVars,
                 reSendNum>>

(* Any other message is data for the cloud: PCT_HandleMoudleEvent takes it  *)
(* as the answer to the message that waits for retransmission, whatever it  *)
(* answers.  Without a connection the MCU is told so.                       *)
ModuleData ==
  /\ \/ /\ mainState = "CONNECT_CLOUD"
        /\ timers' = StopAndForget(timers, "SENDMOUDLE")
        /\ reSendNum' = IF Valid(timers, "SENDMOUDLE") THEN 0 ELSE reSendNum
        /\ sendQ' = Send(sendQ, "DATA", keyRecv, secSwitch)
        /\ UNCHANGED mcuView
     \/ /\ mainState # "CONNECT_CLOUD"
        /\ mcuView' = "CLOUD_DISCONNECTED"
        /\ UNCHANGED <<timers, reSendNum, sendQ>>
  /\ UNCHANGED <<mainState, keyRecv, secSwitch, socketVars, threadVars,
                 recvBuf, recvQ>>

(* CONFIG: ZC_ConfigPara stores a new configuration, in use at once.        *)
ConfigPara ==
  /\ secSwitch' \in SecSwitches
  /\ UNCHANGED <<mainState, keyRecv, timers, socketVars, threadVars,
                 messageVars, reSendNum, mcuView>>

(* EXT_REBOOT and REST reset the chip.                                      *)
ModuleStep == ModuleRegister \/ ModuleData \/ ConfigPara \/ PowerOn

-----------------------------------------------------------------------------
(* The cloud thread.                                                        *)

(* QC_Reboot ends, or the sniffer has stored a network: qcom_sys_reset.     *)
ResetChip == pc \in {"reboot", "sniffer"} /\ PowerOn

(* QC_SetNetwork returns: the WLAN is up.  PCT_WakeUp does nothing if the   *)
(* MCU has registered in the meantime.                                      *)
SetNetwork ==
  /\ pc = "setnet"
  /\ pc' = "recv"
  /\ timers' = IF mainState = "INIT" THEN SetTimer(timers, "REGISTER")
                                     ELSE timers
  /\ UNCHANGED <<mainState, keyRecv, secSwitch, socketVars, fd, messageVars,
                 reSendNum, mcuView>>

(* MSG_RecvData on a buffer that is not full (what has arrived completes    *)
(* the message or not, or announces one too long), then the decryption.     *)
(* A message that cannot be decrypted stays in the full buffer, in no       *)
(* queue.                                                                   *)
RecvSegment ==
  /\ \/ recvBuf' = [status |-> "SEGMENT_HEAD", msg |-> NoMsg]
     \/ /\ recvBuf.status # "SEGMENT_HEAD"
        /\ recvBuf' = [status |-> "SEGMENT_NOHEAD", msg |-> NoMsg]
  /\ UNCHANGED recvQ

RecvTooLong ==
  /\ recvBuf.status # "SEGMENT_HEAD"
  /\ recvBuf' = EmptyBuffer
  /\ UNCHANGED recvQ

RecvMessage(m) ==
  \E ok \in DecryptResults(m.sec) :
    /\ recvBuf' = [status |-> "FULL", msg |-> IF ok THEN m ELSE NoMsg]
    /\ recvQ' = IF ok /\ recvQ < MSG_QUEUE_MAXLEN THEN recvQ + 1 ELSE recvQ

RecvDataFromCloud ==
  /\ recvBuf.status # "FULL"
  /\ RecvSegment \/ RecvTooLong \/ \E m \in CloudMsgs : RecvMessage(m)
  /\ UNCHANGED <<mainState, keyRecv, sendQ, mcuView>>

(* QC_CloudRecvfunc: nothing to read (or a full receive buffer, which drops *)
(* what arrived), data, or the end of the connection.                       *)
CloudRecvfunc ==
  /\ pc = "recv"
  /\ pc' = "run"
  /\ fd' = u32Socket
  /\ \/ UNCHANGED <<mainState, keyRecv, messageVars, mcuView>>
     \/ mainState \in Receiving /\ RecvDataFromCloud
     \/ mainState \in Receiving /\ DisConnectCloud
  /\ UNCHANGED <<secSwitch, timers, socketVars, reSendNum>>

-----------------------------------------------------------------------------
(* PCT_Run, one disjunct per state and outcome.                             *)

(* PCT_SendCloudAccessMsg1.                                                 *)
SendCloudAccessMsg1 ==
  /\ mainState = "WAIT_ACCESS"
  /\ \E encrypted \in RsaEncryptResults :
       IF Len(sendQ) < MSG_BUFFER_SEND_MAX_NUM /\ encrypted
       THEN /\ mainState' = "WAIT_ACCESSRSP"
            /\ sendQ' = Append(sendQ, "MSG1")
            /\ timers' = SetTimer(StopAndForget(timers, "RECONNECT"), "REACCESS")
            /\ UNCHANGED <<keyRecv, recvBuf, recvQ, mcuView>>
       ELSE /\ DisConnectCloud
            /\ timers' = StopAndForget(timers, "RECONNECT")
  /\ pc' = "tail"
  /\ UNCHANGED <<secSwitch, socketVars, fd, reSendNum>>

(* PCT_SendCloudAccessMsg3: the key is in use from here on.                 *)
SendCloudAccessMsg3 ==
  /\ keyRecv' = "RECVED"
  /\ sendQ' = Send(sendQ, "MSG3", "RECVED", secSwitch)
  /\ mainState' = "WAIT_MSG4"
  /\ timers' = SetTimer(StopHandle(timers, "REACCESS"), "REACCESS")
  /\ PopRecvBuffer
  /\ UNCHANGED mcuView

(* PCT_RecvAccessMsg2: other codes are dropped and the access timer goes    *)
(* on.                                                                      *)
RecvAccessMsg2 ==
  /\ mainState = "WAIT_ACCESSRSP"
  /\ recvQ > 0
  /\ LET msg == recvBuf.msg
     IN  \/ /\ msg.code = "HANDSHAKE_2" /\ msg.crcOk /\ msg.randOk
            /\ SendCloudAccessMsg3
         \/ /\ msg.code \in {"HANDSHAKE_2", "ACCESS_POINT_RSP"} /\ ~msg.crcOk
            /\ DisConnectCloud
            /\ UNCHANGED timers
         \/ /\ \/ msg.code = "HANDSHAKE_2" /\ msg.crcOk /\ ~msg.randOk
               \/ msg.code = "ACCESS_POINT_RSP" /\ msg.crcOk
            /\ DisConnectCloud
            /\ timers' = StopHandle(timers, "REACCESS")
         \/ /\ msg.code \notin {"HANDSHAKE_2", "ACCESS_POINT_RSP"}
            /\ PopRecvBuffer
            /\ UNCHANGED <<mainState, keyRecv, timers, sendQ, mcuView>>
  /\ pc' = "tail"
  /\ UNCHANGED <<secSwitch, socketVars, fd, reSendNum>>

(* Mutants of RestartHeart: the running timer is not stopped; the next one  *)
(* is not started.                                                          *)
StartHeartOnly(tm) == SetTimer(tm, "SENDHEART")

StopHeartOnly(tm) == StopAndForget(tm, "SENDHEART")

(* PCT_RecvAccessMsg4: whatever arrived, even when it ended the connection, *)
(* the heart timer is restarted.                                            *)
RestartHeart(tm) == SetTimer(StopIfValid(tm, "SENDHEART"), "SENDHEART")

RecvAccessMsg4 ==
  /\ mainState = "WAIT_MSG4"
  /\ recvQ > 0
  /\ LET msg == recvBuf.msg
     IN  \/ /\ msg.code = "HANDSHAKE_4" /\ msg.crcOk /\ msg.randOk
            /\ mainState' = "CONNECT_CLOUD"
            /\ mcuView' = "CLOUD_CONNECTED"
            /\ timers' = RestartHeart(StopHandle(timers, "REACCESS"))
            /\ PopRecvBuffer
            /\ UNCHANGED <<keyRecv, sendQ>>
         \/ /\ msg.code = "HANDSHAKE_4" /\ msg.crcOk /\ ~msg.randOk
            /\ DisConnectCloud
            /\ timers' = RestartHeart(StopHandle(timers, "REACCESS"))
         \/ /\ msg.code = "HANDSHAKE_4" /\ ~msg.crcOk
            /\ DisConnectCloud
            /\ timers' = RestartHeart(timers)
         \/ /\ msg.code # "HANDSHAKE_4"
            /\ PopRecvBuffer
            /\ timers' = RestartHeart(timers)
            /\ UNCHANGED <<mainState, keyRecv, sendQ, mcuView>>
  /\ pc' = "tail"
  /\ UNCHANGED <<secSwitch, socketVars, fd, reSendNum>>

(* A mutant of the next definition: the counter goes on from its old value. *)
HandleMoudleMsgKeepingCount ==
  /\ timers' = RestartHeart(SetTimer(timers, "SENDMOUDLE"))
  /\ UNCHANGED reSendNum

(* PCT_HandleMoudleMsg: the message is sent to the MCU and kept for         *)
(* retransmission.                                                          *)
HandleMoudleMsg ==
  /\ timers' = RestartHeart(SetTimer(timers, "SENDMOUDLE"))
  /\ reSendNum' = 0

(* PCT_HandleEvent, the online message handler.                             *)
Reply(kind) == sendQ' = Send(sendQ, kind, keyRecv, secSwitch)

ReplyBoth(kind1, kind2) ==
  sendQ' = SendBoth(sendQ, kind1, kind2, keyRecv, secSwitch)

(* A damaged message, or one that comes while the MCU still owes an answer. *)
RefuseEvent(msg) ==
  /\ ~msg.crcOk \/ Valid(timers, "SENDMOUDLE")
  /\ ReplyBoth("EMPTY", "ERR")
  /\ UNCHANGED <<timers, reSendNum>>

(* A message that does not end the connection.                              *)
AcceptEvent(msg) ==
  /\ msg.crcOk /\ ~Valid(timers, "SENDMOUDLE")
  /\ \/ /\ msg.code \in {"ZOTA", "ZOTA_CHUNK"}
        /\ Reply("ACK")
        /\ UNCHANGED <<timers, reSendNum>>
     \/ /\ msg.code \in {"ZOTA_CHUNK", "ZOTA_END"}   \* refused, or the update failed
        /\ Reply("ERR")
        /\ UNCHANGED <<timers, reSendNum>>
     \/ /\ msg.code = "TOKEN_SET"
        /\ ReplyBoth("EMPTY", "ACK")
        /\ UNCHANGED <<timers, reSendNum>>
     \/ /\ msg.code = "OTA"
        /\ HandleMoudleMsg
        /\ UNCHANGED sendQ
     \/ /\ msg.code \in {"OTHER", "HANDSHAKE_2", "HANDSHAKE_4", "ACCESS_POINT_RSP"}
        /\ HandleMoudleMsg
        /\ Reply("EMPTY")

HandleEvent ==
  /\ mainState = "CONNECT_CLOUD"
  /\ recvQ > 0
  /\ RefuseEvent(recvBuf.msg) \/ AcceptEvent(recvBuf.msg)
  /\ PopRecvBuffer
  /\ pc' = "tail"
  /\ UNCHANGED <<mainState, keyRecv, secSwitch, socketVars, fd, mcuView>>

(* PCT_HandleOtaEndMsg after a good update: the acknowledgement is queued,  *)
(* and the disconnection before the reboot empties the queue.               *)
HandleOtaEndMsg ==
  /\ mainState = "CONNECT_CLOUD"
  /\ recvQ > 0
  /\ recvBuf.msg.crcOk /\ ~Valid(timers, "SENDMOUDLE")
  /\ recvBuf.msg.code = "ZOTA_END"
  /\ DisConnectCloud
  /\ pc' = "reboot"
  /\ UNCHANGED <<secSwitch, timers, socketVars, fd, reSendNum>>

(* PCT_ResetNetWork: the answers are built when the key is already gone.    *)
ResetNetWork ==
  /\ mainState = "CONNECT_CLOUD"
  /\ recvQ > 0
  /\ recvBuf.msg.crcOk /\ ~Valid(timers, "SENDMOUDLE")
  /\ recvBuf.msg.code = "RESET_NETWORK"
  /\ secSwitch' = 1                                       \* ZC_ConfigInitPara
  /\ DisConnectThenSend(SendBoth(<<>>, "EMPTY", "ACK", "UNRECVED", 1))
  /\ pc' = "tail"
  /\ UNCHANGED <<timers, socketVars, fd, reSendNum>>

(* PCT_ConnectCloud up to qcom_connect, and what follows its return.        *)
ConnectCloud ==
  /\ mainState = "ACCESS_NET"
  /\ ~Valid(timers, "RECONNECT")
  /\ \/ \E s \in Fds \ openFds :
          connFd' = s /\ openFds' = openFds \cup {s} /\ pc' = "connecting"
     \/ pc' = "tail" /\ UNCHANGED <<connFd, openFds>>     \* qcom_socket fails
  /\ UNCHANGED <<mainState, keyRecv, secSwitch, timers, u32Socket, fd,
                 messageVars, reSendNum, mcuView>>

Connected ==
  /\ pc = "connecting"
  /\ u32Socket' = connFd
  /\ connFd' = PCT_INVAILD_SOCKET
  /\ mainState' = "WAIT_ACCESS"
  /\ keyRecv' = "UNRECVED"
  /\ pc' = "tail"
  /\ UNCHANGED <<secSwitch, timers, openFds, fd, messageVars, reSendNum, mcuView>>

(* A mutant of the next definition: the socket is not closed.               *)
ConnectFailedLeaking ==
  /\ pc = "connecting"
  /\ connFd' = PCT_INVAILD_SOCKET
  /\ pc' = "tail"
  /\ UNCHANGED <<mainState, keyRecv, secSwitch, timers, u32Socket, openFds, fd,
                 messageVars, reSendNum, mcuView>>

ConnectFailed ==
  /\ pc = "connecting"
  /\ openFds' = openFds \ {connFd}
  /\ connFd' = PCT_INVAILD_SOCKET
  /\ pc' = "tail"
  /\ UNCHANGED <<mainState, keyRecv, secSwitch, timers, u32Socket, fd,
                 messageVars, reSendNum, mcuView>>

(* PCT_Run has nothing to do.                                               *)
NothingToRun ==
  /\ \/ mainState \in {"INIT", "DISCONNECT_CLOUD"}
     \/ mainState = "ACCESS_NET" /\ Valid(timers, "RECONNECT")
     \/ mainState \in Receiving /\ recvQ = 0
  /\ pc' = "tail"
  /\ UNCHANGED <<mainState, keyRecv, secSwitch, timers, socketVars, fd,
                 messageVars, reSendNum, mcuView>>

Run ==
  /\ pc = "run"
  /\ \/ NothingToRun \/ ConnectCloud \/ SendCloudAccessMsg1
     \/ RecvAccessMsg2 \/ RecvAccessMsg4
     \/ HandleEvent \/ HandleOtaEndMsg \/ ResetNetWork

-----------------------------------------------------------------------------
(* After the LED delay.                                                     *)

(* The socket remembered at the top of the loop is closed and               *)
(* PCT_ReconnectCloud starts the backoff ("already reconnected" otherwise). *)
CloseAndReconnect ==
  /\ mainState = "DISCONNECT_CLOUD"
  /\ openFds' = openFds \ {fd}
  /\ IF Valid(timers, "RECONNECT")
     THEN UNCHANGED <<mainState, keyRecv, timers, u32Socket, messageVars>>
     ELSE /\ MSG_Init
          /\ keyRecv' = "UNRECVED"
          /\ timers' = SetTimer(StopAll(timers, {"RECONNECT", "SENDMOUDLE",
                                                 "SENDHEART"}), "RECONNECT")
          /\ mainState' = "INIT"
          /\ u32Socket' = PCT_INVAILD_SOCKET

(* MSG_SendDataToCloud: the oldest message, if any.                         *)
SendDataToCloud ==
  /\ mainState # "DISCONNECT_CLOUD"
  /\ sendQ' = IF sendQ = <<>> THEN sendQ ELSE Tail(sendQ)
  /\ UNCHANGED <<mainState, keyRecv, timers, u32Socket, openFds, recvBuf, recvQ>>

LoopTail ==
  /\ pc = "tail"
  /\ pc' = "wifi"
  /\ CloseAndReconnect \/ SendDataToCloud
  /\ UNCHANGED <<secSwitch, connFd, fd, reSendNum, mcuView>>

WifiUp ==
  /\ pc = "wifi"
  /\ pc' = "recv"
  /\ UNCHANGED <<mainState, keyRecv, secSwitch, timers, socketVars, fd,
                 messageVars, reSendNum, mcuView>>

(* The WLAN is lost: QC_Sleep closes the sockets, PCT_Sleep stops           *)
(* everything else.                                                         *)
WifiLost ==
  /\ pc = "wifi"
  /\ pc' = "setnet"
  /\ openFds' = openFds \ {u32Socket}
  /\ u32Socket' = PCT_INVAILD_SOCKET
  /\ MSG_Init
  /\ keyRecv' = "UNRECVED"
  /\ timers' = StopAll(timers, {"RECONNECT", "SENDMOUDLE", "SENDHEART", "REGISTER"})
  /\ mainState' = "INIT"
  /\ UNCHANGED <<secSwitch, connFd, fd, reSendNum, mcuView>>

CloudThreadStep ==
  \/ CloudRecvfunc \/ Run \/ Connected \/ ConnectFailed
  \/ LoopTail \/ WifiUp \/ WifiLost

Next == TimerStep \/ ModuleStep \/ CloudThreadStep \/ SetNetwork \/ ResetChip

Spec == Init /\ [][Next]_vars

(* The cloud thread is scheduled, qcom_connect returns, and a timer that is *)
(* not stopped expires.  Nothing is assumed of the MCU, of what the cloud   *)
(* sends, of the WLAN coming back, or of the sniffer.                       *)
Fairness ==
  /\ WF_vars(CloudThreadStep)
  /\ WF_vars(pc = "reboot" /\ ResetChip)
  /\ WF_vars(\E i \in Slots : ReconnectTimeout(i))
  /\ WF_vars(\E i \in Slots : AccessTimeout(i))
  /\ WF_vars(\E i \in Slots : SendMoudleTimeout(i))
  /\ WF_vars(\E i \in Slots : HeartTimeout(i))

FairSpec == Spec /\ Fairness

-----------------------------------------------------------------------------
(* Correctness.                                                             *)

(* The type invariant.                                                      *)
TypeOK ==
  /\ mainState \in MainStates
  /\ keyRecv \in {"UNRECVED", "RECVED"}
  /\ secSwitch \in SecSwitches
  /\ timers \in TimerTables
  /\ u32Socket \in Fds \cup {PCT_INVAILD_SOCKET}
  /\ openFds \in SUBSET Fds
  /\ connFd \in Fds \cup {PCT_INVAILD_SOCKET}
  /\ fd \in Fds \cup {PCT_INVAILD_SOCKET}
  /\ pc \in {"setnet", "recv", "run", "connecting", "tail", "wifi", "reboot",
             "sniffer"}
  /\ recvBuf \in [status : {"IDLE", "SEGMENT_NOHEAD", "SEGMENT_HEAD", "FULL"},
                  msg : CloudMsgs \cup {NoMsg}]
  /\ recvQ \in 0 .. MSG_QUEUE_MAXLEN
  /\ sendQ \in Seq(SendKinds) /\ Len(sendQ) <= MSG_BUFFER_SEND_MAX_NUM
  /\ reSendNum \in 0 .. PCT_SENDMOUDLE_NUM
  /\ mcuView \in {"NONE", "CLOUD_CONNECTED", "CLOUD_DISCONNECTED"}

(* No timer is lost and none is left dangling: a running slot always        *)
(* belongs to the handle of its type, and a valid handle to a running slot, *)
(* although handlers stop by handle what a callback may have replaced, and  *)
(* stop by index what a handler may have restarted.                         *)
TimersCoherent == Coherent(timers)

(* Timers run only in the states they are meant for.  Above all none        *)
(* survives from one connection to the next: when a new TCP connection is   *)
(* up (WAIT_ACCESS) no timer runs, so no stale expiry can disconnect it,    *)
(* send it back to ACCESS_NET or resend an old message.                     *)
TimersOfState(state) ==
  CASE state = "INIT"             -> {"RECONNECT", "REGISTER"}
    [] state = "ACCESS_NET"       -> {"RECONNECT"}
    [] state = "WAIT_ACCESS"      -> {}
    [] state = "WAIT_ACCESSRSP"   -> {"REACCESS"}
    [] state = "WAIT_MSG4"        -> {"REACCESS", "SENDHEART"}
    [] state = "CONNECT_CLOUD"    -> {"SENDHEART", "SENDMOUDLE"}
    [] state = "DISCONNECT_CLOUD" -> {"REACCESS", "SENDHEART", "SENDMOUDLE"}

TimersFitState == Running(timers) \subseteq TimersOfState(mainState)

(* The controller never waits without a timer that ends the wait: for the   *)
(* handshake answers, for the next heartbeat, and, in the main loop, for    *)
(* the reconnection or the registration.  An unanswered SetTimer (all slots *)
(* taken) or a timer stopped through a stale handle would stall it here.    *)
WaitsAreTimed ==
  /\ mainState \in {"WAIT_ACCESSRSP", "WAIT_MSG4"} => Armed(timers, "REACCESS")
  /\ mainState = "CONNECT_CLOUD" => Armed(timers, "SENDHEART")
  /\ mainState = "INIT" /\ pc \notin {"setnet", "sniffer"} =>
       Armed(timers, "RECONNECT") \/ Armed(timers, "REGISTER")

(* The session key is in use exactly from MSG3 to the end of the session,   *)
(* whichever of the three contexts ends it.                                 *)
KeyFollowsState == keyRecv = "RECVED" <=> mainState \in {"WAIT_MSG4", "CONNECT_CLOUD"}

(* Nothing of one session reaches the next: before MSG1 both queues and the *)
(* receive buffer are empty, and while the answer to MSG1 is awaited        *)
(* nothing but MSG1 can be in the send queue.                               *)
SessionsAreSeparate ==
  /\ mainState \in {"INIT", "ACCESS_NET", "WAIT_ACCESS"} =>
       sendQ = <<>> /\ recvQ = 0 /\ recvBuf = EmptyBuffer
  /\ mainState = "WAIT_ACCESSRSP" => sendQ \in {<<>>, <<"MSG1">>}

(* With security on, nothing that needs the session key is queued when      *)
(* there is none: the answers to RESET_NETWORK and to the last OTA message, *)
(* and the heartbeats that still expire after a disconnection, are not sent *)
(* in the next session.                                                     *)
NothingQueuedWithoutKey ==
  keyRecv = "UNRECVED" /\ secSwitch # 0 => sendQ \in {<<>>, <<"MSG1">>}

(* A message that was decrypted is handled in the same turn of the loop, in *)
(* the connection it came from; the queue never holds the one receive       *)
(* buffer twice.                                                            *)
ReceivedIsHandled ==
  recvQ > 0 => /\ recvQ = 1
               /\ recvBuf.status = "FULL" /\ recvBuf.msg \in CloudMsgs
               /\ pc = "run"
               /\ mainState \in Receiving

(* The cloud sockets open in the TCP/IP stack are those the program knows:  *)
(* the connection's, and the one being connected.  None leaks, and the      *)
(* descriptor that the loop remembers before PCT_Run is the one to close    *)
(* when it finds the session ended after it.                                *)
SocketsAreOwned ==
  /\ openFds = {u32Socket, connFd} \ {PCT_INVAILD_SOCKET}
  /\ u32Socket # PCT_INVAILD_SOCKET <=> mainState \notin {"INIT", "ACCESS_NET"}
  /\ pc = "tail" /\ mainState = "DISCONNECT_CLOUD" => fd = u32Socket

(* What the blocked parts of the loop rely on when they resume, whatever    *)
(* the other threads did in between: while the WLAN is awaited no timer     *)
(* runs; qcom_connect is left in the state it was called in, with no        *)
(* reconnection pending, although the MCU may register meanwhile; and the   *)
(* remembered descriptor is the connection's, unless that is brand new.     *)
LoopPosition ==
  /\ pc \in {"setnet", "sniffer"} =>
       mainState \in {"INIT", "ACCESS_NET"} /\ Running(timers) = {}
  /\ pc = "connecting" <=> connFd # PCT_INVAILD_SOCKET
  /\ pc = "connecting" => /\ mainState = "ACCESS_NET"
                          /\ "RECONNECT" \notin Running(timers)
  /\ pc \in {"run", "connecting"} => fd = u32Socket
  /\ pc = "tail" => fd = u32Socket \/ mainState = "WAIT_ACCESS"
  /\ ~({"RECONNECT", "REGISTER"} \subseteq Running(timers))

(* While the module is online, or has just been disconnected, the MCU was   *)
(* last told so, although it may ask and be answered in between.            *)
McuIsInformed ==
  /\ mainState = "CONNECT_CLOUD" => mcuView = "CLOUD_CONNECTED"
  /\ mainState = "DISCONNECT_CLOUD" => mcuView = "CLOUD_DISCONNECTED"

(* Whichever context ends a session (PCT_DisConnectCloud, or PCT_WakeUp     *)
(* after the WLAN was lost), it leaves nothing behind: neither the key nor  *)
(* a message of either direction, nor an MCU that believes it is online.    *)
SessionsAreClean ==
  /\ KeyFollowsState
  /\ SessionsAreSeparate
  /\ ReceivedIsHandled
  /\ McuIsInformed

(* Every message forwarded to the MCU gets its own PCT_SENDMOUDLE_NUM        *)
(* retransmissions, although the counter survives a lost connection, and    *)
(* the one retransmission buffer is never taken over by another message     *)
(* while its timer runs: a timer started anew costs a retransmission.       *)
RetriesPerMessage ==
  [][/\ ~Valid(timers, "SENDMOUDLE") /\ Valid(timers', "SENDMOUDLE") =>
          reSendNum' = 0
     /\ Valid(timers, "SENDMOUDLE") /\ Valid(timers', "SENDMOUDLE")
        /\ timers'.handle["SENDMOUDLE"] # timers.handle["SENDMOUDLE"] =>
          reSendNum' = reSendNum + 1]_vars

(* A handshake ends, in a session or in a disconnection, whatever the cloud *)
(* sends or fails to send.                                                  *)
HandshakeEnds ==
  mainState \in {"WAIT_ACCESS", "WAIT_ACCESSRSP", "WAIT_MSG4"} ~>
    mainState \in {"CONNECT_CLOUD", "DISCONNECT_CLOUD", "INIT"}

(* A module that was disconnected tries again, unless it has no WLAN.       *)
DisconnectedRetries ==
  mainState = "DISCONNECT_CLOUD" ~> mainState = "ACCESS_NET" \/ pc \in {"setnet", "sniffer"}

(* A message that waits for the MCU's answer does not wait forever, even if *)
(* the MCU never answers: meanwhile every other message is refused.         *)
MoudleAnswerAwaitedBoundedly ==
  Valid(timers, "SENDMOUDLE") ~> ~Valid(timers, "SENDMOUDLE")

=============================================================================
