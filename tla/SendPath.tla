------------------------------ MODULE SendPath -------------------------------
(***************************************************************************)
(* How a message gets from PCT_SendMsgToCloud to the socket, statement by  *)
(* statement: it is encrypted into an idle send buffer, the buffer is      *)
(* pushed onto a ring of nodes (MSG_PushMsg), and the cloud thread pops    *)
(* it, sends it and frees it (MSG_SendDataToCloud).                        *)
(*                                                                         *)
(* Nothing is locked.  PCT_SendMsgToCloud runs on the UART thread (a       *)
(* message of the MCU), in timer callbacks (heartbeats) and on the cloud   *)
(* thread itself (acknowledgements); the threads have the same priority    *)
(* and a time slice (sdk_shell.c), so that one may be interrupted between  *)
(* any two statements of the other.                                        *)
(***************************************************************************)
EXTENDS Naturals, Sequences, FiniteSets

CONSTANTS
  MSG_QUEUE_MAXLEN,           \* 2 in zc_message_queue.h
  MSG_BUFFER_SEND_MAX_NUM,    \* the same
  Pushers,                    \* the contexts that queue messages
  CloudThread,                \* the context that sends them; may be a pusher
  MessageNum,                 \* messages are numbered modulo this
  NULL

ASSUME SendPathAssumption ==
  /\ MSG_QUEUE_MAXLEN \in Nat \ {0}
  /\ MSG_BUFFER_SEND_MAX_NUM \in 1 .. MSG_QUEUE_MAXLEN
  /\ MessageNum \in Nat \ {0}
  /\ NULL \notin Nat

Contexts == Pushers \cup {CloudThread}
Buffers  == 1 .. MSG_BUFFER_SEND_MAX_NUM
Messages == 0 .. MessageNum - 1

(* struQueue and pstruNext: a ring of nodes, linked downwards.              *)
Nodes     == 0 .. MSG_QUEUE_MAXLEN
NextOf(n) == IF n = 0 THEN MSG_QUEUE_MAXLEN ELSE n - 1

VARIABLES
  pstruHead, pstruTail,   \* of g_struSendQueue
  pu8Msg,                 \* the buffer each node points to
  u8Status,               \* of each g_struSendBuffer
  content,                \* the message in each send buffer
  pc,                     \* the statement each context is at
  u32Index,               \* the send buffer it looks at or has chosen
  tailRead,               \* the tail it has read last
  message,                \* the message it queues
  popped,                 \* pstruBuf of MSG_SendDataToCloud
  made,                   \* the number of the next message
  sent                    \* the message that went out last

queue   == <<pstruHead, pstruTail, pu8Msg>>
buffers == <<u8Status, content>>
locals  == <<u32Index, tailRead, message>>
ghosts  == <<made, sent>>
vars    == <<queue, buffers, pc, locals, popped, ghosts>>

Init ==
  /\ pstruHead = 0 /\ pstruTail = 0
  /\ pu8Msg = [n \in Nodes |-> NULL]
  /\ u8Status = [b \in Buffers |-> "IDLE"]
  /\ content = [b \in Buffers |-> NULL]
  /\ pc = [c \in Contexts |-> "idle"]
  /\ u32Index = [c \in Contexts |-> 1]
  /\ tailRead = [c \in Contexts |-> 0]
  /\ message = [c \in Contexts |-> 0]
  /\ popped = NULL
  /\ made = 0 /\ sent = NULL

Goto(c, from, to) == pc[c] = from /\ pc' = [pc EXCEPT ![c] = to]

-----------------------------------------------------------------------------
(* PCT_SendMsgToCloud by the context c.                                     *)
Call(c) ==
  /\ Goto(c, "idle", "scan")
  /\ made' = (made + 1) % MessageNum
  /\ message' = [message EXCEPT ![c] = made]
  /\ u32Index' = [u32Index EXCEPT ![c] = 1]
  /\ UNCHANGED <<queue, buffers, tailRead, popped, sent>>

(* A mutant of the next definition: the loop runs one buffer too far.       *)
ScanPastEnd(c) ==
  /\ u8Status[u32Index[c]] # "IDLE"
  /\ Goto(c, "scan", "scan") /\ u32Index' = [u32Index EXCEPT ![c] = @ + 1]
  /\ UNCHANGED <<queue, buffers, tailRead, message, popped, ghosts>>

(* The search for an idle buffer; with none the message is given up.        *)
ScanNext(c) ==
  /\ u8Status[u32Index[c]] # "IDLE"
  /\ IF u32Index[c] < MSG_BUFFER_SEND_MAX_NUM
     THEN Goto(c, "scan", "scan") /\ u32Index' = [u32Index EXCEPT ![c] = @ + 1]
     ELSE Goto(c, "scan", "idle") /\ UNCHANGED u32Index
  /\ UNCHANGED <<queue, buffers, tailRead, message, popped, ghosts>>

ScanFound(c) ==
  /\ Goto(c, "scan", "encrypt")
  /\ u8Status[u32Index[c]] = "IDLE"
  /\ UNCHANGED <<queue, buffers, locals, popped, ghosts>>

(* SEC_Encrypt into the buffer.  It fails without a session key.            *)
Encrypt(c) ==
  /\ \/ /\ Goto(c, "encrypt", "full")
        /\ content' = [content EXCEPT ![u32Index[c]] = message[c]]
     \/ Goto(c, "encrypt", "idle") /\ UNCHANGED content
  /\ UNCHANGED <<queue, u8Status, locals, popped, ghosts>>

SetFull(c) ==
  /\ Goto(c, "full", "check")
  /\ u8Status' = [u8Status EXCEPT ![u32Index[c]] = "FULL"]
  /\ UNCHANGED <<queue, content, locals, popped, ghosts>>

(* MSG_PushMsg, whose result nobody looks at.  The compiler may or may not  *)
(* read the tail again in the two assignments.                              *)
PushCheck(c) ==
  /\ IF NextOf(pstruTail) = pstruHead
     THEN Goto(c, "check", "idle") /\ UNCHANGED tailRead
     ELSE Goto(c, "check", "store") /\ tailRead' = [tailRead EXCEPT ![c] = pstruTail]
  /\ UNCHANGED <<queue, buffers, u32Index, message, popped, ghosts>>

PushStore(c) ==
  /\ Goto(c, "store", "advance")
  /\ \E t \in {tailRead[c], pstruTail} :
       /\ pu8Msg' = [pu8Msg EXCEPT ![t] = u32Index[c]]
       /\ tailRead' = [tailRead EXCEPT ![c] = t]
  /\ UNCHANGED <<pstruHead, pstruTail, buffers, u32Index, message, popped, ghosts>>

PushAdvance(c) ==
  /\ Goto(c, "advance", "idle")
  /\ \E t \in {tailRead[c], pstruTail} : pstruTail' = NextOf(t)
  /\ UNCHANGED <<pstruHead, pu8Msg, buffers, locals, popped, ghosts>>

SendMsgToCloud(c) ==
  \/ Call(c) \/ ScanNext(c) \/ ScanFound(c) \/ Encrypt(c) \/ SetFull(c)
  \/ PushCheck(c) \/ PushStore(c) \/ PushAdvance(c)

-----------------------------------------------------------------------------
(* MSG_SendDataToCloud, which begins with MSG_PopMsg.                       *)
PopCheck ==
  /\ Goto(CloudThread, "idle", "take")
  /\ pstruHead # pstruTail
  /\ UNCHANGED <<queue, buffers, locals, popped, ghosts>>

PopTake ==
  /\ Goto(CloudThread, "take", "next")
  /\ popped' = pu8Msg[pstruHead]
  /\ pu8Msg' = [pu8Msg EXCEPT ![pstruHead] = NULL]
  /\ UNCHANGED <<pstruHead, pstruTail, buffers, locals, ghosts>>

(* A mutant of the next definition: the buffer is free before it is sent.   *)
PopAdvanceFreeing ==
  /\ IF popped = NULL THEN Goto(CloudThread, "next", "idle")
                      ELSE Goto(CloudThread, "next", "transmit")
  /\ pstruHead' = NextOf(pstruHead)
  /\ u8Status' = [u8Status EXCEPT ![popped] = "IDLE"]
  /\ UNCHANGED <<pstruTail, pu8Msg, content, locals, popped, ghosts>>

PopAdvance ==
  /\ IF popped = NULL THEN Goto(CloudThread, "next", "idle")
                      ELSE Goto(CloudThread, "next", "transmit")
  /\ pstruHead' = NextOf(pstruHead)
  /\ UNCHANGED <<pstruTail, pu8Msg, buffers, locals, popped, ghosts>>

Transmit ==
  /\ Goto(CloudThread, "transmit", "free")
  /\ sent' = content[popped]
  /\ UNCHANGED <<queue, buffers, locals, popped, made>>

(* A mutant of the next definition: the buffer is not freed.                *)
FreeNothing ==
  /\ Goto(CloudThread, "free", "idle")
  /\ popped' = NULL
  /\ UNCHANGED <<queue, buffers, locals, ghosts>>

Free ==
  /\ Goto(CloudThread, "free", "idle")
  /\ u8Status' = [u8Status EXCEPT ![popped] = "IDLE"]
  /\ popped' = NULL
  /\ UNCHANGED <<queue, content, locals, ghosts>>

SendDataToCloud == PopCheck \/ PopTake \/ PopAdvance \/ Transmit \/ Free

Next == SendDataToCloud \/ \E c \in Pushers : SendMsgToCloud(c)

Spec == Init /\ [][Next]_vars

(* The loop of the cloud thread runs for ever and the threads share the     *)
(* processor by time slices, so that no context stops in the middle.        *)
Fairness ==
  /\ WF_vars(SendDataToCloud)
  /\ \A c \in Pushers : WF_vars(pc[c] # "idle" /\ SendMsgToCloud(c))

FairSpec == Spec /\ Fairness

-----------------------------------------------------------------------------
(* The type invariant.                                                      *)
TypeOK ==
  /\ pstruHead \in Nodes /\ pstruTail \in Nodes
  /\ pu8Msg \in [Nodes -> Buffers \cup {NULL}]
  /\ u8Status \in [Buffers -> {"IDLE", "FULL"}]
  /\ content \in [Buffers -> Messages \cup {NULL}]
  /\ pc \in [Contexts -> {"idle", "scan", "encrypt", "full", "check", "store", "advance",
                          "take", "next", "transmit", "free"}]
  /\ u32Index \in [Contexts -> Buffers]
  /\ tailRead \in [Contexts -> Nodes]
  /\ message \in [Contexts -> Messages]
  /\ popped \in Buffers \cup {NULL}
  /\ made \in Messages /\ sent \in Messages \cup {NULL}

(* What zc_message_queue.c says where it pops: head == tail, no msg.  If a  *)
(* message were in the ring then, its buffer would never be sent or freed   *)
(* and the module could queue nothing more, with the connection up.         *)
EmptyQueueHasNoMessage ==
  (/\ pstruHead = pstruTail
   /\ \A c \in Contexts : pc[c] \notin {"advance", "next"})
  => \A n \in Nodes : pu8Msg[n] = NULL

(* The buffers that wait to be sent, the one in the hands of the cloud      *)
(* thread first.                                                            *)
Size      == MSG_QUEUE_MAXLEN + 1
NodeAt(i) == (pstruHead + Size - i) % Size

Pending ==
  (IF pc[CloudThread] = "transmit" THEN <<popped>> ELSE << >>) \o
  [i \in 1 .. (pstruHead + Size - pstruTail) % Size |->
     IF i = 1 /\ pc[CloudThread] = "next" THEN popped ELSE pu8Msg[NodeAt(i - 1)]]

(* Every full buffer is in exactly one place: on its way into the ring, in  *)
(* it, or being sent; and an idle one is in none.  A buffer in no place is  *)
(* lost until the connection ends, one in two is overwritten and sent twice.*)
Places(b) ==
  {<<"pending", i>> : i \in {j \in DOMAIN Pending : Pending[j] = b}}
  \cup {<<"pushed", c>> : c \in {d \in Pushers : u32Index[d] = b
                                  /\ pc[d] \in {"check", "store", "advance"}}}
  \cup {<<"sent", c>> : c \in {d \in {CloudThread} : pc[d] = "free" /\ popped = b}}

BuffersAreAccounted ==
  \A b \in Buffers : Cardinality(Places(b)) = IF u8Status[b] = "FULL" THEN 1 ELSE 0

(* The send queue implements the bounded FIFO: however the thread that      *)
(* queues and the thread that sends interleave, no message is lost, sent    *)
(* twice, reordered or overwritten by the next.                             *)
Channel ==
  INSTANCE SendChannel WITH Capacity <- MSG_BUFFER_SEND_MAX_NUM,
                            waiting  <- [i \in DOMAIN Pending |-> content[Pending[i]]]

ImplementsChannel == Channel!Spec

(* A send buffer that is taken is in one place only, and free again some    *)
(* time: there are only two, and without them neither answers nor           *)
(* heartbeats leave the module.                                             *)
BuffersAreFreed ==
  /\ [](TypeOK /\ BuffersAreAccounted)
  /\ \A b \in Buffers : u8Status[b] = "FULL" ~> u8Status[b] = "IDLE"
=============================================================================
