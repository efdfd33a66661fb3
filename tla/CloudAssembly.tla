---------------------------- MODULE CloudAssembly ----------------------------
(***************************************************************************)
(* How the cloud's messages are cut out of its TCP stream                  *)
(* (zc_message_queue.c: MSG_RecvData, MSG_RecvDataFromCloud) and handled   *)
(* (PCT_HandleEvent).  A byte is its position in the stream; a message is  *)
(* its number, and the stream says after which byte each message ends, the *)
(* security header counted.  What follows a complete message in the same   *)
(* read is dropped.                                                        *)
(***************************************************************************)
EXTENDS Naturals, FiniteSets, SequencesExt

CONSTANTS
  Streams,            \* what the cloud may send: where its messages end
  HeadLen,            \* sizeof(ZC_SecHead)
  MSG_BUFFER_MAXLEN,
  QC_MAX_SOCKET_LEN,  \* the most bytes one qcom_recv returns
  Garbage             \* the lengths a header read in the middle of a message may show

ASSUME AssemblyAssumption ==
  /\ HeadLen \in Nat \ {0}
  /\ MSG_BUFFER_MAXLEN \in Nat /\ QC_MAX_SOCKET_LEN \in Nat
  /\ Garbage \subseteq Nat
  /\ \A s \in Streams :
       /\ s \in Seq(Nat)
       /\ \A k \in 1..Len(s) : s[k] >= HeadLen /\ \A j \in 1..(k - 1) : s[k] >= s[j] + HeadLen

VARIABLES
  stream,    \* the messages of this connection
  sent,      \* how many of them the cloud has sent
  read,      \* bytes read from the socket
  buffer,    \* g_struRecvBuffer: its status, the stream position of its first
             \* byte, the bytes it holds and the length its header shows
  queued,    \* is the buffer in g_struRecvQueue
  handled,   \* the messages PCT_HandleEvent accepted
  hurried    \* did the cloud send before its previous message was handled

cloudVars == <<stream, sent, read, buffer, queued, handled, hurried>>

IdleBuffer == [status |-> "IDLE", from |-> 0, len |-> 0, total |-> 0]

BytesOf(k)  == IF k = 0 THEN 0 ELSE stream[k]    \* of the first k messages
LengthOf(k) == BytesOf(k) - BytesOf(k - 1)
StartsAt(p) == {k \in 1..Len(stream) : BytesOf(k - 1) = p}

(* The length the header at position p shows.                               *)
LengthsAt(p) == IF StartsAt(p) = {} THEN Garbage ELSE {LengthOf(k) : k \in StartsAt(p)}

(* The number of the message the buffer b holds, if it holds exactly one.   *)
GenuineIn(b) == {k \in StartsAt(b.from) : b.total = LengthOf(k)}
Genuine      == GenuineIn(buffer)

CloudInit ==
  /\ stream \in Streams
  /\ sent = 0 /\ read = 0 /\ buffer = IdleBuffer
  /\ queued = FALSE /\ handled = <<>> /\ hurried = FALSE

(* The cloud sends its next message, with or without waiting for the last.  *)
CloudSend ==
  /\ sent < Len(stream)
  /\ sent' = sent + 1
  /\ hurried' = (hurried \/ sent > Len(handled))
  /\ UNCHANGED <<stream, read, buffer, queued, handled>>

-----------------------------------------------------------------------------
(* A message that ends with its segment is not seen to be complete.         *)
FilledBeyond(from, t, have) ==
  IF t > MSG_BUFFER_MAXLEN THEN IdleBuffer
  ELSE [status |-> IF t < have THEN "FULL" ELSE "SEGMENT_HEAD",
        from |-> from, len |-> IF t < have THEN t ELSE have, total |-> t]

(* The buffer after the header shows length t and have bytes were received. *)
Filled(from, t, have) ==
  IF t > MSG_BUFFER_MAXLEN THEN IdleBuffer
  ELSE [status |-> IF t <= have THEN "FULL" ELSE "SEGMENT_HEAD",
        from |-> from, len |-> IF t <= have THEN t ELSE have, total |-> t]

(* The header is expected at the start of every segment.                    *)
ReceivedAnew(n) ==
  LET from == IF buffer.status = "SEGMENT_HEAD" THEN buffer.from ELSE read
      have == buffer.len + n
  IN  CASE buffer.status = "FULL"         -> {buffer}
        [] buffer.status = "SEGMENT_HEAD" -> {Filled(from, buffer.total, have)}
        [] OTHER ->
             IF have < HeadLen
             THEN {[status |-> "SEGMENT_NOHEAD", from |-> from, len |-> have, total |-> 0]}
             ELSE {Filled(from, t, have) : t \in LengthsAt(from)}

(* The buffers MSG_RecvData may leave when n more bytes arrive.             *)
Received(n) ==
  LET from == IF buffer.status = "IDLE" THEN read ELSE buffer.from
      have == buffer.len + n
  IN  CASE buffer.status = "FULL"         -> {buffer}
        [] buffer.status = "SEGMENT_HEAD" -> {Filled(from, buffer.total, have)}
        [] OTHER ->
             IF have < HeadLen
             THEN {[status |-> "SEGMENT_NOHEAD", from |-> from, len |-> have, total |-> 0]}
             ELSE {Filled(from, t, have) : t \in LengthsAt(from)}

(* A message that has just become complete is deciphered and queued; what   *)
(* is not a message may fail to decipher, and then nothing empties the      *)
(* buffer until MSG_Init.                                                   *)
Decrypt ==
  IF buffer.status # "FULL" /\ buffer'.status = "FULL"
  THEN IF GenuineIn(buffer') # {} THEN queued' = TRUE ELSE queued' \in BOOLEAN
  ELSE UNCHANGED queued

RecvDataFromCloud ==
  /\ ~queued
  /\ \E n \in 1..QC_MAX_SOCKET_LEN :
       /\ read + n <= BytesOf(sent)
       /\ buffer' \in Received(n)
       /\ read' = read + n
  /\ Decrypt
  /\ UNCHANGED <<stream, sent, handled, hurried>>

(* The message is popped, checked and handled, in the turn that queued it;  *)
(* the CRC refuses what is not a message.                                   *)
HandleEvent ==
  /\ queued
  /\ queued' = FALSE /\ buffer' = IdleBuffer
  /\ handled' = handled \o SetToSeq(Genuine)
  /\ UNCHANGED <<stream, sent, read, hurried>>

(* The connection is lost: MSG_Init, and the next one starts afresh.        *)
Reconnect ==
  /\ stream' \in Streams
  /\ sent' = 0 /\ read' = 0 /\ buffer' = IdleBuffer
  /\ queued' = FALSE /\ handled' = <<>> /\ hurried' = FALSE
=============================================================================
