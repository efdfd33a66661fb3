-------------------------------- MODULE UartTx --------------------------------
(***************************************************************************)
(* The bytes for the MCU (zc_qca_adpter.c): QC_SendDataToMoudle appends a  *)
(* frame to g_u8UartSendBuffer, QC_SendUartData writes the buffer out.     *)
(* The cloud thread, the UART thread and the timer callbacks append, both  *)
(* threads flush, and none of them takes a lock, so that each statement    *)
(* that reads or writes g_u16UartSendLen is a step of its own: the check of *)
(* the length, the two copies and the two new lengths of an append, and    *)
(* what a flush reads and resets.                                           *)
(***************************************************************************)
EXTENDS Integers, FiniteSets, SequencesExt

CONSTANTS
  Contexts,     \* the threads and callbacks that use the buffer
  Flushers,     \* the threads that run QC_SendUartData
  FlagLen,      \* length of u8MagicFlag: 4
  FrameLens,    \* lengths of a frame, its magic flag included
  UartBufLen    \* 1024

ASSUME UartAssumption ==
  /\ Flushers \subseteq Contexts
  /\ FlagLen \in Nat \ {0}
  /\ FrameLens \subseteq {l \in Nat : l > FlagLen}
  /\ UartBufLen \in Nat

VARIABLES
  sendBuffer,  \* g_u8UartSendBuffer and the memory behind it; a byte is <<frame, index>>
  sendLen,     \* g_u16UartSendLen
  pc,          \* where each context is in one of the two functions
  len,         \* u16DataLen + 4 of the frame a context is appending
  out,         \* u32OutLen of each flusher
  total,       \* u32TotalSendLen of each flusher
  frames,      \* the lengths of the frames, as far as they were appended
  wire,        \* the bytes written to the UART
  collided     \* did two contexts meet in one of the windows below

uartVars == <<sendBuffer, sendLen, pc, len, out, total, frames, wire, collided>>

MemLen == 2 * UartBufLen
Wide   == MemLen + 1    \* 2^32, as far as it matters: more than there is to write

Others(c, where) == \E d \in Contexts \ {c} : pc[d] \in where
Flushing  == {"test", "count", "write", "reset"}
Appending == {"flag", "flagLen", "data", "dataLen"}
GoTo(c, label) == pc' = [pc EXCEPT ![c] = label]

UartInit ==
  /\ sendBuffer = [i \in 0..(MemLen - 1) |-> <<0, 0>>]
  /\ sendLen = 0
  /\ pc = [c \in Contexts |-> "idle"]
  /\ len = [c \in Contexts |-> 0]
  /\ out = [c \in Contexts |-> 0] /\ total = [c \in Contexts |-> 0]
  /\ frames = <<>> /\ wire = <<>>
  /\ collided = FALSE

-----------------------------------------------------------------------------
(* The magic flag is not counted.                                           *)
FitsWithoutFlag(l) == sendLen + (l - FlagLen) <= UartBufLen

(* QC_SendDataToMoudle: the frame must fit behind what is buffered.         *)
Fits(l) == sendLen + l <= UartBufLen

(* It reads the length, which the compiler may keep: the append collides    *)
(* with another one that is going on, and with a flush that will set the    *)
(* length to 0 without having seen it.                                      *)
CheckLen(c, l) ==
  /\ pc[c] = "idle" /\ Fits(l)
  /\ len' = [len EXCEPT ![c] = l]
  /\ collided' = (collided \/ Others(c, Appending \cup {"reset"}))
  /\ GoTo(c, "flag")
  /\ UNCHANGED <<sendBuffer, sendLen, out, total, frames, wire>>

(* memcpy of n bytes of the frame f, from its index at on, to where the     *)
(* length says.                                                             *)
CopyBehind(n, f, at) ==
  sendBuffer' = [i \in DOMAIN sendBuffer |->
                   IF i \in sendLen..(sendLen + n - 1)
                   THEN <<f, at + (i - sendLen)>> ELSE sendBuffer[i]]

(* The frame appended last becomes longer.                                  *)
Lengthened(lens, n) ==
  [f \in DOMAIN lens |-> IF f = Len(lens) THEN lens[f] + n ELSE lens[f]]

DataLen(c) == len[c] - FlagLen

CopyFlag(c) ==
  /\ pc[c] = "flag"
  /\ CopyBehind(FlagLen, Len(frames) + 1, 0)
  /\ GoTo(c, "flagLen")
  /\ UNCHANGED <<sendLen, len, out, total, frames, wire, collided>>

CountFlag(c) ==
  /\ pc[c] = "flagLen"
  /\ sendLen' = sendLen + FlagLen
  /\ frames' = Append(frames, FlagLen)
  /\ GoTo(c, "data")
  /\ UNCHANGED <<sendBuffer, len, out, total, wire, collided>>

CopyData(c) ==
  /\ pc[c] = "data"
  /\ CopyBehind(DataLen(c), Len(frames), FlagLen)
  /\ GoTo(c, "dataLen")
  /\ UNCHANGED <<sendLen, len, out, total, frames, wire, collided>>

CountData(c) ==
  /\ pc[c] = "dataLen"
  /\ sendLen' = sendLen + DataLen(c)
  /\ frames' = Lengthened(frames, DataLen(c))
  /\ len' = [len EXCEPT ![c] = 0]
  /\ GoTo(c, "idle")
  /\ UNCHANGED <<sendBuffer, out, total, wire, collided>>

Append_(c) == CopyFlag(c) \/ CountFlag(c) \/ CopyData(c) \/ CountData(c)

-----------------------------------------------------------------------------
(* QC_SendUartData, called when there is something to send; it collides     *)
(* with a flush by the other thread.                                        *)
SendUartData(c) ==
  /\ pc[c] = "idle" /\ sendLen > 0
  /\ total' = [total EXCEPT ![c] = 0]
  /\ collided' = (collided \/ Others(c, Flushing))
  /\ GoTo(c, "test")
  /\ UNCHANGED <<sendBuffer, sendLen, len, out, frames, wire>>

(* The loop counts on one write to take everything.                         *)
TestOnce(c) ==
  /\ pc[c] = "test"
  /\ GoTo(c, IF total[c] = 0 THEN "count" ELSE "reset")
  /\ collided' = (collided \/ (pc'[c] = "reset" /\ Others(c, Appending)))
  /\ UNCHANGED <<sendBuffer, sendLen, len, out, total, frames, wire>>

(* The loop compares what it sent with the length as it is now.  Its last   *)
(* test collides with an append that is going on: the length will be set    *)
(* to 0 before or after it counts.                                          *)
Test(c) ==
  /\ pc[c] = "test"
  /\ GoTo(c, IF total[c] < sendLen THEN "count" ELSE "reset")
  /\ collided' = (collided \/ (pc'[c] = "reset" /\ Others(c, Appending)))
  /\ UNCHANGED <<sendBuffer, sendLen, len, out, total, frames, wire>>

(* It reads the length again; when the other thread has set it to 0 between *)
(* the two reads the unsigned difference wraps.                             *)
Count(c) ==
  /\ pc[c] = "count"
  /\ out' = [out EXCEPT ![c] = (sendLen - total[c]) % Wide]
  /\ GoTo(c, "write")
  /\ UNCHANGED <<sendBuffer, sendLen, len, total, frames, wire, collided>>

(* qcom_uart_write takes some of the bytes.                                 *)
Write(c) ==
  /\ pc[c] = "write"
  /\ \E n \in 0..out[c] :
       /\ total[c] + n <= MemLen
       /\ wire' = wire \o [i \in 1..n |-> sendBuffer[total[c] + i - 1]]
       /\ total' = [total EXCEPT ![c] = @ + n]
  /\ out' = [out EXCEPT ![c] = 0]
  /\ GoTo(c, "test")
  /\ UNCHANGED <<sendBuffer, sendLen, len, frames, collided>>

Reset(c) ==
  /\ pc[c] = "reset"
  /\ sendLen' = 0
  /\ total' = [total EXCEPT ![c] = 0]
  /\ GoTo(c, "idle")
  /\ UNCHANGED <<sendBuffer, len, out, frames, wire, collided>>

Flush(c) == SendUartData(c) \/ Test(c) \/ Count(c) \/ Write(c) \/ Reset(c)

-----------------------------------------------------------------------------
(* Where the flush that is going on is in the buffer.                       *)
Position ==
  LET flushers == {c \in Contexts : pc[c] \in Flushing}
  IN  IF flushers = {} THEN 0 ELSE total[CHOOSE c \in flushers : TRUE]

(* What is still to be written: all of the buffer, or what is left of it.   *)
Unsent == [i \in 1..(sendLen - Position) |-> sendBuffer[Position + i - 1]]

(* The byte after <<f, i>> is the next one of the frame f, or the first of  *)
(* the frame that was appended next.                                        *)
ByteAfter(byte, lens) ==
  IF byte[2] + 1 < lens[byte[1]] THEN <<byte[1], byte[2] + 1>> ELSE <<byte[1] + 1, 0>>

(* The bytes are those of frames of these lengths, whole, once and in order.*)
Spell(bytes, lens) ==
  /\ \A i \in DOMAIN bytes : bytes[i][1] \in DOMAIN lens /\ bytes[i][2] < lens[bytes[i][1]]
  /\ bytes = <<>> <=> lens = <<>>
  /\ bytes # <<>> => /\ bytes[1] = <<1, 0>>
                     /\ bytes[Len(bytes)] = <<Len(lens), lens[Len(lens)] - 1>>
  /\ \A i \in 1..(Len(bytes) - 1) : bytes[i + 1] = ByteAfter(bytes[i], lens)

(* Every frame is there with all of its bytes, but for one that is just     *)
(* being appended and has its flag.                                         *)
WholeFrames ==
  \A f \in DOMAIN frames :
    \/ frames[f] \in FrameLens
    \/ /\ f = Len(frames) /\ frames[f] = FlagLen
       /\ \E c \in Contexts : pc[c] \in {"data", "dataLen"}

(* As long as no two contexts met in the windows named above, the MCU is    *)
(* sent every frame that was accepted, whole, once and in order: a frame    *)
(* appended while the other thread flushes is caught by the loop, also when *)
(* the flush sees its flag before its data.  The frames in between are in   *)
(* g_u8UartSendBuffer, which is large enough for them (the check of         *)
(* QC_SendDataToMoudle).                                                    *)
FramesReachTheMcu ==
  ~collided =>
    /\ Spell(wire \o Unsent, frames) /\ WholeFrames
    /\ sendLen <= UartBufLen
=============================================================================
