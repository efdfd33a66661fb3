----------------------------- MODULE UartAssembly ----------------------------
(***************************************************************************)
(* How the frames of the MCU are put together again from what the UART     *)
(* delivers (QC_CloudUartfunc, ZC_AssemblePkt and ZC_Moudlefunc): in       *)
(* pieces cut anywhere, with several frames or parts of frames in one      *)
(* piece, while the cloud thread may empty the UART buffer at any time     *)
(* because the connection to the cloud is lost.                            *)
(*                                                                         *)
(* The bytes are those of one stream, numbered from 0.  The UART buffer    *)
(* always holds a part of the stream without gaps, so two positions stand  *)
(* for its contents.  A byte is known only by where it is: at the start of *)
(* a frame, where the magic and the length are read, or not.  The magic is *)
(* assumed not to occur inside of a frame.                                 *)
(***************************************************************************)
EXTENDS Naturals

CONSTANTS
  HeadLen,                  \* u32HeadLen: the magic and a ZC_MessageHead
  ZC_MAX_UARTBUF_LEN,       \* 1000, the longest frame
  MSG_BULID_BUFFER_MAXLEN,  \* 600, the most the UART is asked for at once
  FrameNum,                 \* the number of frames of a stream
  Streams                   \* where the frames of the possible streams start

ASSUME UartAssumption ==
  /\ HeadLen \in Nat \ {0} /\ ZC_MAX_UARTBUF_LEN \in Nat
  /\ MSG_BULID_BUFFER_MAXLEN \in Nat /\ FrameNum \in Nat
  /\ \A s \in Streams :
       /\ s \in [1 .. FrameNum + 1 -> Nat]
       /\ s[1] = 0
       /\ \A j, k \in 1 .. FrameNum + 1 : j < k => s[j] + HeadLen <= s[k]

Frames == 1 .. FrameNum

VARIABLES
  start,        \* the stream: where its frames start, and where it ends
  u32Status,    \* of g_struUartBuffer
  from, pos,    \* it holds the bytes from .. pos - 1: u32RecvLen of them
  left,         \* the bytes read from the UART that are still to be handled
  delivered,    \* how often each frame went to ZC_RecvDataFromMoudle
  disturbed,    \* has a part of a frame been thrown away
  whole         \* how many of the last reads were exactly one frame, up to 2

buffer   == <<u32Status, from, pos>>
uartVars == <<start, buffer, left, delivered, disturbed, whole>>

UartInit ==
  /\ start \in Streams
  /\ u32Status = "IDLE" /\ from = 0 /\ pos = 0
  /\ left = 0
  /\ delivered = [k \in Frames |-> 0]
  /\ disturbed = FALSE
  /\ whole = 0

(* QC_CloudUartfunc reads what has arrived within 100 ms.                   *)
Read ==
  /\ left = 0
  /\ \E n \in 1 .. MSG_BULID_BUFFER_MAXLEN :
       /\ pos + n <= start[FrameNum + 1]
       /\ left' = n
       /\ whole' = IF \E k \in Frames : pos = start[k] /\ pos + n = start[k + 1]
                   THEN IF whole = 0 THEN 1 ELSE 2
                   ELSE 0
  /\ UNCHANGED <<start, buffer, delivered, disturbed>>

-----------------------------------------------------------------------------
(* One call of ZC_Moudlefunc, which calls itself for the bytes behind a     *)
(* frame.  Its three branches differ in where they copy from, not in what   *)
(* they decide: on the bytes in the buffer followed by those at hand.       *)
HeadComplete == u32Status = "SEGMENT_HEAD" \/ pos + left - from >= HeadLen

(* A mutant of the next definition: there is no limit.                      *)
AlwaysFits(k) == TRUE

Fits(k) == start[k + 1] - start[k] <= ZC_MAX_UARTBUF_LEN

(* The magic is there, and with it the length of frame k.                   *)
Begins(k) == start[k] = from

Keep(status) ==
  /\ u32Status' = status
  /\ pos' = pos + left
  /\ left' = 0
  /\ UNCHANGED <<from, delivered, disturbed>>

(* A mutant of the next definition: what is in the buffer stays there.      *)
DiscardKeepingBuffer ==
  /\ from' = IF u32Status = "IDLE" THEN pos + left ELSE from
  /\ pos' = pos + left
  /\ left' = 0
  /\ disturbed' = TRUE
  /\ UNCHANGED <<u32Status, delivered>>

Discard ==
  /\ u32Status' = "IDLE"
  /\ from' = pos + left /\ pos' = pos + left
  /\ left' = 0
  /\ disturbed' = TRUE
  /\ UNCHANGED delivered

(* Mutants of the next definition: what follows in the same read is lost,   *)
(* as it is in MSG_RecvData; the buffer is not emptied.                     *)
DeliverOnly(k) ==
  /\ u32Status' = "IDLE"
  /\ from' = pos + left /\ pos' = pos + left
  /\ left' = 0
  /\ delivered' = [delivered EXCEPT ![k] = @ + 1]
  /\ UNCHANGED disturbed

DeliverKeepingBuffer(k) ==
  /\ u32Status' = "SEGMENT_HEAD"
  /\ pos' = start[k + 1]
  /\ left' = pos + left - start[k + 1]
  /\ delivered' = [delivered EXCEPT ![k] = @ + 1]
  /\ UNCHANGED <<from, disturbed>>

(* The frame is handed over and the buffer emptied; the rest is at hand.    *)
Deliver(k) ==
  /\ u32Status' = "IDLE"
  /\ from' = start[k + 1] /\ pos' = start[k + 1]
  /\ left' = pos + left - start[k + 1]
  /\ delivered' = [delivered EXCEPT ![k] = @ + 1]
  /\ UNCHANGED disturbed

Moudlefunc ==
  /\ left > 0
  /\ \/ ~HeadComplete /\ Keep("SEGMENT_NOHEAD")
     \/ HeadComplete /\ (\A k \in Frames : ~Begins(k)) /\ Discard
     \/ \E k \in Frames :
          /\ HeadComplete /\ Begins(k)
          /\ \/ u32Status # "SEGMENT_HEAD" /\ ~Fits(k) /\ Discard
             \/ /\ u32Status = "SEGMENT_HEAD" \/ Fits(k)
                /\ IF start[k + 1] <= pos + left
                   THEN Deliver(k)
                   ELSE Keep("SEGMENT_HEAD")
  /\ UNCHANGED <<start, whole>>

(* The cloud thread empties the UART buffer when the connection ends.       *)
Reset ==
  /\ u32Status' = "IDLE"
  /\ from' = pos
  /\ disturbed' = (disturbed \/ u32Status # "IDLE")
  /\ whole' = 0
  /\ UNCHANGED <<start, pos, left, delivered>>

UartNext == Read \/ Moudlefunc \/ Reset

UartSpec == UartInit /\ [][UartNext]_uartVars

-----------------------------------------------------------------------------
(* The type invariant.                                                      *)
UartTypeOK ==
  /\ start \in [1 .. FrameNum + 1 -> Nat]
  /\ u32Status \in {"IDLE", "SEGMENT_NOHEAD", "SEGMENT_HEAD"}
  /\ from \in Nat /\ pos \in Nat /\ left \in Nat
  /\ from <= pos /\ pos + left <= start[FrameNum + 1]
  /\ delivered \in [Frames -> Nat]
  /\ disturbed \in BOOLEAN
  /\ whole \in 0 .. 2

(* What the status says of the buffer: nothing, less than a head, or a head *)
(* and less than the frame that the head belongs to, which fits into it.    *)
(* The length is read from the buffer again for every piece that arrives.   *)
BufferHoldsOneFrame ==
  /\ u32Status = "IDLE" => from = pos
  /\ u32Status = "SEGMENT_NOHEAD" => pos < from + HeadLen
  /\ u32Status = "SEGMENT_HEAD" =>
       \E k \in Frames : /\ start[k] = from /\ pos < start[k + 1]
                         /\ start[k + 1] - from <= ZC_MAX_UARTBUF_LEN

(* No frame is handled twice, and none before its last byte has arrived,    *)
(* whatever is cut, coalesced and thrown away.                              *)
NoFrameTwice ==
  \A k \in Frames : delivered[k] <= 1 /\ (delivered[k] = 1 => start[k + 1] <= pos)

(* Whatever is cut, coalesced and thrown away, the buffer holds a part of   *)
(* one frame that fits into it, and what it held is handled once at most.   *)
FramesAreHandledOnce == BufferHoldsOneFrame /\ NoFrameTwice

(* As long as nothing was thrown away every frame is handled as soon as its *)
(* last byte is, however the UART cuts the stream.                          *)
EveryFrameArrives ==
  ~disturbed => \A k \in Frames : start[k + 1] <= pos => delivered[k] = 1

(* The buffer recovers from anything that was thrown away, in the middle of *)
(* a frame or not, by two frames that arrive in a read of their own each:   *)
(* the second one is handled.  (The first may be lost to a few bytes that   *)
(* are left of an older frame.)                                             *)
Resynchronises ==
  \A k \in Frames :
    whole = 2 /\ left = 0 /\ pos = start[k + 1] /\ Fits(k) => delivered[k] = 1
=============================================================================
