------------------------- MODULE MessagePath_proofs --------------------------
(***************************************************************************)
(* Proofs about the way a message takes through the module: UartAssembly   *)
(* puts it together from the bytes of the MCU, SendPath queues it and      *)
(* sends it to the cloud.                                                  *)
(***************************************************************************)
EXTENDS UartAssembly, SendPath, FiniteSetTheorems, SequenceTheorems, TLAPS

-----------------------------------------------------------------------------
(***************************************************************************)
(* Proofs about UartAssembly: for streams of any frames, cut and coalesced *)
(* in any way, with the buffer emptied at any time.                        *)
(*                                                                         *)
(* Three things have to be known beyond the invariants.  As long as        *)
(* nothing was thrown away the buffer begins at a frame (InStep).  While a *)
(* frame that was read on its own is being handled it is at hand as a      *)
(* whole, and afterwards the buffer is empty (WholeFrames).                *)
(***************************************************************************)
InStep ==
  ~disturbed =>
    /\ \E k \in 1 .. FrameNum + 1 : start[k] = from
    /\ \A k \in Frames : start[k + 1] <= from => delivered[k] = 1

WholeFrames ==
  /\ whole > 0 /\ left > 0 =>
       \E k \in Frames : pos = start[k] /\ pos + left = start[k + 1]
  /\ whole > 0 /\ left = 0 => u32Status = "IDLE"
  /\ whole = 2 => u32Status = "IDLE"

UartIndInv ==
  /\ UartTypeOK
  /\ start \in Streams
  /\ BufferHoldsOneFrame
  /\ NoFrameTwice
  /\ InStep
  /\ WholeFrames
  /\ Resynchronises

(* The starts of the frames of a stream.                                    *)
LEMMA StreamFacts ==
  ASSUME start \in Streams
  PROVE  /\ HeadLen \in Nat \ {0} /\ FrameNum \in Nat
         /\ ZC_MAX_UARTBUF_LEN \in Nat /\ MSG_BULID_BUFFER_MAXLEN \in Nat
         /\ start \in [1 .. FrameNum + 1 -> Nat]
         /\ start[1] = 0
         /\ \A j, k \in 1 .. FrameNum + 1 : j < k => start[j] + HeadLen <= start[k]
BY UartAssumption

LEMMA FrameFacts ==
  ASSUME start \in Streams, NEW k \in Frames
  PROVE  /\ k \in Nat /\ k \in 1 .. FrameNum + 1 /\ k + 1 \in 1 .. FrameNum + 1
         /\ start[k] \in Nat /\ start[k + 1] \in Nat /\ start[FrameNum + 1] \in Nat
         /\ start[k] + HeadLen <= start[k + 1]
         /\ start[k + 1] <= start[FrameNum + 1]
         /\ HeadLen \in Nat \ {0} /\ FrameNum \in Nat
<1>1. k \in Nat /\ k \in 1 .. FrameNum + 1 /\ k + 1 \in 1 .. FrameNum + 1
      /\ FrameNum + 1 \in 1 .. FrameNum + 1 /\ k < k + 1 /\ FrameNum \in Nat
      /\ HeadLen \in Nat \ {0}
  BY StreamFacts DEF Frames
<1>2. start[k] \in Nat /\ start[k + 1] \in Nat /\ start[FrameNum + 1] \in Nat
  BY <1>1, StreamFacts
<1>3. start[k] + HeadLen <= start[k + 1]
  BY <1>1, StreamFacts
<1>4. CASE k = FrameNum
  BY <1>1, <1>2, <1>3, <1>4
<1>5. CASE k # FrameNum
  <2>1. k + 1 < FrameNum + 1
    BY <1>1, <1>5
  <2>2. start[k + 1] + HeadLen <= start[FrameNum + 1]
    BY <2>1, <1>1, StreamFacts
  <2> QED BY <2>2, <1>1, <1>2, <1>3
<1> QED BY <1>1, <1>2, <1>3, <1>4, <1>5

(* Frames do not overlap: one that comes before another ends before it      *)
(* begins, and two that begin or end at the same place are the same.        *)
LEMMA FramesApart ==
  ASSUME start \in Streams, NEW j \in Frames, NEW k \in Frames
  PROVE  /\ j < k => start[j + 1] <= start[k] /\ start[j] < start[k] /\ start[j + 1] < start[k + 1]
         /\ start[j] = start[k] => j = k
         /\ start[j + 1] = start[k + 1] => j = k
<1>1. ASSUME NEW a \in Frames, NEW b \in Frames, a < b
      PROVE  start[a + 1] <= start[b] /\ start[a] < start[b] /\ start[a + 1] < start[b + 1]
  <2>1. CASE a + 1 = b
    BY <2>1, FrameFacts
  <2>2. CASE a + 1 < b
    <3>1. start[a + 1] + HeadLen <= start[b]
      BY <2>2, FrameFacts, StreamFacts
    <3> QED BY <3>1, FrameFacts
  <2> QED BY <1>1, <2>1, <2>2, FrameFacts
<1>2. j < k \/ k < j \/ j = k
  BY FrameFacts
<1>3. start[j] \in Nat /\ start[k] \in Nat /\ start[j + 1] \in Nat /\ start[k + 1] \in Nat
  BY FrameFacts
<1> QED BY <1>1, <1>2, <1>3

(* A frame that begins in the buffer has not arrived completely.            *)
LEMMA BeginsIncomplete ==
  ASSUME UartIndInv, NEW k \in Frames, Begins(k)
  PROVE  pos < start[k + 1]
<1>1. /\ k \in 1 .. FrameNum + 1 /\ k + 1 \in 1 .. FrameNum + 1
      /\ start[k] + HeadLen <= start[k + 1]
  BY StreamFacts DEF UartIndInv, Frames
<1>2. CASE u32Status = "IDLE"
  BY <1>1, <1>2, StreamFacts DEF UartIndInv, UartTypeOK, BufferHoldsOneFrame, Begins
<1>3. CASE u32Status = "SEGMENT_NOHEAD"
  BY <1>1, <1>3, StreamFacts DEF UartIndInv, UartTypeOK, BufferHoldsOneFrame, Begins
<1>4. CASE u32Status = "SEGMENT_HEAD"
  <2>1. PICK j \in Frames : start[j] = from /\ pos < start[j + 1]
    BY <1>4 DEF UartIndInv, BufferHoldsOneFrame
  <2>2. j = k
    BY <2>1, <1>1, StreamFacts DEF UartIndInv, Frames, Begins
  <2> QED BY <2>1, <2>2
<1> QED BY <1>2, <1>3, <1>4 DEF UartIndInv, UartTypeOK

LEMMA UartIndInit == UartInit => UartIndInv
<1> SUFFICES ASSUME UartInit PROVE UartIndInv
  OBVIOUS
<1>1. start \in Streams
  BY DEF UartInit
<1>2. UartTypeOK
  <2>1. start[FrameNum + 1] \in Nat
    BY <1>1, StreamFacts
  <2>2. disturbed \in BOOLEAN /\ delivered \in [Frames -> Nat]
    BY DEF UartInit
  <2> QED BY <1>1, <2>1, <2>2, StreamFacts DEF UartInit, UartTypeOK
<1>3. InStep
  <2>1. 1 \in 1 .. FrameNum + 1 /\ start[1] = from
    BY <1>1, StreamFacts DEF UartInit
  <2>2. ASSUME NEW k \in Frames PROVE ~(start[k + 1] <= from)
    BY <1>1, FrameFacts DEF UartInit
  <2> QED BY <2>1, <2>2 DEF InStep
<1>4. Resynchronises
  BY DEF UartInit, Resynchronises
<1>5. BufferHoldsOneFrame /\ WholeFrames
  BY DEF UartInit, BufferHoldsOneFrame, WholeFrames
<1>6. NoFrameTwice
  BY DEF UartInit, NoFrameTwice
<1> QED BY <1>1, <1>2, <1>3, <1>4, <1>5, <1>6 DEF UartIndInv

LEMMA ReadStep == ASSUME UartIndInv, Read PROVE UartIndInv'
<1>1. start' \in Streams
  BY DEF UartIndInv, Read
<1>2. UartTypeOK'
  <2>1. disturbed' \in BOOLEAN
    BY DEF UartIndInv, UartTypeOK, Read
  <2> QED BY <2>1, StreamFacts DEF UartIndInv, UartTypeOK, Read, buffer
<1>3. BufferHoldsOneFrame' /\ NoFrameTwice' /\ InStep'
  BY DEF UartIndInv, Read, buffer, BufferHoldsOneFrame, NoFrameTwice, InStep, Frames
<1>4. WholeFrames'
  <2>1. left' > 0
    BY StreamFacts DEF UartIndInv, Read
  <2>2. ASSUME whole' > 0 PROVE \E k \in Frames : pos' = start'[k] /\ pos' + left' = start'[k + 1]
    BY <2>2 DEF Read, buffer
  <2>3. ASSUME whole' = 2 PROVE u32Status' = "IDLE"
    BY <2>3 DEF UartIndInv, UartTypeOK, WholeFrames, Read, buffer
  <2> QED BY <2>1, <2>2, <2>3 DEF WholeFrames, UartIndInv, UartTypeOK
<1>5. Resynchronises'
  BY StreamFacts DEF UartIndInv, Read, Resynchronises
<1> QED BY <1>1, <1>2, <1>3, <1>4, <1>5 DEF UartIndInv

LEMMA ResetStep == ASSUME UartIndInv, Reset PROVE UartIndInv'
<1>1. start' \in Streams
  BY DEF UartIndInv, Reset
<1>2. UartTypeOK'
  <2>1. disturbed' \in BOOLEAN
    BY DEF UartIndInv, UartTypeOK, Reset
  <2> QED BY <2>1 DEF UartIndInv, UartTypeOK, Reset
<1>3. BufferHoldsOneFrame' /\ NoFrameTwice'
  BY DEF UartIndInv, Reset, BufferHoldsOneFrame, NoFrameTwice, Frames
<1>4. InStep'
  <2>1. ASSUME ~disturbed' PROVE ~disturbed /\ from' = from
    BY <2>1 DEF UartIndInv, Reset, BufferHoldsOneFrame
  <2> QED BY <2>1 DEF UartIndInv, Reset, InStep
<1>5. WholeFrames' /\ Resynchronises'
  BY DEF Reset, WholeFrames, Resynchronises
<1> QED BY <1>1, <1>2, <1>3, <1>4, <1>5 DEF UartIndInv

(* Bytes are kept for later when what they belong to is not complete.  A    *)
(* frame that was read on its own is never kept.                            *)
LEMMA KeepStep ==
  ASSUME UartIndInv, left > 0, UNCHANGED <<start, whole>>, NEW s \in {"SEGMENT_NOHEAD", "SEGMENT_HEAD"},
         Keep(s),
         \/ s = "SEGMENT_NOHEAD" /\ ~HeadComplete
         \/ /\ s = "SEGMENT_HEAD" /\ HeadComplete
            /\ \E k \in Frames : /\ Begins(k) /\ pos + left < start[k + 1]
                                 /\ u32Status = "SEGMENT_HEAD" \/ Fits(k)
  PROVE  UartIndInv'
<1>1. start' \in Streams
  BY DEF UartIndInv
<1>2. UartTypeOK'
  <2>1. disturbed' \in BOOLEAN
    BY DEF UartIndInv, UartTypeOK, Keep
  <2> QED BY <2>1 DEF UartIndInv, UartTypeOK, Keep
<1>3. BufferHoldsOneFrame'
  <2>1. CASE s = "SEGMENT_NOHEAD" /\ ~HeadComplete
    <3>1. ~(pos + left - from >= HeadLen)
      BY <2>1 DEF HeadComplete
    <3>2. pos' < from' + HeadLen
      BY <3>1, StreamFacts DEF UartIndInv, UartTypeOK, Keep
    <3> QED BY <2>1, <3>2 DEF Keep, BufferHoldsOneFrame
  <2>2. CASE s = "SEGMENT_HEAD" /\ HeadComplete
    <3>1. PICK k \in Frames : /\ Begins(k) /\ pos + left < start[k + 1]
                              /\ u32Status = "SEGMENT_HEAD" \/ Fits(k)
      BY <2>2
    <3>2. start[k + 1] - from <= ZC_MAX_UARTBUF_LEN
      <4>1. CASE Fits(k)
        BY <4>1, <3>1 DEF Fits, Begins
      <4>2. CASE u32Status = "SEGMENT_HEAD"
        <5>1. PICK j \in Frames : /\ start[j] = from /\ pos < start[j + 1]
                                  /\ start[j + 1] - from <= ZC_MAX_UARTBUF_LEN
          BY <4>2 DEF UartIndInv, BufferHoldsOneFrame
        <5>2. j = k
          BY <5>1, <3>1, FramesApart DEF UartIndInv, Begins
        <5> QED BY <5>1, <5>2
      <4> QED BY <3>1, <4>1, <4>2
    <3> QED BY <2>2, <3>1, <3>2 DEF Keep, BufferHoldsOneFrame, Begins, Frames
  <2> QED BY <2>1, <2>2
<1>4. NoFrameTwice'
  BY FrameFacts DEF UartIndInv, UartTypeOK, Keep, NoFrameTwice
<1>5. InStep'
  BY DEF UartIndInv, Keep, InStep, Frames
<1>6. whole = 0
  <2> SUFFICES ASSUME whole # 0 PROVE FALSE
    OBVIOUS
  <2>1. PICK k \in Frames : pos = start[k] /\ pos + left = start[k + 1]
    BY DEF UartIndInv, UartTypeOK, WholeFrames
  <2>2. HeadComplete
    BY <2>1, FrameFacts DEF UartIndInv, UartTypeOK, HeadComplete
  <2>3. PICK j \in Frames : start[j] = from /\ pos + left < start[j + 1]
    BY <2>2 DEF Begins
  <2>4. ~(k < j)
    BY <2>1, <2>3, FramesApart, FrameFacts DEF UartIndInv, UartTypeOK
  <2>5. CASE j = k
    BY <2>1, <2>3, <2>5, FrameFacts DEF UartIndInv, UartTypeOK
  <2>6. CASE j < k
    <3>1. start[j + 1] <= start[k]
      BY <2>6, FramesApart DEF UartIndInv
    <3>2. start[j + 1] \in Nat /\ start[k] \in Nat
      BY FrameFacts DEF UartIndInv
    <3> QED BY <2>1, <2>3, <3>1, <3>2 DEF UartIndInv, UartTypeOK
  <2> QED BY <2>4, <2>5, <2>6, FrameFacts DEF UartIndInv
<1>7. WholeFrames' /\ Resynchronises'
  BY <1>6 DEF WholeFrames, Resynchronises
<1> QED BY <1>1, <1>2, <1>3, <1>4, <1>5, <1>7 DEF UartIndInv

(* Bytes are thrown away when they do not begin with a frame, or with one   *)
(* that is too long.                                                        *)
LEMMA DiscardStep ==
  ASSUME UartIndInv, left > 0, UNCHANGED <<start, whole>>, Discard,
         \A k \in Frames : Begins(k) => ~Fits(k)
  PROVE  UartIndInv'
<1>1. start' \in Streams
  BY DEF UartIndInv
<1>2. UartTypeOK'
  <2>1. disturbed' \in BOOLEAN
    BY DEF Discard
  <2> QED BY <2>1 DEF UartIndInv, UartTypeOK, Discard
<1>3. BufferHoldsOneFrame' /\ InStep'
  BY DEF Discard, BufferHoldsOneFrame, InStep
<1>4. NoFrameTwice'
  BY FrameFacts DEF UartIndInv, UartTypeOK, Discard, NoFrameTwice
<1>5. WholeFrames'
  BY DEF Discard, WholeFrames
<1>6. Resynchronises'
  <2> SUFFICES ASSUME NEW k \in Frames, whole' = 2, pos' = start'[k + 1], Fits(k)'
               PROVE  FALSE
    BY DEF Resynchronises
  <2>1. PICK j \in Frames : pos = start[j] /\ pos + left = start[j + 1]
    BY DEF UartIndInv, UartTypeOK, WholeFrames
  <2>2. start[k + 1] = start[j + 1]
    BY <2>1 DEF Discard
  <2>3. j = k
    BY <2>2, FramesApart DEF UartIndInv
  <2>4. from = pos
    BY DEF UartIndInv, WholeFrames, BufferHoldsOneFrame
  <2> QED BY <2>1, <2>3, <2>4 DEF Begins, Fits
<1> QED BY <1>1, <1>2, <1>3, <1>4, <1>5, <1>6 DEF UartIndInv

(* A complete frame is handed over, for the first time, and it is the next  *)
(* one if nothing was thrown away.                                          *)
LEMMA DeliverStep ==
  ASSUME UartIndInv, left > 0, UNCHANGED <<start, whole>>, NEW k \in Frames,
         Begins(k), start[k + 1] <= pos + left, Deliver(k)
  PROVE  UartIndInv'
<1>1. start' \in Streams
  BY DEF UartIndInv
<1>2. pos < start[k + 1] /\ delivered[k] = 0
  <2>1. pos < start[k + 1]
    BY BeginsIncomplete
  <2>2. delivered[k] \in Nat /\ pos \in Nat /\ start[k + 1] \in Nat
    BY FrameFacts DEF UartIndInv, UartTypeOK
  <2>3. delivered[k] <= 1 /\ (delivered[k] = 1 => start[k + 1] <= pos)
    BY DEF UartIndInv, NoFrameTwice
  <2> QED BY <2>1, <2>2, <2>3
<1>3. UartTypeOK'
  <2>1. disturbed' \in BOOLEAN
    BY DEF UartIndInv, UartTypeOK, Deliver
  <2>2. delivered' \in [Frames -> Nat]
    BY DEF UartIndInv, UartTypeOK, Deliver
  <2>3. start[k + 1] \in Nat /\ start[FrameNum + 1] \in Nat
    BY FrameFacts DEF UartIndInv
  <2> QED BY <2>1, <2>2, <2>3 DEF UartIndInv, UartTypeOK, Deliver
<1>4. BufferHoldsOneFrame'
  BY DEF Deliver, BufferHoldsOneFrame
<1>5. NoFrameTwice'
  <2> SUFFICES ASSUME NEW j \in Frames
               PROVE  delivered'[j] <= 1 /\ (delivered'[j] = 1 => start[j + 1] <= start[k + 1])
    BY DEF NoFrameTwice, Deliver
  <2>1. CASE j = k
    BY <2>1, <1>2, FrameFacts DEF UartIndInv, UartTypeOK, Deliver
  <2>2. CASE j # k
    <3>1. delivered'[j] = delivered[j]
      BY <2>2 DEF UartIndInv, UartTypeOK, Deliver
    <3> QED BY <3>1, <1>2, FrameFacts DEF UartIndInv, UartTypeOK, NoFrameTwice
  <2> QED BY <2>1, <2>2
<1>6. InStep'
  <2> SUFFICES ASSUME ~disturbed
               PROVE  /\ \E j \in 1 .. FrameNum + 1 : start[j] = start[k + 1]
                      /\ \A j \in Frames : start[j + 1] <= start[k + 1] => delivered'[j] = 1
    BY DEF InStep, Deliver
  <2>1. k + 1 \in 1 .. FrameNum + 1
    BY FrameFacts DEF UartIndInv
  <2>2. ASSUME NEW j \in Frames, start[j + 1] <= start[k + 1] PROVE delivered'[j] = 1
    <3>1. CASE j = k
      BY <3>1, <1>2 DEF UartIndInv, UartTypeOK, Deliver
    <3>2. CASE j # k
      <4>1. j < k
        BY <3>2, <2>2, FramesApart, FrameFacts DEF UartIndInv
      <4>2. start[j + 1] <= from
        BY <4>1, FramesApart DEF UartIndInv, Begins
      <4> QED BY <3>2, <4>2 DEF UartIndInv, UartTypeOK, InStep, Deliver
    <3> QED BY <3>1, <3>2
  <2> QED BY <2>1, <2>2
<1>7. ASSUME whole > 0 PROVE pos + left = start[k + 1]
  <2>1. PICK j \in Frames : pos = start[j] /\ pos + left = start[j + 1]
    BY <1>7 DEF UartIndInv, WholeFrames
  <2>2. start[k] <= start[j]
    BY <2>1 DEF UartIndInv, UartTypeOK, Begins
  <2>3. start[j] < start[k + 1]
    BY <2>1, <1>2
  <2>4. j = k
    BY <2>2, <2>3, FramesApart, FrameFacts DEF UartIndInv
  <2> QED BY <2>1, <2>4
<1>8. WholeFrames'
  <2>1. u32Status' = "IDLE" /\ whole' = whole
    BY DEF Deliver
  <2>2. ASSUME whole > 0 PROVE left' = 0
    <3>1. left' = pos + left - start[k + 1] /\ pos + left = start[k + 1]
      BY <1>7, <2>2 DEF Deliver
    <3>2. start[k + 1] \in Nat
      BY FrameFacts DEF UartIndInv
    <3> QED BY <3>1, <3>2 DEF UartIndInv, UartTypeOK
  <2> QED BY <2>1, <2>2 DEF WholeFrames
<1>9. Resynchronises'
  <2> SUFFICES ASSUME NEW j \in Frames, start[k + 1] = start[j + 1] PROVE delivered'[j] = 1
    BY DEF Resynchronises, Deliver
  <2>1. j = k
    BY FramesApart DEF UartIndInv
  <2> QED BY <2>1, <1>2 DEF UartIndInv, UartTypeOK, Deliver
<1> QED BY <1>1, <1>3, <1>4, <1>5, <1>6, <1>8, <1>9 DEF UartIndInv

LEMMA MoudlefuncStep == ASSUME UartIndInv, Moudlefunc PROVE UartIndInv'
<1>0. left > 0 /\ UNCHANGED <<start, whole>>
  BY DEF Moudlefunc
<1>1. CASE ~HeadComplete /\ Keep("SEGMENT_NOHEAD")
  BY <1>0, <1>1, KeepStep
<1>2. CASE (\A k \in Frames : ~Begins(k)) /\ Discard
  BY <1>0, <1>2, DiscardStep
<1>3. ASSUME NEW k \in Frames, HeadComplete, Begins(k), Discard, ~Fits(k) PROVE UartIndInv'
  <2>1. ASSUME NEW j \in Frames, Begins(j) PROVE ~Fits(j)
    BY <1>3, <2>1, FramesApart DEF UartIndInv, Begins
  <2> QED BY <1>0, <1>3, <2>1, DiscardStep
<1>4. ASSUME NEW k \in Frames, HeadComplete, Begins(k), u32Status = "SEGMENT_HEAD" \/ Fits(k),
             start[k + 1] <= pos + left, Deliver(k)
      PROVE  UartIndInv'
  BY <1>0, <1>4, DeliverStep
<1>5. ASSUME NEW k \in Frames, HeadComplete, Begins(k), u32Status = "SEGMENT_HEAD" \/ Fits(k),
             ~(start[k + 1] <= pos + left), Keep("SEGMENT_HEAD")
      PROVE  UartIndInv'
  <2>1. pos + left < start[k + 1]
    BY <1>5, FrameFacts DEF UartIndInv, UartTypeOK
  <2>2. \E j \in Frames : /\ Begins(j) /\ pos + left < start[j + 1]
                          /\ u32Status = "SEGMENT_HEAD" \/ Fits(j)
    BY <1>5, <2>1
  <2> QED BY <1>0, <1>5, <2>2, KeepStep
<1> QED BY <1>1, <1>2, <1>3, <1>4, <1>5 DEF Moudlefunc

LEMMA UartIndStep == UartIndInv /\ [UartNext]_uartVars => UartIndInv'
<1> SUFFICES ASSUME UartIndInv, [UartNext]_uartVars PROVE UartIndInv'
  OBVIOUS
<1>1. CASE UartNext
  BY <1>1, ReadStep, MoudlefuncStep, ResetStep DEF UartNext
<1>2. CASE UNCHANGED uartVars
  BY <1>2 DEF uartVars, buffer, UartIndInv, UartTypeOK, BufferHoldsOneFrame, NoFrameTwice, InStep,
              WholeFrames, Resynchronises, Frames, Fits
<1> QED BY <1>1, <1>2

(* The inductive invariant holds in every state: the facts about the UART   *)
(* buffer of ZC_AssemblePkt that the theorems below follow from.            *)
THEOREM UartInductive == UartSpec => []UartIndInv
BY UartIndInit, UartIndStep, PTL DEF UartSpec

(* The variables keep their types: in particular ZC_AssemblePkt never       *)
(* leaves more bytes to handle than it was given.                           *)
THEOREM TypeCorrect == UartSpec => []UartTypeOK
<1>1. UartIndInv => UartTypeOK
  BY DEF UartIndInv
<1> QED BY <1>1, UartInductive, PTL

(* No frame reaches ZC_RecvDataFromMoudle twice, and the buffer it comes    *)
(* from holds no more than a part of it.                                    *)
THEOREM HandledOnce == UartSpec => []FramesAreHandledOnce
<1>1. UartIndInv => FramesAreHandledOnce
  BY DEF UartIndInv, FramesAreHandledOnce
<1> QED BY <1>1, UartInductive, PTL

(* As long as nothing is thrown away every frame of the MCU is handled as   *)
(* soon as it has arrived, however the UART cuts the stream.                *)
THEOREM AllArrive == UartSpec => []EveryFrameArrives
<1>1. UartIndInv => EveryFrameArrives
  <2> SUFFICES ASSUME UartIndInv, ~disturbed, NEW k \in Frames, start[k + 1] <= pos
               PROVE  delivered[k] = 1
    BY DEF EveryFrameArrives
  <2>1. PICK j \in 1 .. FrameNum + 1 : start[j] = from
    BY DEF UartIndInv, InStep
  <2>2. start[k + 1] <= from
    <3>1. CASE u32Status = "IDLE"
      BY <3>1 DEF UartIndInv, BufferHoldsOneFrame
    <3>2. CASE u32Status = "SEGMENT_NOHEAD"
      <4>1. pos < from + HeadLen
        BY <3>2 DEF UartIndInv, BufferHoldsOneFrame
      <4>2. k + 1 \in 1 .. FrameNum + 1 /\ start[k + 1] \in Nat /\ start[j] \in Nat
            /\ HeadLen \in Nat
        BY FrameFacts, StreamFacts DEF UartIndInv
      <4>3. CASE j < k + 1
        <5>1. start[j] + HeadLen <= start[k + 1]
          BY <4>2, <4>3, StreamFacts DEF UartIndInv
        <5> QED BY <5>1, <2>1, <4>1, <4>2 DEF UartIndInv, UartTypeOK
      <4>4. CASE j = k + 1
        BY <4>4, <2>1, <4>2
      <4>5. CASE k + 1 < j
        <5>1. start[k + 1] + HeadLen <= start[j]
          BY <4>2, <4>5, StreamFacts DEF UartIndInv
        <5> QED BY <5>1, <2>1, <4>2
      <4> QED BY <4>2, <4>3, <4>4, <4>5
    <3>3. CASE u32Status = "SEGMENT_HEAD"
      <4>1. PICK i \in Frames : start[i] = from /\ pos < start[i + 1]
        BY <3>3 DEF UartIndInv, BufferHoldsOneFrame
      <4>2. start[k + 1] < start[i + 1]
        BY <4>1, FrameFacts DEF UartIndInv, UartTypeOK
      <4>3. k < i
        BY <4>2, FramesApart, FrameFacts DEF UartIndInv
      <4> QED BY <4>1, <4>3, FramesApart DEF UartIndInv
    <3> QED BY <3>1, <3>2, <3>3 DEF UartIndInv, UartTypeOK
  <2> QED BY <2>2 DEF UartIndInv, InStep
<1> QED BY <1>1, UartInductive, PTL

(* Whatever was thrown away before, two frames that arrive on their own are *)
(* enough for ZC_AssemblePkt to be in step again.                           *)
THEOREM Recovers == UartSpec => []Resynchronises
<1>1. UartIndInv => Resynchronises
  BY DEF UartIndInv
<1> QED BY <1>1, UartInductive, PTL

-----------------------------------------------------------------------------
(***************************************************************************)
(* Proofs about SendPath, for rings and buffers of any size.               *)
(*                                                                         *)
(* The types hold whoever queues messages.  With one context that queues   *)
(* them, which may be the cloud thread itself, every full buffer is in one *)
(* place and the queue implements the bounded FIFO; the run SendPath_race  *)
(* shows that two contexts break both.                                     *)
(*                                                                         *)
(* The ring has one node more than it holds messages, and at least as many *)
(* messages fit as there are buffers: a buffer that is being pushed is     *)
(* none of those that wait, so that the ring is never full when it is      *)
(* pushed (Room) and MSG_PushMsg, whose result is ignored, never fails.    *)
(***************************************************************************)
OnePusher == \E u : Pushers = {u}

Entries == Buffers \cup {NULL}

(* The ring without remainders: how many nodes from the head to the tail,   *)
(* and which is i nodes after the head.                                     *)
Distance(h, t) == IF t <= h THEN h - t ELSE h + Size - t
Step(h, i)     == IF i <= h THEN h - i ELSE h + Size - i

IsPushing(c) == pc[c] \in {"check", "store", "advance"}

HasPlace(b) ==
  \/ \E j \in DOMAIN Pending : Pending[j] = b
  \/ \E c \in Pushers : IsPushing(c) /\ u32Index[c] = b
  \/ pc[CloudThread] = "free" /\ popped = b

(* A buffer waits at most once, and the one that is pushed or was just sent *)
(* does not wait.                                                           *)
PlacesAreDistinct ==
  /\ \A j \in DOMAIN Pending : Pending[j] \in Buffers
  /\ \A i, j \in DOMAIN Pending : Pending[i] = Pending[j] => i = j
  /\ \A c \in Pushers : IsPushing(c) =>
       /\ \A j \in DOMAIN Pending : Pending[j] # u32Index[c]
       /\ pc[CloudThread] = "free" => popped # u32Index[c]
  /\ pc[CloudThread] = "free" => \A j \in DOMAIN Pending : Pending[j] # popped

FullBuffers ==
  /\ \A b \in Buffers : u8Status[b] = "FULL" <=> HasPlace(b)
  /\ \A b \in Buffers : u8Status[b] = "FULL" => content[b] \in Messages
  /\ \A c \in Pushers :
       /\ pc[c] \in {"encrypt", "full"} => u8Status[u32Index[c]] = "IDLE"
       /\ pc[c] = "full" => content[u32Index[c]] \in Messages

(* What the checks before a push and a pop found is still so when the ring  *)
(* is changed.                                                              *)
ChecksStillHold ==
  /\ pc[CloudThread] \in {"take", "next"} => pstruHead # pstruTail
  /\ \A c \in Pushers :
       pc[c] \in {"store", "advance"} =>
         tailRead[c] = pstruTail /\ NextOf(pstruTail) # pstruHead
  /\ \A c \in Pushers : pc[c] = "advance" => pu8Msg[pstruTail] = u32Index[c]

TypeInv ==
  /\ TypeOK
  /\ pc[CloudThread] \in {"transmit", "free"} => popped \in Buffers

IndInv ==
  /\ TypeInv
  /\ PlacesAreDistinct
  /\ FullBuffers
  /\ ChecksStillHold

-----------------------------------------------------------------------------
(* The ring.                                                                *)
LEMMA Constants ==
  /\ MSG_QUEUE_MAXLEN \in Nat \ {0} /\ MSG_BUFFER_SEND_MAX_NUM \in Nat \ {0}
  /\ MSG_BUFFER_SEND_MAX_NUM <= MSG_QUEUE_MAXLEN
  /\ Size \in Nat \ {0} /\ Size = MSG_QUEUE_MAXLEN + 1
  /\ Nodes = 0 .. Size - 1
  /\ MessageNum \in Nat \ {0} /\ NULL \notin Nat
BY SendPathAssumption DEF Size, Nodes

LEMMA Remainders ==
  ASSUME NEW h \in Nodes, NEW i \in Nodes
  PROVE  /\ (h + Size - i) % Size = Step(h, i)
         /\ (h + Size - i) % Size = Distance(h, i)
<1>1. CASE i <= h
  <2>1. h + Size - i = (h - i) + Size /\ h - i \in 0 .. Size - 1
    BY <1>1, Constants
  <2>2. \A a, m \in Nat : m > 0 /\ a < m => (a + m) % m = a
    OBVIOUS
  <2> QED BY <1>1, <2>1, <2>2, Constants DEF Step, Distance
<1>2. CASE i > h
  <2>1. h + Size - i \in 0 .. Size - 1
    BY <1>2, Constants
  <2>2. \A a, m \in Nat : m > 0 /\ a < m => a % m = a
    OBVIOUS
  <2> QED BY <1>2, <2>1, <2>2, Constants DEF Step, Distance
<1> QED BY <1>1, <1>2, Constants

(* Walking from the head reaches each node once, and the tail after the     *)
(* distance.                                                                *)
LEMMA Walks ==
  ASSUME NEW h \in Nodes, NEW t \in Nodes
  PROVE  /\ Distance(h, t) \in Nodes
         /\ Distance(h, t) = 0 <=> h = t
         /\ Step(h, 0) = h /\ Step(h, Distance(h, t)) = t
         /\ \A i \in Nodes : Step(h, i) \in Nodes
         /\ \A i, j \in Nodes : Step(h, i) = Step(h, j) => i = j
BY Constants DEF Distance, Step

(* Moving the head or the tail on by one.                                   *)
LEMMA Moves ==
  ASSUME NEW h \in Nodes, NEW t \in Nodes
  PROVE  /\ NextOf(h) \in Nodes
         /\ h # t => Distance(NextOf(h), t) = Distance(h, t) - 1
         /\ NextOf(t) # h => Distance(h, NextOf(t)) = Distance(h, t) + 1
         /\ NextOf(t) = h => Distance(h, t) = MSG_QUEUE_MAXLEN
         /\ \A i \in Nodes : i + 1 \in Nodes => Step(NextOf(h), i) = Step(h, i + 1)
BY Constants DEF Distance, Step, NextOf, Nodes

-----------------------------------------------------------------------------
(* The sequence of the buffers that wait, from the parts of the state it is *)
(* read from.                                                               *)
Wait(h, t, msg, at, buf) ==
  (IF at = "transmit" THEN <<buf>> ELSE << >>) \o
  [i \in 1 .. (h + Size - t) % Size |->
     IF i = 1 /\ at = "next" THEN buf ELSE msg[(h + Size - (i - 1)) % Size]]

LEMMA PendingIsWait ==
  /\ Pending = Wait(pstruHead, pstruTail, pu8Msg, pc[CloudThread], popped)
  /\ Pending' = Wait(pstruHead', pstruTail', pu8Msg', pc'[CloudThread], popped')
BY DEF Pending, Wait, NodeAt

IsWait(w, S, h, t, msg, at, buf) ==
  /\ w \in Seq(S)
  /\ at = "transmit" =>
       /\ Len(w) = Distance(h, t) + 1
       /\ w[1] = buf
       /\ \A i \in 1 .. Distance(h, t) : w[i + 1] = msg[Step(h, i - 1)]
  /\ at # "transmit" =>
       /\ Len(w) = Distance(h, t)
       /\ \A i \in 1 .. Distance(h, t) :
            w[i] = IF i = 1 /\ at = "next" THEN buf ELSE msg[Step(h, i - 1)]

LEMMA WaitFacts ==
  ASSUME NEW S, NEW h \in Nodes, NEW t \in Nodes, NEW msg \in [Nodes -> S],
         NEW at, NEW buf \in S
  PROVE  IsWait(Wait(h, t, msg, at, buf), S, h, t, msg, at, buf)
<1> DEFINE d == Distance(h, t)
           r == [i \in 1 .. d |-> IF i = 1 /\ at = "next" THEN buf ELSE msg[Step(h, i - 1)]]
<1>1. (h + Size - t) % Size = d /\ d \in Nat /\ d <= Size - 1
  <2>1. (h + Size - t) % Size = d
    BY Remainders
  <2>2. d \in Nodes
    BY Walks
  <2> HIDE DEF d
  <2> QED BY <2>1, <2>2, Constants
<1>2. \A i \in 1 .. d : i - 1 \in Nodes /\ (h + Size - (i - 1)) % Size = Step(h, i - 1)
                        /\ Step(h, i - 1) \in Nodes
  <2> HIDE DEF d
  <2> TAKE i \in 1 .. d
  <2>1. i - 1 \in Nodes
    BY <1>1, Constants
  <2>2. \A j \in Nodes : (h + Size - j) % Size = Step(h, j) /\ Step(h, j) \in Nodes
    BY Remainders, Walks
  <2> QED BY <2>1, <2>2
<1>3. Wait(h, t, msg, at, buf) = (IF at = "transmit" THEN <<buf>> ELSE << >>) \o r
  BY <1>1, <1>2 DEF Wait
<1>4. r \in [1 .. d -> S]
  BY <1>2
<1>5. r \in Seq(S) /\ Len(r) = d
  BY <1>1, <1>4
<1>6. CASE at = "transmit"
  <2>1. <<buf>> \in Seq(S) /\ Len(<<buf>>) = 1 /\ <<buf>>[1] = buf
    OBVIOUS
  <2>2. Wait(h, t, msg, at, buf) = <<buf>> \o r
    BY <1>3, <1>6
  <2>3. /\ <<buf>> \o r \in Seq(S) /\ Len(<<buf>> \o r) = 1 + d
        /\ \A i \in 1 .. 1 + d : (<<buf>> \o r)[i] = IF i <= 1 THEN <<buf>>[i] ELSE r[i - 1]
    <3> HIDE DEF r, d
    <3> QED BY <2>1, <1>5, ConcatProperties
  <2>4. \A i \in 1 .. d : (<<buf>> \o r)[i + 1] = msg[Step(h, i - 1)]
    BY <2>3, <1>1, <1>6
  <2> QED BY <2>1, <2>2, <2>3, <2>4, <1>1, <1>6 DEF IsWait
<1>7. CASE at # "transmit"
  <2>1. Wait(h, t, msg, at, buf) = r
    BY <1>3, <1>5, <1>7, ConcatEmptySeq
  <2> QED BY <2>1, <1>5, <1>7 DEF IsWait
<1> QED BY <1>6, <1>7

-----------------------------------------------------------------------------
(* What each change of the ring does to the sequence.  The statement a      *)
(* context is at matters only between taking a buffer and sending it.       *)
Plain(at) == at # "next" /\ at # "transmit"

LEMMA WaitElsewhere ==
  ASSUME NEW h, NEW t, NEW msg, NEW at, NEW now, NEW buf, NEW other,
         Plain(at), Plain(now)
  PROVE  Wait(h, t, msg, at, buf) = Wait(h, t, msg, now, other)
BY DEF Wait, Plain

LEMMA WaitTaken ==
  ASSUME NEW h \in Nodes, NEW t \in Nodes, NEW msg \in [Nodes -> Entries],
         NEW buf \in Entries, NEW at, Plain(at), h # t,
         NEW new \in [Nodes -> Entries], \A n \in Nodes : n # h => new[n] = msg[n]
  PROVE  Wait(h, t, new, "next", msg[h]) = Wait(h, t, msg, at, buf)
<1> DEFINE d == Distance(h, t)
           v == Wait(h, t, msg, at, buf)
           w == Wait(h, t, new, "next", msg[h])
<1>1. new \in [Nodes -> Entries] /\ msg[h] \in Entries
  OBVIOUS
<1>2. /\ v \in Seq(Entries) /\ Len(v) = d
      /\ \A i \in 1 .. d : v[i] = msg[Step(h, i - 1)]
  <2>1. IsWait(v, Entries, h, t, msg, at, buf)
    BY WaitFacts
  <2> QED BY <2>1 DEF IsWait, Plain
<1>3. /\ w \in Seq(Entries) /\ Len(w) = d
      /\ \A i \in 1 .. d : w[i] = IF i = 1 THEN msg[h] ELSE new[Step(h, i - 1)]
  <2>1. IsWait(w, Entries, h, t, new, "next", msg[h])
    BY <1>1, WaitFacts
  <2> QED BY <2>1 DEF IsWait
<1>4. d \in Nodes /\ Step(h, 0) = h
      /\ \A i, j \in Nodes : Step(h, i) \in Nodes /\ (Step(h, i) = Step(h, j) => i = j)
  BY Walks
<1>5. ASSUME NEW i \in 1 .. d PROVE w[i] = v[i]
  <2> HIDE DEF d, w, v
  <2>1. i - 1 \in Nodes /\ 0 \in Nodes /\ i \in Int
    BY <1>4, Constants
  <2>2. CASE i = 1
    BY <2>2, <1>2, <1>3, <1>4
  <2>3. CASE i # 1
    <3>1. Step(h, i - 1) # h /\ Step(h, i - 1) \in Nodes
      BY <2>1, <2>3, <1>4
    <3>2. new[Step(h, i - 1)] = msg[Step(h, i - 1)]
      BY <3>1
    <3> QED BY <2>3, <3>2, <1>2, <1>3
  <2> QED BY <2>2, <2>3
<1> HIDE DEF d, w, v
<1> QED BY <1>2, <1>3, <1>5, SeqEqual DEF v, w

LEMMA WaitMovedOn ==
  ASSUME NEW h \in Nodes, NEW t \in Nodes, NEW msg \in [Nodes -> Entries],
         NEW buf \in Entries, h # t
  PROVE  Wait(NextOf(h), t, msg, "transmit", buf) = Wait(h, t, msg, "next", buf)
<1> DEFINE d == Distance(h, t)
           v == Wait(h, t, msg, "next", buf)
           w == Wait(NextOf(h), t, msg, "transmit", buf)
<1>1. /\ v \in Seq(Entries) /\ Len(v) = d
      /\ \A i \in 1 .. d : v[i] = IF i = 1 THEN buf ELSE msg[Step(h, i - 1)]
  <2>1. IsWait(v, Entries, h, t, msg, "next", buf)
    BY WaitFacts
  <2> QED BY <2>1 DEF IsWait
<1>2. /\ NextOf(h) \in Nodes /\ Distance(NextOf(h), t) = d - 1
      /\ \A i \in Nodes : i + 1 \in Nodes => Step(NextOf(h), i) = Step(h, i + 1)
  BY Moves
<1>3. d \in Nodes /\ d # 0
  BY Walks
<1>4. /\ w \in Seq(Entries) /\ Len(w) = (d - 1) + 1 /\ w[1] = buf
      /\ \A i \in 1 .. d - 1 : w[i + 1] = msg[Step(NextOf(h), i - 1)]
  <2>1. IsWait(w, Entries, NextOf(h), t, msg, "transmit", buf)
    BY <1>2, WaitFacts
  <2> HIDE DEF d
  <2> QED BY <2>1, <1>2 DEF IsWait
<1> HIDE DEF d, w, v
<1>5. d \in Nat \ {0} /\ Len(w) = d /\ 1 \in 1 .. d
  BY <1>3, <1>4, Constants
<1>6. ASSUME NEW i \in 1 .. d PROVE w[i] = v[i]
  <2>1. CASE i = 1
    BY <2>1, <1>1, <1>4, <1>5
  <2>2. CASE i # 1
    <3>1. /\ i - 1 \in 1 .. d - 1 /\ (i - 1) + 1 = i
          /\ i - 2 \in Nodes /\ (i - 2) + 1 = i - 1 /\ i - 1 \in Nodes
          /\ (i - 1) - 1 = i - 2
      BY <2>2, <1>3, <1>5, Constants
    <3>2. w[i] = msg[Step(NextOf(h), i - 2)]
      BY <3>1, <1>4
    <3>3. Step(NextOf(h), i - 2) = Step(h, i - 1)
      BY <3>1, <1>2
    <3> QED BY <2>2, <3>2, <3>3, <1>1
  <2> QED BY <2>1, <2>2
<1> QED BY <1>1, <1>4, <1>5, <1>6, SeqEqual DEF v, w

LEMMA WaitSent ==
  ASSUME NEW h \in Nodes, NEW t \in Nodes, NEW msg \in [Nodes -> Entries],
         NEW buf \in Entries, NEW now, Plain(now)
  PROVE  /\ Wait(h, t, msg, "transmit", buf) # << >>
         /\ Head(Wait(h, t, msg, "transmit", buf)) = buf
         /\ Tail(Wait(h, t, msg, "transmit", buf)) = Wait(h, t, msg, now, buf)
<1> DEFINE d == Distance(h, t)
           v == Wait(h, t, msg, "transmit", buf)
           w == Wait(h, t, msg, now, buf)
<1>1. /\ v \in Seq(Entries) /\ Len(v) = d + 1 /\ v[1] = buf
      /\ \A i \in 1 .. d : v[i + 1] = msg[Step(h, i - 1)]
  <2>1. IsWait(v, Entries, h, t, msg, "transmit", buf)
    BY WaitFacts
  <2> QED BY <2>1 DEF IsWait
<1>2. /\ w \in Seq(Entries) /\ Len(w) = d
      /\ \A i \in 1 .. d : w[i] = msg[Step(h, i - 1)]
  <2>1. IsWait(w, Entries, h, t, msg, now, buf)
    BY WaitFacts
  <2> QED BY <2>1 DEF IsWait, Plain
<1>3. d \in Nat
  <2>1. d \in Nodes
    BY Walks
  <2> QED BY <2>1, Constants
<1> HIDE DEF d, w, v
<1>4. v # << >>
  BY <1>1, <1>3
<1>5. /\ Tail(v) \in Seq(Entries) /\ Len(Tail(v)) = Len(v) - 1
      /\ \A i \in 1 .. Len(Tail(v)) : Tail(v)[i] = v[i + 1]
  BY <1>1, <1>4, HeadTailProperties
<1>6. Len(Tail(v)) = d
  BY <1>1, <1>3, <1>5
<1>7. Tail(v) = w
  BY <1>1, <1>2, <1>5, <1>6, SeqEqual
<1>8. Head(v) = v[1]
  BY <1>1
<1> QED BY <1>1, <1>4, <1>7, <1>8 DEF v, w

LEMMA WaitStored ==
  ASSUME NEW h \in Nodes, NEW t \in Nodes, NEW msg \in [Nodes -> Entries],
         NEW buf \in Entries, NEW at,
         NEW new \in [Nodes -> Entries], \A n \in Nodes : n # t => new[n] = msg[n]
  PROVE  Wait(h, t, new, at, buf) = Wait(h, t, msg, at, buf)
<1> DEFINE d == Distance(h, t)
<1>1. (h + Size - t) % Size = d /\ d \in Nodes /\ Step(h, d) = t
  BY Remainders, Walks
<1>2. ASSUME NEW i \in 1 .. d
      PROVE  new[(h + Size - (i - 1)) % Size] = msg[(h + Size - (i - 1)) % Size]
  <2> HIDE DEF d
  <2>1. i - 1 \in Nodes /\ i - 1 # d
    BY <1>1, Constants
  <2>2. (h + Size - (i - 1)) % Size = Step(h, i - 1)
    BY <2>1, Remainders
  <2>3. Step(h, i - 1) \in Nodes /\ (Step(h, i - 1) = Step(h, d) => i - 1 = d)
    <3>1. \A j \in Nodes : Step(h, j) \in Nodes
      BY Walks
    <3>2. \A j, k \in Nodes : Step(h, j) = Step(h, k) => j = k
      BY Walks
    <3> QED BY <2>1, <1>1, <3>1, <3>2
  <2> QED BY <2>1, <2>2, <2>3, <1>1
<1> HIDE DEF d
<1> QED BY <1>1, <1>2 DEF Wait

LEMMA WaitPushed ==
  ASSUME NEW h \in Nodes, NEW t \in Nodes, NEW msg \in [Nodes -> Entries],
         NEW buf \in Entries, NEW at, NextOf(t) # h, at = "next" => h # t
  PROVE  Wait(h, NextOf(t), msg, at, buf) = Append(Wait(h, t, msg, at, buf), msg[t])
<1> DEFINE d == Distance(h, t)
           v == Wait(h, t, msg, at, buf)
           w == Wait(h, NextOf(t), msg, at, buf)
           a == Append(v, msg[t])
<1>1. NextOf(t) \in Nodes /\ Distance(h, NextOf(t)) = d + 1
  BY Moves
<1>2. d \in Nodes /\ Step(h, d) = t /\ (d = 0 => h = t)
  BY Walks
<1>3. d \in Nat
  BY <1>2, Constants
<1>4. /\ IsWait(v, Entries, h, t, msg, at, buf)
      /\ IsWait(w, Entries, h, NextOf(t), msg, at, buf)
  BY <1>1, WaitFacts
<1>7. v \in Seq(Entries) /\ w \in Seq(Entries) /\ msg[t] \in Entries
  BY <1>4 DEF IsWait
<1>5. CASE at = "transmit"
  <2>1. Len(v) = d + 1 /\ v[1] = buf /\ \A i \in 1 .. d : v[i + 1] = msg[Step(h, i - 1)]
    BY <1>4, <1>5 DEF IsWait
  <2>2. /\ Len(w) = (d + 1) + 1 /\ w[1] = buf
        /\ \A i \in 1 .. d + 1 : w[i + 1] = msg[Step(h, i - 1)]
    <3> HIDE DEF d
    <3> QED BY <1>1, <1>4, <1>5 DEF IsWait
  <2> HIDE DEF d, v, w
  <2>3. /\ a \in Seq(Entries) /\ Len(a) = d + 2
        /\ \A i \in 1 .. d + 1 : a[i] = v[i]
        /\ a[d + 2] = msg[t]
    BY <2>1, <1>3, <1>7, AppendProperties
  <2> HIDE DEF a
  <2>4. ASSUME NEW i \in 1 .. d + 2 PROVE w[i] = a[i]
    <3>1. CASE i = 1
      BY <3>1, <2>1, <2>2, <2>3, <1>3
    <3>2. CASE i = d + 2
      <4>1. d + 1 \in 1 .. d + 1 /\ (d + 1) + 1 = d + 2 /\ (d + 1) - 1 = d
        BY <1>3
      <4>2. w[d + 2] = msg[Step(h, d)]
        BY <4>1, <2>2
      <4> QED BY <3>2, <4>2, <1>2, <2>3
    <3>3. CASE i # 1 /\ i # d + 2
      <4>1. i - 1 \in 1 .. d /\ i - 1 \in 1 .. d + 1 /\ (i - 1) + 1 = i /\ i \in 1 .. d + 1
        BY <3>3, <1>3
      <4>2. w[i] = msg[Step(h, (i - 1) - 1)] /\ v[i] = msg[Step(h, (i - 1) - 1)]
        BY <4>1, <2>1, <2>2
      <4> QED BY <4>1, <4>2, <2>3
    <3> QED BY <3>1, <3>2, <3>3
  <2> QED BY <1>3, <1>7, <2>2, <2>3, <2>4, SeqEqual DEF v, w, a
<1>6. CASE at # "transmit"
  <2>1. /\ Len(v) = d
        /\ \A i \in 1 .. d : v[i] = IF i = 1 /\ at = "next" THEN buf ELSE msg[Step(h, i - 1)]
    BY <1>4, <1>6 DEF IsWait
  <2>2. /\ Len(w) = d + 1
        /\ \A i \in 1 .. d + 1 : w[i] = IF i = 1 /\ at = "next" THEN buf ELSE msg[Step(h, i - 1)]
    <3> HIDE DEF d
    <3> QED BY <1>1, <1>4, <1>6 DEF IsWait
  <2> HIDE DEF d, v, w
  <2>3. /\ a \in Seq(Entries) /\ Len(a) = d + 1
        /\ \A i \in 1 .. d : a[i] = v[i]
        /\ a[d + 1] = msg[t]
    BY <2>1, <1>3, <1>7, AppendProperties
  <2> HIDE DEF a
  <2>4. ASSUME NEW i \in 1 .. d + 1 PROVE w[i] = a[i]
    <3>1. CASE i = d + 1
      <4>1. d + 1 \in 1 .. d + 1 /\ (d + 1) - 1 = d
        BY <1>3
      <4>2. ~(d + 1 = 1 /\ at = "next")
        BY <1>2, <1>3
      <4>3. w[d + 1] = msg[Step(h, d)]
        BY <4>1, <4>2, <2>2
      <4> QED BY <3>1, <4>3, <1>2, <2>3
    <3>2. CASE i # d + 1
      <4>1. i \in 1 .. d
        BY <3>2, <1>3
      <4> QED BY <4>1, <2>1, <2>2, <2>3
    <3> QED BY <3>1, <3>2
  <2> QED BY <1>3, <1>7, <2>2, <2>3, <2>4, SeqEqual DEF v, w, a
<1> QED BY <1>5, <1>6

-----------------------------------------------------------------------------
(* The types, whatever contexts queue messages.                             *)
LEMMA TypeInit ==
  Init => TypeInv
BY Constants DEF Init, TypeInv, TypeOK, Nodes, Buffers, Messages, Contexts

LEMMA TypeOfPushes ==
  ASSUME TypeInv, NEW c \in Pushers, SendMsgToCloud(c)
  PROVE  TypeInv'
<1> c \in Contexts /\ CloudThread \in Contexts
  BY DEF Contexts
<1> USE DEF TypeInv, TypeOK, Goto, queue, buffers, locals, ghosts
<1>1. CASE Call(c)
  <2>1. (made + 1) % MessageNum \in Messages /\ 1 \in Buffers
    BY Constants DEF Messages, Buffers
  <2> QED BY <1>1, <2>1 DEF Call
<1>2. CASE ScanNext(c)
  <2>1. u32Index[c] < MSG_BUFFER_SEND_MAX_NUM => u32Index[c] + 1 \in Buffers
    BY Constants DEF Buffers
  <2> QED BY <1>2, <2>1 DEF ScanNext
<1>3. CASE ScanFound(c)
  BY <1>3 DEF ScanFound
<1>4. CASE Encrypt(c)
  BY <1>4 DEF Encrypt
<1>5. CASE SetFull(c)
  BY <1>5 DEF SetFull
<1>6. CASE PushCheck(c)
  BY <1>6 DEF PushCheck
<1>7. CASE PushStore(c)
  BY <1>7 DEF PushStore
<1>8. CASE PushAdvance(c)
  <2>1. \A t \in Nodes : NextOf(t) \in Nodes
    BY Moves
  <2> QED BY <1>8, <2>1 DEF PushAdvance
<1> QED
  BY <1>1, <1>2, <1>3, <1>4, <1>5, <1>6, <1>7, <1>8 DEF SendMsgToCloud

LEMMA TypeOfSends ==
  ASSUME TypeInv, SendDataToCloud
  PROVE  TypeInv'
<1> CloudThread \in Contexts
  BY DEF Contexts
<1>0. NextOf(pstruHead) \in Nodes
  BY Moves DEF TypeInv, TypeOK
<1> USE DEF TypeInv, TypeOK, Goto, queue, buffers, locals, ghosts
<1>1. CASE PopCheck
  BY <1>1 DEF PopCheck
<1>2. CASE PopTake
  BY <1>2 DEF PopTake
<1>3. CASE PopAdvance
  BY <1>0, <1>3 DEF PopAdvance
<1>4. CASE Transmit
  BY <1>4 DEF Transmit
<1>5. CASE Free
  BY <1>5 DEF Free
<1> QED
  BY <1>1, <1>2, <1>3, <1>4, <1>5 DEF SendDataToCloud

LEMMA TypeStep ==
  TypeInv /\ [Next]_vars => TypeInv'
<1>1. CASE UNCHANGED vars
  BY <1>1 DEF vars, queue, buffers, locals, ghosts, TypeInv, TypeOK
<1> QED BY <1>1, TypeOfPushes, TypeOfSends DEF Next

(* The types of the send path, for any contexts that queue messages: the    *)
(* scan never runs past the send buffers, the ring is never indexed beyond  *)
(* its nodes, and MSG_SendDataToCloud sends a buffer and never the NULL it  *)
(* finds when the pushes of two contexts met.                               *)
THEOREM SendPathTyped ==
  Spec => []TypeOK
<1>1. TypeInv => TypeOK
  BY DEF TypeInv
<1> QED BY <1>1, TypeInit, TypeStep, PTL DEF Spec

-----------------------------------------------------------------------------
(* The state's sequence of buffers.                                         *)
LEMMA PendingFacts ==
  ASSUME TypeOK
  PROVE  /\ IsWait(Pending, Entries, pstruHead, pstruTail, pu8Msg, pc[CloudThread], popped)
         /\ Pending \in Seq(Entries)
         /\ DOMAIN Pending = 1 .. Len(Pending) /\ Len(Pending) \in Nat
         /\ Distance(pstruHead, pstruTail) \in Nat
         /\ Distance(pstruHead, pstruTail) <= Len(Pending)
<1>1. /\ pstruHead \in Nodes /\ pstruTail \in Nodes /\ popped \in Entries
      /\ pu8Msg \in [Nodes -> Entries]
  BY DEF TypeOK, Entries
<1>2. IsWait(Wait(pstruHead, pstruTail, pu8Msg, pc[CloudThread], popped), Entries,
             pstruHead, pstruTail, pu8Msg, pc[CloudThread], popped)
  BY <1>1, WaitFacts
<1>3. IsWait(Pending, Entries, pstruHead, pstruTail, pu8Msg, pc[CloudThread], popped)
  BY <1>2, PendingIsWait
<1>4. Pending \in Seq(Entries)
  BY <1>3 DEF IsWait
<1>5. Distance(pstruHead, pstruTail) \in Nodes
  BY <1>1, Walks
<1>6. Distance(pstruHead, pstruTail) \in Nat
  BY <1>5, Constants
<1>7. DOMAIN Pending = 1 .. Len(Pending) /\ Len(Pending) \in Nat
  BY <1>4, LenProperties
<1>8. Distance(pstruHead, pstruTail) <= Len(Pending)
  BY <1>3, <1>6 DEF IsWait
<1> QED BY <1>3, <1>4, <1>6, <1>7, <1>8

(* The buffer that is pushed is none of those that wait: there is room for  *)
(* it.                                                                      *)
LEMMA Room ==
  ASSUME TypeInv, PlacesAreDistinct, NEW c \in Pushers, IsPushing(c)
  PROVE  /\ Len(Pending) < MSG_BUFFER_SEND_MAX_NUM
         /\ NextOf(pstruTail) # pstruHead
<1> DEFINE b == u32Index[c]
           D == 1 .. Len(Pending)
           T == Buffers \ {b}
<1>1. /\ Pending \in Seq(Entries) /\ DOMAIN Pending = D /\ Len(Pending) \in Nat
      /\ Distance(pstruHead, pstruTail) \in Nat
      /\ Distance(pstruHead, pstruTail) <= Len(Pending)
  BY PendingFacts DEF TypeInv
<1>2. b \in Buffers
  BY DEF TypeInv, TypeOK, Contexts
<1>3. Pending \in [D -> Entries]
  BY <1>1, LenProperties
<1>4. /\ \A j \in D : Pending[j] \in Buffers /\ Pending[j] # b
      /\ \A i, j \in D : Pending[i] = Pending[j] => i = j
  BY <1>1 DEF PlacesAreDistinct
<1>5. Pending \in [D -> T]
  <2> HIDE DEF D
  <2> QED BY <1>3, <1>4
<1>6. Pending \in Injection(D, T)
  <2> HIDE DEF D, T
  <2> QED BY <1>4, <1>5 DEF Injection, IsInjective
<1>7. /\ IsFiniteSet(Buffers) /\ Cardinality(Buffers) = MSG_BUFFER_SEND_MAX_NUM
      /\ Cardinality(D) = Len(Pending)
  <2>1. \A n \in Nat : IsFiniteSet(1 .. n) /\ Cardinality(1 .. n) = n
    <3> TAKE n \in Nat
    <3>1. IsFiniteSet(1 .. n) /\ Cardinality(1 .. n) = IF 1 > n THEN 0 ELSE n - 1 + 1
      BY FS_Interval
    <3> QED BY <3>1
  <2> QED BY <2>1, <1>1, Constants DEF Buffers
<1>8. IsFiniteSet(T) /\ Cardinality(T) = MSG_BUFFER_SEND_MAX_NUM - 1
  BY <1>2, <1>7, FS_RemoveElement
<1>9. Cardinality(D) <= Cardinality(T)
  <2> HIDE DEF D, T
  <2> QED BY <1>6, <1>8, FS_Injection
<1>10. Len(Pending) < MSG_BUFFER_SEND_MAX_NUM
  BY <1>1, <1>7, <1>8, <1>9, Constants
<1>11. ASSUME NextOf(pstruTail) = pstruHead PROVE FALSE
  <2>1. Distance(pstruHead, pstruTail) = MSG_QUEUE_MAXLEN
    BY <1>11, Moves DEF TypeInv, TypeOK
  <2> QED BY <2>1, <1>1, <1>10, Constants
<1> QED BY <1>10, <1>11

-----------------------------------------------------------------------------
(* What each step does to the sequence: a push puts a buffer at its end, a  *)
(* transmission takes its first, and every other step leaves it as it is.   *)
LEMMA PushLeavesPending ==
  ASSUME TypeInv, NEW c \in Pushers, SendMsgToCloud(c), ~PushStore(c), ~PushAdvance(c)
  PROVE  Pending' = Pending
<1> USE DEF Goto, queue
<1>1. UNCHANGED <<pstruHead, pstruTail, pu8Msg, popped>>
  BY DEF SendMsgToCloud, Call, ScanNext, ScanFound, Encrypt, SetFull, PushCheck
<1>2. /\ pc[c] \in {"idle", "scan", "encrypt", "full", "check"}
      /\ \E to \in {"idle", "scan", "encrypt", "full", "check", "store"} :
           pc' = [pc EXCEPT ![c] = to]
  BY DEF SendMsgToCloud, Call, ScanNext, ScanFound, Encrypt, SetFull, PushCheck
<1>3. \/ pc'[CloudThread] = pc[CloudThread]
      \/ Plain(pc[CloudThread]) /\ Plain(pc'[CloudThread])
  BY <1>2 DEF TypeInv, TypeOK, Contexts, Plain
<1>4. CASE pc'[CloudThread] = pc[CloudThread]
  BY <1>1, <1>4, PendingIsWait
<1>5. CASE Plain(pc[CloudThread]) /\ Plain(pc'[CloudThread])
  BY <1>1, <1>5, PendingIsWait, WaitElsewhere
<1> QED BY <1>3, <1>4, <1>5

LEMMA StoreLeavesPending ==
  ASSUME TypeInv, ChecksStillHold, NEW c \in Pushers, PushStore(c)
  PROVE  /\ Pending' = Pending
         /\ pu8Msg' = [pu8Msg EXCEPT ![pstruTail] = u32Index[c]]
<1>1. tailRead[c] = pstruTail
  BY DEF PushStore, Goto, ChecksStillHold
<1>2. /\ pu8Msg' = [pu8Msg EXCEPT ![pstruTail] = u32Index[c]]
      /\ UNCHANGED <<pstruHead, pstruTail, popped>>
  BY <1>1 DEF PushStore
<1>3. /\ pstruHead \in Nodes /\ pstruTail \in Nodes /\ popped \in Entries
      /\ pu8Msg \in [Nodes -> Entries] /\ u32Index[c] \in Entries
  BY DEF TypeInv, TypeOK, Entries, Contexts
<1>4. Wait(pstruHead, pstruTail, pu8Msg', pc[CloudThread], popped) = Pending
  <2>1. /\ pu8Msg' \in [Nodes -> Entries]
        /\ \A n \in Nodes : n # pstruTail => pu8Msg'[n] = pu8Msg[n]
    BY <1>2, <1>3
  <2>2. Wait(pstruHead, pstruTail, pu8Msg', pc[CloudThread], popped)
          = Wait(pstruHead, pstruTail, pu8Msg, pc[CloudThread], popped)
    BY <1>3, <2>1, WaitStored
  <2> QED BY <2>2, <1>2, PendingIsWait
<1>5. \/ pc'[CloudThread] = pc[CloudThread]
      \/ Plain(pc[CloudThread]) /\ Plain(pc'[CloudThread])
  BY DEF PushStore, Goto, TypeInv, TypeOK, Contexts, Plain
<1>6. CASE pc'[CloudThread] = pc[CloudThread]
  BY <1>2, <1>4, <1>6, PendingIsWait
<1>7. CASE Plain(pc[CloudThread]) /\ Plain(pc'[CloudThread])
  BY <1>2, <1>4, <1>7, PendingIsWait, WaitElsewhere
<1> QED BY <1>2, <1>5, <1>6, <1>7

LEMMA AdvanceAppends ==
  ASSUME TypeInv, ChecksStillHold, NEW c \in Pushers, PushAdvance(c)
  PROVE  Pending' = Append(Pending, u32Index[c])
<1>1. /\ tailRead[c] = pstruTail /\ NextOf(pstruTail) # pstruHead
      /\ pu8Msg[pstruTail] = u32Index[c]
  BY DEF PushAdvance, Goto, ChecksStillHold
<1>2. pstruTail' = NextOf(pstruTail) /\ UNCHANGED <<pstruHead, pu8Msg, popped>>
  BY <1>1 DEF PushAdvance
<1>3. /\ pstruHead \in Nodes /\ pstruTail \in Nodes /\ popped \in Entries
      /\ pu8Msg \in [Nodes -> Entries]
  BY DEF TypeInv, TypeOK, Entries
<1>4. pc[CloudThread] = "next" => pstruHead # pstruTail
  BY DEF ChecksStillHold
<1>5. Wait(pstruHead, NextOf(pstruTail), pu8Msg, pc[CloudThread], popped)
        = Append(Pending, pu8Msg[pstruTail])
  <2>1. Wait(pstruHead, NextOf(pstruTail), pu8Msg, pc[CloudThread], popped)
          = Append(Wait(pstruHead, pstruTail, pu8Msg, pc[CloudThread], popped),
                   pu8Msg[pstruTail])
    BY <1>1, <1>3, <1>4, WaitPushed
  <2> QED BY <2>1, PendingIsWait
<1>6. \/ pc'[CloudThread] = pc[CloudThread]
      \/ Plain(pc[CloudThread]) /\ Plain(pc'[CloudThread])
  BY DEF PushAdvance, Goto, TypeInv, TypeOK, Contexts, Plain
<1>7. CASE pc'[CloudThread] = pc[CloudThread]
  BY <1>1, <1>2, <1>5, <1>7, PendingIsWait
<1>8. CASE Plain(pc[CloudThread]) /\ Plain(pc'[CloudThread])
  BY <1>1, <1>2, <1>5, <1>8, PendingIsWait, WaitElsewhere
<1> QED BY <1>6, <1>7, <1>8

LEMMA PopLeavesPending ==
  ASSUME TypeInv, PlacesAreDistinct, ChecksStillHold, PopCheck \/ PopTake \/ PopAdvance
  PROVE  /\ Pending' = Pending
         /\ PopAdvance => popped \in Buffers
<1>0. CloudThread \in Contexts
  BY DEF Contexts
<1>1. /\ pstruHead \in Nodes /\ pstruTail \in Nodes /\ popped \in Entries
      /\ pu8Msg \in [Nodes -> Entries] /\ NULL \in Entries
  BY DEF TypeInv, TypeOK, Entries
<1>2. CASE PopCheck
  <2>1. /\ Plain(pc[CloudThread]) /\ Plain(pc'[CloudThread])
        /\ UNCHANGED <<pstruHead, pstruTail, pu8Msg, popped>>
    BY <1>0, <1>2 DEF PopCheck, Goto, queue, TypeInv, TypeOK, Plain
  <2>2. ~PopAdvance
    BY <1>2 DEF PopCheck, PopAdvance, Goto
  <2> QED BY <2>1, <2>2, PendingIsWait, WaitElsewhere
<1>3. CASE PopTake
  <2>1. /\ pc[CloudThread] = "take" /\ pc'[CloudThread] = "next"
        /\ popped' = pu8Msg[pstruHead] /\ pu8Msg' = [pu8Msg EXCEPT ![pstruHead] = NULL]
        /\ UNCHANGED <<pstruHead, pstruTail>>
    BY <1>0, <1>3 DEF PopTake, Goto, TypeInv, TypeOK
  <2>2. pstruHead # pstruTail /\ Plain(pc[CloudThread])
    BY <2>1 DEF ChecksStillHold, Plain
  <2>3. Pending' = Wait(pstruHead, pstruTail, pu8Msg', "next", pu8Msg[pstruHead])
    BY <2>1, PendingIsWait
  <2>6. /\ pu8Msg' \in [Nodes -> Entries]
        /\ \A n \in Nodes : n # pstruHead => pu8Msg'[n] = pu8Msg[n]
    BY <1>1, <2>1
  <2>4. Pending' = Wait(pstruHead, pstruTail, pu8Msg, pc[CloudThread], popped)
    BY <1>1, <2>2, <2>3, <2>6, WaitTaken
  <2>5. ~PopAdvance
    BY <2>1 DEF PopAdvance, Goto
  <2> QED BY <2>4, <2>5, PendingIsWait
<1>4. CASE PopAdvance
  <2>1. /\ pc[CloudThread] = "next" /\ pstruHead # pstruTail
        /\ pstruHead' = NextOf(pstruHead)
        /\ UNCHANGED <<pstruTail, pu8Msg, popped>>
    BY <1>4 DEF PopAdvance, Goto, ChecksStillHold
  <2>2. popped \in Buffers
    <3>1. IsWait(Pending, Entries, pstruHead, pstruTail, pu8Msg, "next", popped)
      BY <2>1, PendingFacts DEF TypeInv
    <3>2. Distance(pstruHead, pstruTail) \in Nodes /\ Distance(pstruHead, pstruTail) # 0
      BY <1>1, <2>1, Walks
    <3>3. Distance(pstruHead, pstruTail) \in Nat \ {0}
      BY <3>2, Constants
    <3>4. Len(Pending) = Distance(pstruHead, pstruTail) /\ Pending[1] = popped
      BY <3>1, <3>3 DEF IsWait
    <3>5. 1 \in DOMAIN Pending
      BY <3>3, <3>4, PendingFacts DEF TypeInv
    <3> QED BY <3>4, <3>5 DEF PlacesAreDistinct
  <2>3. pc'[CloudThread] = "transmit"
    BY <1>0, <1>4, <2>2, Constants DEF PopAdvance, Goto, TypeInv, TypeOK, Buffers
  <2>4. Pending' = Wait(NextOf(pstruHead), pstruTail, pu8Msg, "transmit", popped)
    BY <2>1, <2>3, PendingIsWait
  <2>5. Pending' = Wait(pstruHead, pstruTail, pu8Msg, "next", popped)
    BY <1>1, <2>1, <2>4, WaitMovedOn
  <2> QED BY <2>1, <2>2, <2>5, PendingIsWait
<1> QED BY <1>2, <1>3, <1>4

LEMMA TransmitTakesFirst ==
  ASSUME TypeInv, Transmit
  PROVE  Pending # << >> /\ Head(Pending) = popped /\ Pending' = Tail(Pending)
<1>1. /\ pc[CloudThread] = "transmit" /\ pc'[CloudThread] = "free"
      /\ UNCHANGED <<pstruHead, pstruTail, pu8Msg, popped>>
  BY DEF Transmit, Goto, queue, TypeInv, TypeOK, Contexts
<1>2. /\ pstruHead \in Nodes /\ pstruTail \in Nodes /\ popped \in Entries
      /\ pu8Msg \in [Nodes -> Entries]
  BY DEF TypeInv, TypeOK, Entries
<1>3. Plain("free")
  BY DEF Plain
<1> DEFINE v == Wait(pstruHead, pstruTail, pu8Msg, "transmit", popped)
           w == Wait(pstruHead, pstruTail, pu8Msg, "free", popped)
<1>4. v # << >> /\ Head(v) = popped /\ Tail(v) = w
  BY <1>2, <1>3, WaitSent
<1>5. Pending = v /\ Pending' = w
  BY <1>1, PendingIsWait
<1> QED BY <1>4, <1>5

LEMMA FreeLeavesPending ==
  ASSUME TypeInv, Free
  PROVE  Pending' = Pending
BY PendingIsWait, WaitElsewhere
   DEF Free, Goto, queue, TypeInv, TypeOK, Contexts, Plain

-----------------------------------------------------------------------------
(* The inductive invariant, one context that queues messages.               *)
LEMMA OneOnly ==
  ASSUME OnePusher
  PROVE  \A c, d \in Pushers : c = d
BY DEF OnePusher

LEMMA PcStep ==
  ASSUME TypeInv, NEW c \in Contexts, NEW to, pc' = [pc EXCEPT ![c] = to]
  PROVE  /\ pc'[c] = to
         /\ \A d \in Contexts : d # c => pc'[d] = pc[d]
BY DEF TypeInv, TypeOK

LEMMA PendingAtFirst ==
  Init => Pending = << >>
<1> SUFFICES ASSUME Init PROVE Pending = << >>
  OBVIOUS
<1>1. TypeOK
  BY TypeInit DEF TypeInv
<1>2. pc[CloudThread] = "idle" /\ pstruHead = pstruTail
  BY DEF Init, Contexts
<1>3. /\ IsWait(Pending, Entries, pstruHead, pstruTail, pu8Msg, pc[CloudThread], popped)
      /\ Pending \in Seq(Entries)
  BY <1>1, PendingFacts
<1>4. Distance(pstruHead, pstruTail) = 0
  BY <1>1, <1>2, Walks DEF TypeOK
<1>5. Len(Pending) = 0
  BY <1>2, <1>3, <1>4 DEF IsWait
<1> QED BY <1>3, <1>5, EmptySeq

LEMMA IndInit ==
  Init => IndInv
<1> SUFFICES ASSUME Init PROVE IndInv
  OBVIOUS
<1>1. TypeInv /\ Pending = << >> /\ DOMAIN Pending = {}
  BY TypeInit, PendingAtFirst
<1>2. PlacesAreDistinct
  BY <1>1 DEF Init, PlacesAreDistinct, IsPushing, Contexts
<1>3. FullBuffers
  BY <1>1 DEF Init, FullBuffers, HasPlace, IsPushing, Contexts
<1>4. ChecksStillHold
  BY DEF Init, ChecksStillHold, Contexts
<1> QED BY <1>1, <1>2, <1>3, <1>4 DEF IndInv

(* The steps of a context before it pushes.                                 *)
LEMMA QueueingStep ==
  ASSUME OnePusher, IndInv, NEW c \in Pushers,
         Call(c) \/ ScanNext(c) \/ ScanFound(c) \/ Encrypt(c)
  PROVE  PlacesAreDistinct' /\ FullBuffers' /\ ChecksStillHold'
<1>1. SendMsgToCloud(c) /\ ~PushStore(c) /\ ~PushAdvance(c)
  BY DEF SendMsgToCloud, PushStore, PushAdvance, Call, ScanNext, ScanFound, Encrypt, Goto
<1>2. Pending' = Pending
  BY <1>1, PushLeavesPending DEF IndInv
<1>3. /\ c \in Contexts /\ CloudThread \in Contexts
      /\ \A d \in Pushers : d = c
  BY OneOnly DEF Contexts
<1>4. TypeInv /\ PlacesAreDistinct /\ FullBuffers /\ ChecksStillHold
  BY DEF IndInv
<1>5. /\ pc[c] \in {"idle", "scan", "encrypt"} /\ pc'[c] \in {"idle", "scan", "encrypt", "full"}
      /\ pc'[CloudThread] = pc[CloudThread]
           \/ (/\ pc[CloudThread] \in {"idle", "scan", "encrypt"}
               /\ pc'[CloudThread] \in {"idle", "scan", "encrypt", "full"})
      /\ pc'[c] = "encrypt" => u8Status[u32Index'[c]] = "IDLE"
      /\ pc'[c] = "full" =>
           /\ u8Status[u32Index'[c]] = "IDLE"
           /\ u32Index' = u32Index
           /\ content' = [content EXCEPT ![u32Index[c]] = message[c]]
      /\ pc'[c] # "full" => UNCHANGED content
      /\ UNCHANGED <<pstruHead, pstruTail, pu8Msg, popped, u8Status>>
  <2>1. CASE Call(c)
    <3>1. Goto(c, "idle", "scan") /\ UNCHANGED <<queue, buffers, popped>>
      BY <2>1 DEF Call
    <3>2. pc[c] = "idle" /\ pc' = [pc EXCEPT ![c] = "scan"]
      BY <3>1 DEF Goto
    <3>3. pc'[c] = "scan" /\ \A d \in Contexts : d # c => pc'[d] = pc[d]
      BY <3>2, <1>3, <1>4, PcStep
    <3> QED BY <3>1, <3>2, <3>3, <1>3 DEF queue, buffers
  <2>2. CASE ScanNext(c)
    <3>1. /\ Goto(c, "scan", "scan") \/ Goto(c, "scan", "idle")
          /\ UNCHANGED <<queue, buffers, popped>>
      BY <2>2 DEF ScanNext
    <3>2. PICK to \in {"scan", "idle"} : pc[c] = "scan" /\ pc' = [pc EXCEPT ![c] = to]
      BY <3>1 DEF Goto
    <3>3. pc'[c] = to /\ \A d \in Contexts : d # c => pc'[d] = pc[d]
      BY <3>2, <1>3, <1>4, PcStep
    <3> QED BY <3>1, <3>2, <3>3, <1>3 DEF queue, buffers
  <2>3. CASE ScanFound(c)
    <3>1. /\ Goto(c, "scan", "encrypt") /\ u8Status[u32Index[c]] = "IDLE"
          /\ UNCHANGED <<queue, buffers, u32Index, popped>>
      BY <2>3 DEF ScanFound, locals
    <3>2. pc[c] = "scan" /\ pc' = [pc EXCEPT ![c] = "encrypt"]
      BY <3>1 DEF Goto
    <3>3. pc'[c] = "encrypt" /\ \A d \in Contexts : d # c => pc'[d] = pc[d]
      BY <3>2, <1>3, <1>4, PcStep
    <3> QED BY <3>1, <3>2, <3>3, <1>3 DEF queue, buffers
  <2>4. CASE Encrypt(c)
    <3>1. /\ \/ /\ Goto(c, "encrypt", "full")
                /\ content' = [content EXCEPT ![u32Index[c]] = message[c]]
             \/ Goto(c, "encrypt", "idle") /\ UNCHANGED content
          /\ UNCHANGED <<queue, u8Status, u32Index, popped>>
      BY <2>4 DEF Encrypt, locals
    <3>2. pc[c] = "encrypt"
      BY <3>1 DEF Goto
    <3>3. u8Status[u32Index[c]] = "IDLE"
      BY <3>2, <1>4 DEF FullBuffers
    <3>4. PICK to \in {"full", "idle"} :
            /\ pc' = [pc EXCEPT ![c] = to]
            /\ to = "full" => content' = [content EXCEPT ![u32Index[c]] = message[c]]
            /\ to = "idle" => UNCHANGED content
      BY <3>1 DEF Goto
    <3>5. pc'[c] = to /\ \A d \in Contexts : d # c => pc'[d] = pc[d]
      BY <3>4, <1>3, <1>4, PcStep
    <3> QED BY <3>1, <3>2, <3>3, <3>4, <3>5, <1>3 DEF queue
  <2> QED BY <2>1, <2>2, <2>3, <2>4
<1>6. PlacesAreDistinct'
  BY <1>2, <1>3, <1>4, <1>5 DEF PlacesAreDistinct, IsPushing
<1>7. ChecksStillHold'
  BY <1>3, <1>4, <1>5 DEF ChecksStillHold
<1>8. \A b \in Buffers : HasPlace(b)' <=> HasPlace(b)
  BY <1>2, <1>3, <1>5 DEF HasPlace, IsPushing
<1>9. /\ u32Index[c] \in Buffers /\ message[c] \in Messages
      /\ content \in [Buffers -> Messages \cup {NULL}]
  BY <1>3, <1>4 DEF TypeInv, TypeOK
<1>10. \A b \in Buffers : u8Status'[b] = "FULL" => content'[b] \in Messages
  <2> SUFFICES ASSUME NEW b \in Buffers, u8Status[b] = "FULL" PROVE content'[b] \in Messages
    BY <1>5
  <2>1. content[b] \in Messages
    BY <1>4 DEF FullBuffers
  <2> QED BY <2>1, <1>5, <1>9
<1>11. FullBuffers'
  <2>1. \A b \in Buffers : u8Status'[b] = "FULL" <=> HasPlace(b)'
    BY <1>4, <1>5, <1>8 DEF FullBuffers
  <2>2. /\ pc'[c] \in {"encrypt", "full"} => u8Status'[u32Index'[c]] = "IDLE"
        /\ pc'[c] = "full" => content'[u32Index'[c]] \in Messages
    BY <1>5, <1>9
  <2> QED BY <2>1, <2>2, <1>3, <1>10 DEF FullBuffers
<1> QED BY <1>6, <1>7, <1>11

LEMMA SetFullStep ==
  ASSUME OnePusher, IndInv, NEW c \in Pushers, SetFull(c)
  PROVE  PlacesAreDistinct' /\ FullBuffers' /\ ChecksStillHold'
<1> DEFINE n == u32Index[c]
<1>1. SendMsgToCloud(c) /\ ~PushStore(c) /\ ~PushAdvance(c)
  BY DEF SendMsgToCloud, PushStore, PushAdvance, SetFull, Goto
<1>2. Pending' = Pending
  BY <1>1, PushLeavesPending DEF IndInv
<1>3. /\ c \in Contexts /\ CloudThread \in Contexts
      /\ \A d \in Pushers : d = c
  BY OneOnly DEF Contexts
<1>4. TypeInv /\ PlacesAreDistinct /\ FullBuffers /\ ChecksStillHold
  BY DEF IndInv
<1>5. /\ pc[c] = "full" /\ pc'[c] = "check"
      /\ pc'[CloudThread] = pc[CloudThread]
           \/ (pc[CloudThread] = "full" /\ pc'[CloudThread] = "check")
      /\ u8Status' = [u8Status EXCEPT ![n] = "FULL"]
      /\ UNCHANGED <<pstruHead, pstruTail, pu8Msg, popped, content, u32Index>>
  <2>1. pc[c] = "full" /\ pc' = [pc EXCEPT ![c] = "check"]
    BY DEF SetFull, Goto
  <2>2. pc'[c] = "check" /\ \A d \in Contexts : d # c => pc'[d] = pc[d]
    BY <2>1, <1>3, <1>4, PcStep
  <2> QED BY <2>1, <2>2, <1>3 DEF SetFull, queue, locals
<1>6. n \in Buffers /\ u8Status[n] = "IDLE" /\ content[n] \in Messages
  BY <1>3, <1>4, <1>5 DEF FullBuffers, TypeInv, TypeOK
<1>7. ~HasPlace(n)
  BY <1>4, <1>6 DEF FullBuffers
<1>8. PlacesAreDistinct'
  BY <1>2, <1>3, <1>4, <1>5, <1>7 DEF PlacesAreDistinct, IsPushing, HasPlace
<1>9. ChecksStillHold'
  BY <1>3, <1>4, <1>5 DEF ChecksStillHold
<1>10. \A b \in Buffers : HasPlace(b)' <=> HasPlace(b) \/ b = n
  BY <1>2, <1>3, <1>5 DEF HasPlace, IsPushing
<1>11. u8Status \in [Buffers -> {"IDLE", "FULL"}]
  BY <1>4 DEF TypeInv, TypeOK
<1>12. FullBuffers'
  <2>1. \A b \in Buffers : u8Status'[b] = "FULL" <=> u8Status[b] = "FULL" \/ b = n
    BY <1>5, <1>6, <1>11
  <2>2. /\ \A b \in Buffers : u8Status'[b] = "FULL" <=> HasPlace(b)'
        /\ \A b \in Buffers : u8Status'[b] = "FULL" => content'[b] \in Messages
    BY <2>1, <1>4, <1>5, <1>6, <1>10 DEF FullBuffers
  <2> QED BY <2>2, <1>3, <1>5 DEF FullBuffers
<1> QED BY <1>8, <1>9, <1>12

(* MSG_PushMsg: the ring is never full, and nothing moves the tail between  *)
(* the check and the assignments.                                           *)
LEMMA PushCheckStep ==
  ASSUME OnePusher, IndInv, NEW c \in Pushers, PushCheck(c)
  PROVE  PlacesAreDistinct' /\ FullBuffers' /\ ChecksStillHold'
<1>1. SendMsgToCloud(c) /\ ~PushStore(c) /\ ~PushAdvance(c)
  BY DEF SendMsgToCloud, PushStore, PushAdvance, PushCheck, Goto
<1>2. Pending' = Pending
  BY <1>1, PushLeavesPending DEF IndInv
<1>3. /\ c \in Contexts /\ CloudThread \in Contexts
      /\ \A d \in Pushers : d = c
  BY OneOnly DEF Contexts
<1>4. TypeInv /\ PlacesAreDistinct /\ FullBuffers /\ ChecksStillHold
  BY DEF IndInv
<1>5. pc[c] = "check"
  BY DEF PushCheck, Goto
<1>6. NextOf(pstruTail) # pstruHead
  BY <1>4, <1>5, Room DEF IsPushing
<1>7. /\ pc' = [pc EXCEPT ![c] = "store"]
      /\ tailRead' = [tailRead EXCEPT ![c] = pstruTail]
      /\ UNCHANGED <<pstruHead, pstruTail, pu8Msg, popped, u8Status, content, u32Index>>
  BY <1>6 DEF PushCheck, Goto, queue, buffers
<1>8. pc'[c] = "store" /\ \A d \in Contexts : d # c => pc'[d] = pc[d]
  BY <1>7, <1>3, <1>4, PcStep
<1>9. tailRead'[c] = pstruTail
  BY <1>3, <1>4, <1>7 DEF TypeInv, TypeOK
<1>10. PlacesAreDistinct'
  BY <1>2, <1>3, <1>4, <1>5, <1>7, <1>8 DEF PlacesAreDistinct, IsPushing
<1>11. ChecksStillHold'
  BY <1>3, <1>4, <1>5, <1>6, <1>7, <1>8, <1>9 DEF ChecksStillHold
<1>12. \A b \in Buffers : HasPlace(b)' <=> HasPlace(b)
  BY <1>2, <1>3, <1>5, <1>7, <1>8 DEF HasPlace, IsPushing
<1>13. FullBuffers'
  BY <1>3, <1>4, <1>7, <1>8, <1>12 DEF FullBuffers
<1> QED BY <1>10, <1>11, <1>13

LEMMA PushStoreStep ==
  ASSUME OnePusher, IndInv, NEW c \in Pushers, PushStore(c)
  PROVE  PlacesAreDistinct' /\ FullBuffers' /\ ChecksStillHold'
<1>1. /\ Pending' = Pending
      /\ pu8Msg' = [pu8Msg EXCEPT ![pstruTail] = u32Index[c]]
  BY StoreLeavesPending DEF IndInv
<1>3. /\ c \in Contexts /\ CloudThread \in Contexts
      /\ \A d \in Pushers : d = c
  BY OneOnly DEF Contexts
<1>4. TypeInv /\ PlacesAreDistinct /\ FullBuffers /\ ChecksStillHold
  BY DEF IndInv
<1>5. pc[c] = "store" /\ pc' = [pc EXCEPT ![c] = "advance"]
  BY DEF PushStore, Goto
<1>6. tailRead[c] = pstruTail /\ NextOf(pstruTail) # pstruHead
  BY <1>4, <1>5 DEF ChecksStillHold
<1>7. /\ tailRead' = [tailRead EXCEPT ![c] = pstruTail]
      /\ UNCHANGED <<pstruHead, pstruTail, popped, u8Status, content, u32Index>>
  BY <1>6 DEF PushStore, buffers
<1>8. pc'[c] = "advance" /\ \A d \in Contexts : d # c => pc'[d] = pc[d]
  BY <1>5, <1>3, <1>4, PcStep
<1>9. tailRead'[c] = pstruTail /\ pu8Msg'[pstruTail] = u32Index[c]
  BY <1>1, <1>3, <1>4, <1>7 DEF TypeInv, TypeOK
<1>10. PlacesAreDistinct'
  BY <1>1, <1>3, <1>4, <1>5, <1>7, <1>8 DEF PlacesAreDistinct, IsPushing
<1>11. ChecksStillHold'
  BY <1>3, <1>4, <1>5, <1>6, <1>7, <1>8, <1>9 DEF ChecksStillHold
<1>12. \A b \in Buffers : HasPlace(b)' <=> HasPlace(b)
  BY <1>1, <1>3, <1>5, <1>7, <1>8 DEF HasPlace, IsPushing
<1>13. FullBuffers'
  BY <1>3, <1>4, <1>7, <1>8, <1>12 DEF FullBuffers
<1> QED BY <1>10, <1>11, <1>13

(* What is appended is a buffer that did not wait.                          *)
LEMMA Appended ==
  ASSUME TypeInv, NEW b \in Buffers, Pending' = Append(Pending, b)
  PROVE  /\ Len(Pending) \in Nat
         /\ DOMAIN Pending = 1 .. Len(Pending)
         /\ DOMAIN Pending' = 1 .. Len(Pending) + 1
         /\ \A j \in DOMAIN Pending : Pending'[j] = Pending[j]
         /\ Pending'[Len(Pending) + 1] = b
<1>1. /\ Pending \in Seq(Entries) /\ DOMAIN Pending = 1 .. Len(Pending)
      /\ Len(Pending) \in Nat
  BY PendingFacts DEF TypeInv
<1>2. b \in Entries
  BY DEF Entries
<1>3. /\ Append(Pending, b) \in Seq(Entries)
      /\ Len(Append(Pending, b)) = Len(Pending) + 1
      /\ \A j \in 1 .. Len(Pending) : Append(Pending, b)[j] = Pending[j]
      /\ Append(Pending, b)[Len(Pending) + 1] = b
  BY <1>1, <1>2, AppendProperties
<1>4. DOMAIN Append(Pending, b) = 1 .. Len(Append(Pending, b))
  BY <1>3, LenProperties
<1> QED BY <1>1, <1>3, <1>4

LEMMA PushAdvanceStep ==
  ASSUME OnePusher, IndInv, NEW c \in Pushers, PushAdvance(c)
  PROVE  PlacesAreDistinct' /\ FullBuffers' /\ ChecksStillHold'
<1> DEFINE n == u32Index[c]
<1>1. Pending' = Append(Pending, n)
  BY AdvanceAppends DEF IndInv
<1>3. /\ c \in Contexts /\ CloudThread \in Contexts
      /\ \A d \in Pushers : d = c
  BY OneOnly DEF Contexts
<1>4. TypeInv /\ PlacesAreDistinct /\ FullBuffers /\ ChecksStillHold
  BY DEF IndInv
<1>5. pc[c] = "advance" /\ pc' = [pc EXCEPT ![c] = "idle"]
  BY DEF PushAdvance, Goto
<1>6. tailRead[c] = pstruTail /\ NextOf(pstruTail) # pstruHead
  BY <1>4, <1>5 DEF ChecksStillHold
<1>7. /\ pstruTail' = NextOf(pstruTail)
      /\ UNCHANGED <<pstruHead, popped, u8Status, content, u32Index>>
  BY <1>6 DEF PushAdvance, buffers, locals
<1>8. pc'[c] = "idle" /\ \A d \in Contexts : d # c => pc'[d] = pc[d]
  BY <1>5, <1>3, <1>4, PcStep
<1>9. n \in Buffers
  BY <1>3, <1>4 DEF TypeInv, TypeOK
<1>10. /\ Len(Pending) \in Nat
       /\ DOMAIN Pending = 1 .. Len(Pending)
       /\ DOMAIN Pending' = 1 .. Len(Pending) + 1
       /\ \A j \in DOMAIN Pending : Pending'[j] = Pending[j]
       /\ Pending'[Len(Pending) + 1] = n
  BY <1>1, <1>4, <1>9, Appended
<1>11. \A j \in DOMAIN Pending' : j \in DOMAIN Pending \/ j = Len(Pending) + 1
  BY <1>10
<1>12. \A j \in DOMAIN Pending : j \in DOMAIN Pending'
  BY <1>10
<1>13. /\ IsPushing(c)
       /\ \A j \in DOMAIN Pending : Pending[j] # n
       /\ pc[CloudThread] = "free" => popped # n
  BY <1>3, <1>4, <1>5 DEF PlacesAreDistinct, IsPushing
<1>14. PlacesAreDistinct'
  <2>1. \A j \in DOMAIN Pending' : Pending'[j] \in Buffers
    BY <1>4, <1>9, <1>10, <1>11 DEF PlacesAreDistinct
  <2>2. \A i, j \in DOMAIN Pending' : Pending'[i] = Pending'[j] => i = j
    BY <1>4, <1>10, <1>11, <1>13 DEF PlacesAreDistinct
  <2>3. \A d \in Pushers : ~(pc'[d] \in {"check", "store", "advance"})
    BY <1>3, <1>8
  <2>4. pc'[CloudThread] = "free" => pc[CloudThread] = "free"
    BY <1>3, <1>8
  <2>5. pc'[CloudThread] = "free" => \A j \in DOMAIN Pending' : Pending'[j] # popped'
    BY <2>4, <1>4, <1>7, <1>10, <1>11, <1>13 DEF PlacesAreDistinct
  <2> QED BY <2>1, <2>2, <2>3, <2>5 DEF PlacesAreDistinct, IsPushing
<1>15. ChecksStillHold'
  <2>1. pc'[CloudThread] \in {"take", "next"} => pstruHead' # pstruTail'
    BY <1>6, <1>7
  <2> QED BY <2>1, <1>3, <1>8 DEF ChecksStillHold
<1>16. \A b \in Buffers : HasPlace(b)' <=> HasPlace(b)
  <2> TAKE b \in Buffers
  <2>1. (\E j \in DOMAIN Pending' : Pending'[j] = b)
          <=> (\E j \in DOMAIN Pending : Pending[j] = b) \/ b = n
    <3>1. ASSUME NEW j \in DOMAIN Pending', Pending'[j] = b
          PROVE  (\E k \in DOMAIN Pending : Pending[k] = b) \/ b = n
      BY <3>1, <1>10, <1>11
    <3>2. ASSUME NEW j \in DOMAIN Pending, Pending[j] = b
          PROVE  \E k \in DOMAIN Pending' : Pending'[k] = b
      BY <3>2, <1>10, <1>12
    <3>3. Len(Pending) + 1 \in DOMAIN Pending'
      BY <1>10
    <3> QED BY <3>1, <3>2, <3>3, <1>10
  <2>2. (\E d \in Pushers : IsPushing(d) /\ u32Index[d] = b) <=> b = n
    BY <1>3, <1>13
  <2>3. ~ \E d \in Pushers : pc'[d] \in {"check", "store", "advance"}
    BY <1>3, <1>8
  <2>4. (pc'[CloudThread] = "free" /\ popped' = b)
          <=> (pc[CloudThread] = "free" /\ popped = b)
    BY <1>3, <1>5, <1>7, <1>8
  <2> QED BY <2>1, <2>2, <2>3, <2>4 DEF HasPlace, IsPushing
<1>17. FullBuffers'
  BY <1>3, <1>4, <1>7, <1>8, <1>16 DEF FullBuffers
<1> QED BY <1>14, <1>15, <1>17

(* MSG_SendDataToCloud.                                                     *)
LEMMA PopStep ==
  ASSUME OnePusher, IndInv, PopCheck \/ PopTake \/ PopAdvance
  PROVE  PlacesAreDistinct' /\ FullBuffers' /\ ChecksStillHold'
<1>1. Pending' = Pending /\ (PopAdvance => popped \in Buffers)
  BY PopLeavesPending DEF IndInv
<1>3. CloudThread \in Contexts /\ \A c \in Pushers : c \in Contexts
  BY DEF Contexts
<1>4. TypeInv /\ PlacesAreDistinct /\ FullBuffers /\ ChecksStillHold
  BY DEF IndInv
<1>5. /\ UNCHANGED <<u8Status, content, u32Index, tailRead, pstruTail>>
      /\ pc[CloudThread] \in {"idle", "take", "next"}
      /\ \E to \in {"take", "next", "transmit"} : pc' = [pc EXCEPT ![CloudThread] = to]
  BY <1>1, Constants DEF PopCheck, PopTake, PopAdvance, Goto, queue, buffers, locals, Buffers
<1>6. PICK to \in {"take", "next", "transmit"} : pc' = [pc EXCEPT ![CloudThread] = to]
  BY <1>5
<1>7. pc'[CloudThread] = to /\ \A d \in Contexts : d # CloudThread => pc'[d] = pc[d]
  BY <1>3, <1>4, <1>6, PcStep
<1>8. \A c \in Pushers :
        /\ IsPushing(c)' <=> IsPushing(c)
        /\ \A at \in {"encrypt", "full", "store", "advance"} : pc'[c] = at <=> pc[c] = at
  BY <1>3, <1>5, <1>7 DEF IsPushing
<1>9. PlacesAreDistinct'
  BY <1>1, <1>4, <1>5, <1>7, <1>8 DEF PlacesAreDistinct
<1>10. \A b \in Buffers : HasPlace(b)' <=> HasPlace(b)
  BY <1>1, <1>5, <1>7, <1>8 DEF HasPlace
<1>11. FullBuffers'
  BY <1>4, <1>5, <1>8, <1>10 DEF FullBuffers
<1>12. pc'[CloudThread] \in {"take", "next"} => pstruHead' # pstruTail'
  BY <1>3, <1>4, <1>7 DEF PopCheck, PopTake, PopAdvance, queue, ChecksStillHold, Goto,
     TypeInv, TypeOK
<1>13. \A c \in Pushers : pc[c] \in {"store", "advance"} =>
         /\ NextOf(pstruTail) # pstruHead'
         /\ pc[c] = "advance" => pu8Msg'[pstruTail] = pu8Msg[pstruTail]
  <2> SUFFICES ASSUME NEW c \in Pushers, pc[c] \in {"store", "advance"}
               PROVE  /\ NextOf(pstruTail) # pstruHead'
                      /\ pu8Msg'[pstruTail] = pu8Msg[pstruTail]
    OBVIOUS
  <2>0. /\ pstruHead \in Nodes /\ pstruTail \in Nodes
        /\ pu8Msg \in [Nodes -> Entries]
    BY <1>4 DEF TypeInv, TypeOK, Entries
  <2>1. NextOf(pstruTail) # pstruHead
    BY <1>4 DEF ChecksStillHold
  <2>2. CASE PopCheck
    BY <2>1, <2>2 DEF PopCheck, queue
  <2>3. CASE PopTake
    <3>1. pstruHead # pstruTail
      BY <1>4, <2>3 DEF PopTake, Goto, ChecksStillHold
    <3> QED BY <2>0, <2>1, <2>3, <3>1 DEF PopTake
  <2>4. CASE PopAdvance
    <3>1. pstruHead # pstruTail /\ pstruHead' = NextOf(pstruHead) /\ pu8Msg' = pu8Msg
      BY <1>4, <2>4 DEF PopAdvance, Goto, ChecksStillHold
    <3>2. NextOf(pstruTail) # NextOf(pstruHead)
      BY <2>0, <3>1, Constants DEF NextOf, Nodes
    <3> QED BY <3>1, <3>2
  <2> QED BY <2>2, <2>3, <2>4
<1>14. ChecksStillHold'
  <2>1. \A c \in Pushers :
          pc'[c] \in {"store", "advance"} =>
            tailRead'[c] = pstruTail' /\ NextOf(pstruTail)' # pstruHead'
    BY <1>4, <1>5, <1>8, <1>13 DEF ChecksStillHold, NextOf
  <2>2. \A c \in Pushers : pc'[c] = "advance" => pu8Msg'[pstruTail'] = u32Index'[c]
    BY <1>4, <1>5, <1>8, <1>13 DEF ChecksStillHold
  <2> QED BY <1>12, <2>1, <2>2 DEF ChecksStillHold
<1> QED BY <1>9, <1>11, <1>14

LEMMA TransmitStep ==
  ASSUME OnePusher, IndInv, Transmit
  PROVE  PlacesAreDistinct' /\ FullBuffers' /\ ChecksStillHold'
<1>1. /\ Pending \in Seq(Entries) /\ Pending # << >>
      /\ Head(Pending) = popped /\ Pending' = Tail(Pending)
  BY TransmitTakesFirst, PendingFacts DEF IndInv, TypeInv
<1>2. /\ Len(Pending) \in Nat \ {0}
      /\ DOMAIN Pending = 1 .. Len(Pending)
      /\ DOMAIN Pending' = 1 .. Len(Pending) - 1
      /\ \A j \in DOMAIN Pending' : Pending'[j] = Pending[j + 1]
      /\ Pending[1] = popped
  <2>1. /\ Tail(Pending) \in Seq(Entries) /\ Len(Tail(Pending)) = Len(Pending) - 1
        /\ \A j \in 1 .. Len(Tail(Pending)) : Tail(Pending)[j] = Pending[j + 1]
    BY <1>1, HeadTailProperties
  <2>2. DOMAIN Tail(Pending) = 1 .. Len(Tail(Pending)) /\ DOMAIN Pending = 1 .. Len(Pending)
    BY <1>1, <2>1, LenProperties
  <2>3. Len(Pending) \in Nat \ {0} /\ Head(Pending) = Pending[1]
    BY <1>1, EmptySeq
  <2> QED BY <1>1, <2>1, <2>2, <2>3
<1>3. CloudThread \in Contexts /\ \A c \in Pushers : c \in Contexts
  BY DEF Contexts
<1>4. TypeInv /\ PlacesAreDistinct /\ FullBuffers /\ ChecksStillHold
  BY DEF IndInv
<1>5. /\ pc[CloudThread] = "transmit" /\ pc' = [pc EXCEPT ![CloudThread] = "free"]
      /\ UNCHANGED <<pstruHead, pstruTail, pu8Msg, u8Status, content, u32Index, tailRead, popped>>
  BY DEF Transmit, Goto, queue, buffers, locals
<1>6. pc'[CloudThread] = "free" /\ \A d \in Contexts : d # CloudThread => pc'[d] = pc[d]
  BY <1>3, <1>4, <1>5, PcStep
<1>7. \A c \in Pushers :
        /\ IsPushing(c)' <=> IsPushing(c)
        /\ \A at \in {"encrypt", "full", "store", "advance"} : pc'[c] = at <=> pc[c] = at
  BY <1>3, <1>5, <1>6 DEF IsPushing
<1>8. \A j \in DOMAIN Pending' : j + 1 \in DOMAIN Pending /\ j + 1 # 1 /\ j \in Int
  BY <1>2
<1>9. 1 \in DOMAIN Pending
  BY <1>2
<1>10. \A j \in DOMAIN Pending : j = 1 \/ (j - 1 \in DOMAIN Pending' /\ (j - 1) + 1 = j)
  BY <1>2
<1>11. PlacesAreDistinct'
  <2>1. \A j \in DOMAIN Pending' : Pending'[j] \in Buffers /\ Pending'[j] # popped
    BY <1>2, <1>4, <1>8, <1>9 DEF PlacesAreDistinct
  <2>2. ASSUME NEW i \in DOMAIN Pending', NEW j \in DOMAIN Pending', Pending'[i] = Pending'[j]
        PROVE  i = j
    <3>1. Pending[i + 1] = Pending[j + 1] /\ i + 1 \in DOMAIN Pending /\ j + 1 \in DOMAIN Pending
      BY <2>2, <1>2, <1>8
    <3>2. i + 1 = j + 1
      BY <3>1, <1>4 DEF PlacesAreDistinct
    <3> QED BY <3>2, <1>8
  <2>3. ASSUME NEW c \in Pushers, IsPushing(c)'
        PROVE  /\ \A j \in DOMAIN Pending' : Pending'[j] # u32Index'[c]
               /\ popped' # u32Index'[c]
    <3>1. \A j \in DOMAIN Pending : Pending[j] # u32Index[c]
      BY <1>4, <1>7, <2>3 DEF PlacesAreDistinct
    <3> QED BY <3>1, <1>2, <1>5, <1>8, <1>9
  <2> QED BY <2>1, <2>2, <2>3, <1>5 DEF PlacesAreDistinct
<1>12. \A b \in Buffers : HasPlace(b)' <=> HasPlace(b)
  <2> TAKE b \in Buffers
  <2>1. (\E j \in DOMAIN Pending : Pending[j] = b)
          <=> (\E j \in DOMAIN Pending' : Pending'[j] = b) \/ popped = b
    <3>1. ASSUME NEW j \in DOMAIN Pending, Pending[j] = b
          PROVE  (\E k \in DOMAIN Pending' : Pending'[k] = b) \/ popped = b
      BY <3>1, <1>2, <1>10
    <3>2. ASSUME NEW j \in DOMAIN Pending', Pending'[j] = b
          PROVE  \E k \in DOMAIN Pending : Pending[k] = b
      BY <3>2, <1>2, <1>8
    <3> QED BY <3>1, <3>2, <1>2, <1>9
  <2>2. (\E c \in Pushers : IsPushing(c)' /\ u32Index'[c] = b)
          <=> (\E c \in Pushers : IsPushing(c) /\ u32Index[c] = b)
    BY <1>5, <1>7
  <2> QED BY <2>1, <2>2, <1>5, <1>6 DEF HasPlace
<1>13. FullBuffers'
  BY <1>4, <1>5, <1>7, <1>12 DEF FullBuffers
<1>14. ChecksStillHold'
  BY <1>4, <1>5, <1>6, <1>7 DEF ChecksStillHold
<1> QED BY <1>11, <1>13, <1>14

LEMMA FreeStep ==
  ASSUME OnePusher, IndInv, Free
  PROVE  PlacesAreDistinct' /\ FullBuffers' /\ ChecksStillHold'
<1>1. Pending' = Pending
  BY FreeLeavesPending DEF IndInv
<1>3. CloudThread \in Contexts /\ \A c \in Pushers : c \in Contexts
  BY DEF Contexts
<1>4. TypeInv /\ PlacesAreDistinct /\ FullBuffers /\ ChecksStillHold
  BY DEF IndInv
<1>5. /\ pc[CloudThread] = "free" /\ pc' = [pc EXCEPT ![CloudThread] = "idle"]
      /\ u8Status' = [u8Status EXCEPT ![popped] = "IDLE"]
      /\ UNCHANGED <<pstruHead, pstruTail, pu8Msg, content, u32Index, tailRead>>
  BY DEF Free, Goto, queue, locals
<1>6. pc'[CloudThread] = "idle" /\ \A d \in Contexts : d # CloudThread => pc'[d] = pc[d]
  BY <1>3, <1>4, <1>5, PcStep
<1>7. \A c \in Pushers :
        /\ IsPushing(c)' <=> IsPushing(c)
        /\ \A at \in {"encrypt", "full", "store", "advance"} : pc'[c] = at <=> pc[c] = at
  BY <1>3, <1>5, <1>6 DEF IsPushing
<1>8. popped \in Buffers /\ u8Status \in [Buffers -> {"IDLE", "FULL"}]
  BY <1>4, <1>5 DEF TypeInv, TypeOK
<1>9. \A b \in Buffers : u8Status'[b] = IF b = popped THEN "IDLE" ELSE u8Status[b]
  BY <1>5, <1>8
<1>10. PlacesAreDistinct'
  BY <1>1, <1>4, <1>5, <1>6, <1>7 DEF PlacesAreDistinct
<1>11. \A b \in Buffers : HasPlace(b)' <=> HasPlace(b) /\ b # popped
  BY <1>1, <1>4, <1>5, <1>6, <1>7 DEF HasPlace, PlacesAreDistinct
<1>12. FullBuffers'
  <2>1. /\ \A b \in Buffers : u8Status'[b] = "FULL" <=> HasPlace(b)'
        /\ \A b \in Buffers : u8Status'[b] = "FULL" => content'[b] \in Messages
    BY <1>4, <1>5, <1>9, <1>11 DEF FullBuffers
  <2>2. \A c \in Pushers :
          /\ pc'[c] \in {"encrypt", "full"} => u8Status'[u32Index'[c]] = "IDLE"
          /\ pc'[c] = "full" => content'[u32Index'[c]] \in Messages
    <3>1. \A c \in Pushers : u32Index[c] \in Buffers
      BY <1>3, <1>4 DEF TypeInv, TypeOK
    <3> QED BY <3>1, <1>4, <1>5, <1>7, <1>9 DEF FullBuffers
  <2> QED BY <2>1, <2>2 DEF FullBuffers
<1>13. ChecksStillHold'
  BY <1>4, <1>5, <1>6, <1>7 DEF ChecksStillHold
<1> QED BY <1>10, <1>12, <1>13

LEMMA IndStep ==
  OnePusher /\ IndInv /\ [Next]_vars => IndInv'
<1> SUFFICES ASSUME OnePusher, IndInv, [Next]_vars PROVE IndInv'
  OBVIOUS
<1>1. TypeInv'
  BY TypeStep DEF IndInv
<1>2. CASE UNCHANGED vars
  <2>1. UNCHANGED <<pstruHead, pstruTail, pu8Msg, u8Status, content, pc, u32Index, tailRead,
                    popped>>
    BY <1>2 DEF vars, queue, buffers, locals
  <2>2. Pending' = Pending
    BY <2>1, PendingIsWait
  <2>3. PlacesAreDistinct'
    BY <2>1, <2>2 DEF IndInv, PlacesAreDistinct, IsPushing
  <2>4. FullBuffers'
    BY <2>1, <2>2 DEF IndInv, FullBuffers, HasPlace, IsPushing
  <2>5. ChecksStillHold'
    BY <2>1 DEF IndInv, ChecksStillHold
  <2> QED BY <1>1, <2>3, <2>4, <2>5 DEF IndInv
<1>3. ASSUME NEW c \in Pushers, SendMsgToCloud(c) PROVE IndInv'
  BY <1>1, <1>3, QueueingStep, SetFullStep, PushCheckStep, PushStoreStep, PushAdvanceStep
     DEF SendMsgToCloud, IndInv
<1>4. CASE SendDataToCloud
  BY <1>1, <1>4, PopStep, TransmitStep, FreeStep DEF SendDataToCloud, IndInv
<1> QED BY <1>2, <1>3, <1>4 DEF Next

LEMMA Inductive ==
  ASSUME OnePusher
  PROVE  Spec => []IndInv
<1>1. IndInv /\ [Next]_vars => IndInv'
  BY IndStep
<1> QED BY <1>1, IndInit, PTL DEF Spec

LEMMA AccountedFor ==
  ASSUME OnePusher, IndInv
  PROVE  BuffersAreAccounted
<1>1. PlacesAreDistinct /\ FullBuffers
  BY DEF IndInv
<1>2. PICK u : Pushers = {u}
  BY DEF OnePusher
<1> SUFFICES ASSUME NEW b \in Buffers
             PROVE  Cardinality(Places(b)) = IF u8Status[b] = "FULL" THEN 1 ELSE 0
  BY DEF BuffersAreAccounted
<1>3. CASE ~HasPlace(b)
  <2>1. Places(b) = {}
    BY <1>3 DEF Places, HasPlace, IsPushing
  <2>2. Cardinality(Places(b)) = 0
    BY <2>1, FS_EmptySet
  <2> QED BY <2>2, <1>1, <1>3 DEF FullBuffers
<1>4. CASE HasPlace(b)
  <2>1. \E x : Places(b) = {x}
    <3>1. CASE \E j \in DOMAIN Pending : Pending[j] = b
      <4>1. PICK j \in DOMAIN Pending : Pending[j] = b
        BY <3>1
      <4>2. /\ \A i \in DOMAIN Pending : Pending[i] = b => i = j
            /\ ~ \E c \in Pushers : IsPushing(c) /\ u32Index[c] = b
            /\ ~ (pc[CloudThread] = "free" /\ popped = b)
        BY <4>1, <1>1 DEF PlacesAreDistinct
      <4>3. Places(b) = {<<"pending", j>>}
        BY <4>1, <4>2 DEF Places, IsPushing
      <4> QED BY <4>3
    <3>2. CASE IsPushing(u) /\ u32Index[u] = b
      <4>1. /\ ~ \E i \in DOMAIN Pending : Pending[i] = b
            /\ ~ (pc[CloudThread] = "free" /\ popped = b)
        BY <3>2, <1>1, <1>2 DEF PlacesAreDistinct
      <4>2. Places(b) = {<<"pushed", u>>}
        BY <3>2, <4>1, <1>2 DEF Places, IsPushing
      <4> QED BY <4>2
    <3>3. CASE pc[CloudThread] = "free" /\ popped = b
      <4>1. /\ ~ \E i \in DOMAIN Pending : Pending[i] = b
            /\ ~ \E c \in Pushers : IsPushing(c) /\ u32Index[c] = b
        BY <3>3, <1>1 DEF PlacesAreDistinct
      <4>2. Places(b) = {<<"sent", CloudThread>>}
        BY <3>3, <4>1 DEF Places, IsPushing
      <4> QED BY <4>2
    <3> QED BY <1>2, <1>4, <3>1, <3>2, <3>3 DEF HasPlace
  <2>2. Cardinality(Places(b)) = 1
    BY <2>1, FS_Singleton
  <2> QED BY <2>2, <1>1, <1>4 DEF FullBuffers
<1> QED BY <1>3, <1>4

(* With one context that queues messages, every full send buffer is in one  *)
(* place, on its way into the ring, in it or being sent, and an idle one in *)
(* none: no buffer is lost or sent twice, for rings of any size.            *)
THEOREM FullBuffersHaveOnePlace ==
  ASSUME OnePusher
  PROVE  Spec => []BuffersAreAccounted
<1>1. IndInv => BuffersAreAccounted
  BY AccountedFor
<1> QED BY <1>1, Inductive, PTL

-----------------------------------------------------------------------------
(* The refinement.  The abstract queue holds the messages of the buffers    *)
(* that wait: a push accepts one, a transmission sends the first, and no    *)
(* other step changes it, for an idle buffer is overwritten and never one   *)
(* that waits.                                                              *)
Waiting == [i \in DOMAIN Pending |-> content[Pending[i]]]

LEMMA ChannelInit ==
  Init => Channel!Init
<1> SUFFICES ASSUME Init PROVE Waiting = << >> /\ sent = NULL
  BY DEF Channel!Init, Waiting
<1>1. DOMAIN Pending = {}
  BY PendingAtFirst
<1>2. Waiting \in [1 .. 0 -> {}]
  BY <1>1 DEF Waiting
<1>3. Waiting \in Seq({}) /\ Len(Waiting) = 0
  BY <1>2
<1> QED BY <1>3, EmptySeq DEF Init

LEMMA WaitingTyped ==
  ASSUME IndInv
  PROVE  /\ Waiting \in Seq(Messages) /\ Len(Waiting) = Len(Pending)
         /\ DOMAIN Pending = 1 .. Len(Pending) /\ Len(Pending) \in Nat
         /\ \A j \in DOMAIN Pending : Waiting[j] = content[Pending[j]]
         /\ \A j \in DOMAIN Pending : Pending[j] \in Buffers /\ u8Status[Pending[j]] = "FULL"
<1>1. DOMAIN Pending = 1 .. Len(Pending) /\ Len(Pending) \in Nat
  BY PendingFacts DEF IndInv, TypeInv
<1>2. \A j \in DOMAIN Pending : Pending[j] \in Buffers /\ u8Status[Pending[j]] = "FULL"
  BY DEF IndInv, PlacesAreDistinct, FullBuffers, HasPlace
<1>3. \A j \in DOMAIN Pending : content[Pending[j]] \in Messages
  BY <1>2 DEF IndInv, FullBuffers
<1>4. Waiting \in [1 .. Len(Pending) -> Messages]
  BY <1>1, <1>3 DEF Waiting
<1>5. Waiting \in Seq(Messages) /\ Len(Waiting) = Len(Pending)
  BY <1>1, <1>4
<1> QED BY <1>1, <1>2, <1>5 DEF Waiting

(* The steps that change neither the sequence nor what is in a full buffer. *)
LEMMA Stutter ==
  ASSUME IndInv, Pending' = Pending, sent' = sent,
         \A b \in Buffers : u8Status[b] = "FULL" => content'[b] = content[b]
  PROVE  UNCHANGED Channel!vars
<1>1. \A j \in DOMAIN Pending : content'[Pending'[j]] = content[Pending[j]]
  BY WaitingTyped
<1>2. Waiting' = Waiting
  BY <1>1 DEF Waiting
<1> QED BY <1>2 DEF Channel!vars, Waiting

LEMMA QueueingRefines ==
  ASSUME OnePusher, IndInv, NEW c \in Pushers, SendMsgToCloud(c)
  PROVE  [Channel!Next]_Channel!vars
<1>0. /\ TypeInv /\ PlacesAreDistinct /\ FullBuffers /\ ChecksStillHold
      /\ c \in Contexts
  BY DEF IndInv, Contexts
<1>1. CASE PushAdvance(c)
  <2> DEFINE n == u32Index[c]
  <2>1. Pending' = Append(Pending, n) /\ n \in Buffers
    BY <1>0, <1>1, AdvanceAppends DEF TypeInv, TypeOK
  <2>2. /\ DOMAIN Pending' = 1 .. Len(Pending) + 1
        /\ \A j \in DOMAIN Pending : Pending'[j] = Pending[j]
        /\ Pending'[Len(Pending) + 1] = n
    BY <1>0, <2>1, Appended
  <2>3. UNCHANGED <<content, u8Status, sent>> /\ pc[c] = "advance"
    BY <1>1 DEF PushAdvance, buffers, ghosts, Goto
  <2>4. IsPushing(c) /\ HasPlace(n)
    BY <2>3 DEF IsPushing, HasPlace
  <2>5. content[n] \in Messages
    BY <1>0, <2>1, <2>4 DEF FullBuffers
  <2>6. Len(Waiting) < MSG_BUFFER_SEND_MAX_NUM
    BY <1>0, <2>4, Room, WaitingTyped
  <2>7. Waiting' = Append(Waiting, content[n])
    <3>1. /\ Waiting \in Seq(Messages) /\ Len(Waiting) = Len(Pending)
          /\ DOMAIN Pending = 1 .. Len(Pending) /\ Len(Pending) \in Nat
          /\ \A j \in DOMAIN Pending : Waiting[j] = content[Pending[j]]
          /\ \A j \in DOMAIN Pending : content[Pending[j]] \in Messages
      BY <1>0, WaitingTyped DEF FullBuffers
    <3>2. /\ Append(Waiting, content[n]) \in Seq(Messages)
          /\ Len(Append(Waiting, content[n])) = Len(Pending) + 1
          /\ \A j \in 1 .. Len(Pending) : Append(Waiting, content[n])[j] = Waiting[j]
          /\ Append(Waiting, content[n])[Len(Pending) + 1] = content[n]
      BY <2>5, <3>1, AppendProperties
    <3>3. Waiting' = [j \in 1 .. Len(Pending) + 1 |-> content[Pending'[j]]]
      BY <2>2, <2>3 DEF Waiting
    <3>4. \A j \in 1 .. Len(Pending) + 1 :
            content[Pending'[j]] = Append(Waiting, content[n])[j]
      <4> TAKE j \in 1 .. Len(Pending) + 1
      <4>1. CASE j = Len(Pending) + 1
        BY <4>1, <2>2, <3>2
      <4>2. CASE j # Len(Pending) + 1
        <5>1. j \in 1 .. Len(Pending) /\ j \in DOMAIN Pending
          BY <4>2, <3>1
        <5> QED BY <5>1, <2>2, <3>1, <3>2
      <4> QED BY <4>1, <4>2
    <3>5. \A j \in 1 .. Len(Pending) + 1 : content[Pending'[j]] \in Messages
      <4> TAKE j \in 1 .. Len(Pending) + 1
      <4>1. CASE j = Len(Pending) + 1
        BY <4>1, <2>2, <2>5
      <4>2. CASE j # Len(Pending) + 1
        <5>1. j \in DOMAIN Pending
          BY <4>2, <3>1
        <5> QED BY <5>1, <2>2, <3>1
      <4> QED BY <4>1, <4>2
    <3>6. Waiting' \in [1 .. Len(Pending) + 1 -> Messages]
      BY <3>3, <3>5
    <3>7. Waiting' \in Seq(Messages) /\ Len(Waiting') = Len(Pending) + 1
      BY <3>1, <3>6
    <3>8. \A j \in 1 .. Len(Pending) + 1 : Waiting'[j] = Append(Waiting, content[n])[j]
      BY <3>3, <3>4
    <3> QED BY <3>2, <3>7, <3>8, SeqEqual
  <2>8. Channel!Accept
    BY <2>3, <2>5, <2>6, <2>7 DEF Channel!Accept, Waiting
  <2> QED BY <2>8 DEF Channel!Next
<1>2. CASE ~PushAdvance(c)
  <2>1. Pending' = Pending
    BY <1>0, <1>2, PushLeavesPending, StoreLeavesPending
  <2>2. /\ UNCHANGED sent
        /\ Encrypt(c) \/ UNCHANGED content
    BY <1>2 DEF SendMsgToCloud, Call, ScanNext, ScanFound, Encrypt, SetFull, PushCheck,
       PushStore, buffers, ghosts
  <2>3. ASSUME NEW b \in Buffers, u8Status[b] = "FULL" PROVE content'[b] = content[b]
    <3>1. CASE Encrypt(c)
      <4>1. u8Status[u32Index[c]] = "IDLE"
        BY <3>1, <1>0 DEF Encrypt, Goto, FullBuffers
      <4>2. content \in [Buffers -> Messages \cup {NULL}]
        BY <1>0 DEF TypeInv, TypeOK
      <4> QED BY <3>1, <4>1, <4>2, <2>3 DEF Encrypt
    <3> QED BY <3>1, <2>2
  <2> QED BY <2>1, <2>2, <2>3, Stutter
<1> QED BY <1>1, <1>2

LEMMA SendingRefines ==
  ASSUME IndInv, SendDataToCloud
  PROVE  [Channel!Next]_Channel!vars
<1>0. TypeInv /\ PlacesAreDistinct /\ FullBuffers /\ ChecksStillHold
  BY DEF IndInv
<1>1. CASE Transmit
  <2>1. /\ Pending \in Seq(Entries) /\ Pending # << >>
        /\ Head(Pending) = popped /\ Pending' = Tail(Pending)
    BY <1>0, <1>1, TransmitTakesFirst, PendingFacts DEF TypeInv
  <2>2. sent' = content[popped] /\ content' = content
    BY <1>1 DEF Transmit, buffers
  <2>3. /\ Waiting \in Seq(Messages) /\ Len(Waiting) = Len(Pending)
        /\ DOMAIN Pending = 1 .. Len(Pending) /\ Len(Pending) \in Nat
        /\ \A j \in DOMAIN Pending : Waiting[j] = content[Pending[j]]
    BY WaitingTyped
  <2>4. Len(Pending) # 0 /\ Head(Pending) = Pending[1]
    BY <2>1, EmptySeq
  <2>5. 1 \in DOMAIN Pending /\ Waiting # << >>
    BY <2>3, <2>4, EmptySeq
  <2>6. Head(Waiting) = content[popped]
    BY <2>1, <2>3, <2>4, <2>5
  <2>7. /\ Tail(Waiting) \in Seq(Messages) /\ Len(Tail(Waiting)) = Len(Pending) - 1
        /\ \A j \in 1 .. Len(Pending) - 1 : Tail(Waiting)[j] = Waiting[j + 1]
    BY <2>3, <2>5, HeadTailProperties
  <2>8. /\ DOMAIN Pending' = 1 .. Len(Pending) - 1
        /\ \A j \in 1 .. Len(Pending) - 1 : Pending'[j] = Pending[j + 1]
    <3>1. /\ Tail(Pending) \in Seq(Entries) /\ Len(Tail(Pending)) = Len(Pending) - 1
          /\ \A j \in 1 .. Len(Tail(Pending)) : Tail(Pending)[j] = Pending[j + 1]
      BY <2>1, HeadTailProperties
    <3>2. DOMAIN Tail(Pending) = 1 .. Len(Tail(Pending))
      BY <3>1, LenProperties
    <3> QED BY <2>1, <3>1, <3>2
  <2>9. Waiting' = [j \in 1 .. Len(Pending) - 1 |-> content[Pending'[j]]]
    BY <2>2, <2>8 DEF Waiting
  <2>10. \A j \in 1 .. Len(Pending) - 1 :
           content[Pending'[j]] = Waiting[j + 1] /\ Waiting[j + 1] \in Messages
    <3> TAKE j \in 1 .. Len(Pending) - 1
    <3>1. j + 1 \in DOMAIN Pending /\ j + 1 \in 1 .. Len(Waiting)
      BY <2>3
    <3>2. Waiting[j + 1] \in Messages
      BY <2>3, <3>1, ElementOfSeq
    <3> QED BY <2>3, <2>8, <3>1, <3>2
  <2>11. Waiting' \in [1 .. Len(Pending) - 1 -> Messages]
    BY <2>9, <2>10
  <2>12. Waiting' \in Seq(Messages) /\ Len(Waiting') = Len(Pending) - 1
    BY <2>3, <2>4, <2>11
  <2>13. \A j \in 1 .. Len(Pending) - 1 : Waiting'[j] = Tail(Waiting)[j]
    BY <2>7, <2>9, <2>10
  <2>14. Waiting' = Tail(Waiting)
    BY <2>7, <2>12, <2>13, SeqEqual
  <2>15. Channel!Transmit
    BY <2>2, <2>5, <2>6, <2>14 DEF Channel!Transmit, Waiting
  <2> QED BY <2>15 DEF Channel!Next
<1>2. CASE ~Transmit
  <2>1. Pending' = Pending
    BY <1>0, <1>2, PopLeavesPending, FreeLeavesPending DEF SendDataToCloud
  <2>2. UNCHANGED <<sent, content>>
    BY <1>2 DEF SendDataToCloud, PopCheck, PopTake, PopAdvance, Free, buffers, ghosts
  <2> QED BY <2>1, <2>2, Stutter
<1> QED BY <1>1, <1>2

LEMMA ChannelStep ==
  OnePusher /\ IndInv /\ [Next]_vars => [Channel!Next]_Channel!vars
<1> SUFFICES ASSUME OnePusher, IndInv, [Next]_vars PROVE [Channel!Next]_Channel!vars
  OBVIOUS
<1>1. CASE UNCHANGED vars
  <2>1. UNCHANGED <<pstruHead, pstruTail, pu8Msg, pc, popped, content, sent>>
    BY <1>1 DEF vars, queue, buffers, ghosts
  <2>2. Pending' = Pending
    BY <2>1, PendingIsWait
  <2> QED BY <2>1, <2>2, Stutter
<1> QED BY <1>1, QueueingRefines, SendingRefines DEF Next

(* With one context that queues messages the send queue implements the      *)
(* bounded FIFO, for rings of any size: what is pushed is sent, once, in    *)
(* order and unchanged, and there is always room in the ring for what is    *)
(* pushed.                                                                  *)
THEOREM SendQueueIsAFifo ==
  ASSUME OnePusher
  PROVE  Spec => ImplementsChannel
<1>1. IndInv /\ [Next]_vars => [Channel!Next]_Channel!vars
  BY ChannelStep
<1> QED BY <1>1, ChannelInit, Inductive, PTL DEF Spec, ImplementsChannel, Channel!Spec
=============================================================================
