--------------------------- MODULE Downlink_proofs ---------------------------
(***************************************************************************)
(* Proofs about Downlink, for any threads, lengths of frames and sizes of  *)
(* the buffers.                                                            *)
(*                                                                         *)
(* FramesReachTheMcu rests on UartInv: up to a collision one flush at most *)
(* is going on, where it is in the buffer fits what it does next, one      *)
(* context at most is appending and none while a flush ends, who has found *)
(* room for a frame still has it, and what it has copied and not yet       *)
(* counted lies behind the bytes that count.                               *)
(*                                                                         *)
(* PacedInOrder rests on DownInv: what the buffer holds begins the message *)
(* after the last one handled, and the frame of a forwarded message is the *)
(* youngest of the frames, as its message is of the messages.              *)
(***************************************************************************)
EXTENDS Downlink, SequenceTheorems, FiniteSetTheorems, TLAPS

Bytes == Nat \X Nat

Places == {"idle"} \cup Appending \cup Flushing

UartTypeOK ==
  /\ sendBuffer \in [0..(MemLen - 1) -> Bytes] /\ sendLen \in Nat
  /\ pc \in [Contexts -> Places]
  /\ len \in [Contexts -> Nat] /\ out \in [Contexts -> Nat] /\ total \in [Contexts -> Nat]
  /\ frames \in Seq(Nat \ {0}) /\ wire \in Seq(Bytes)
  /\ \A c \in Contexts : pc[c] \in Appending => len[c] \in FrameLens
  /\ \A c \in Contexts : pc[c] \in {"data", "dataLen"} => frames # <<>>
  /\ collided \in BOOLEAN

OneFlush == \A c, d \in Contexts : pc[c] \in Flushing /\ pc[d] \in Flushing => c = d

OneAppend ==
  \A c, d \in Contexts :
    pc[c] \in Appending => /\ pc[d] \in Appending => c = d
                           /\ pc[d] # "reset"

FlushInPlace ==
  \A c \in Contexts :
    /\ pc[c] \in Flushing => total[c] <= sendLen
    /\ pc[c] = "count" => total[c] < sendLen
    /\ pc[c] = "write" => total[c] + out[c] <= sendLen
    /\ pc[c] = "reset" => total[c] = sendLen

RoomIsKept ==
  \A c \in Contexts :
    /\ pc[c] \in {"flag", "flagLen"} => sendLen + len[c] <= UartBufLen
    /\ pc[c] \in {"data", "dataLen"} => sendLen + DataLen(c) <= UartBufLen

IsCopied ==
  \A c \in Contexts :
    /\ pc[c] = "flagLen" =>
          \A k \in 0..(FlagLen - 1) : sendBuffer[sendLen + k] = <<Len(frames) + 1, k>>
    /\ pc[c] = "dataLen" =>
          \A k \in 0..(DataLen(c) - 1) :
            sendBuffer[sendLen + k] = <<Len(frames), FlagLen + k>>

FlagIsFirst ==
  \A c \in Contexts : pc[c] \in {"data", "dataLen"} => frames[Len(frames)] = FlagLen

Frames == RoomIsKept /\ IsCopied /\ FlagIsFirst /\ WholeFrames

Sending == Spell(wire \o Unsent, frames) /\ sendLen <= UartBufLen

InTurns == OneFlush /\ OneAppend /\ FlushInPlace /\ Frames /\ Sending

UartInv == UartTypeOK /\ (~collided => InTurns)

-----------------------------------------------------------------------------
(* Bytes and frames.                                                        *)
LEMMA Sizes ==
  /\ UartBufLen \in Nat /\ MemLen \in Nat /\ MemLen = UartBufLen + UartBufLen
  /\ Wide = MemLen + 1 /\ FlagLen \in Nat \ {0}
  /\ \A l \in FrameLens : l \in Nat /\ l - FlagLen \in Nat \ {0}
BY UartAssumption DEF MemLen, Wide

LEMMA PlacesDiffer ==
  /\ Appending \subseteq Places /\ Flushing \subseteq Places /\ "idle" \in Places
  /\ "idle" \notin Appending /\ "idle" \notin Flushing
  /\ Appending \cap Flushing = {}
  /\ {"flag", "flagLen", "data", "dataLen"} = Appending
  /\ {"test", "count", "write", "reset"} = Flushing
BY DEF Places, Appending, Flushing

LEMMA NoWrap ==
  ASSUME NEW a \in Nat, NEW w \in Nat, a < w
  PROVE  a % w = a
OBVIOUS

LEMMA Remainder ==
  ASSUME NEW a \in Int, NEW w \in Nat, w > 0
  PROVE  a % w \in Nat
OBVIOUS

(* A frame more.                                                            *)
LEMMA SpellMore ==
  ASSUME NEW lens \in Seq(Nat \ {0}), NEW l \in Nat \ {0},
         NEW b \in Seq(Bytes), NEW d \in Seq(Bytes), Spell(b, lens),
         Len(d) = Len(b) + l, \A i \in 1..Len(b) : d[i] = b[i],
         \A k \in 1..l : d[Len(b) + k] = <<Len(lens) + 1, k - 1>>
  PROVE  Spell(d, Append(lens, l))
<1> DEFINE more == Append(lens, l)
<1>1. /\ Len(lens) \in Nat /\ DOMAIN lens = 1..Len(lens) /\ Len(more) = Len(lens) + 1
      /\ DOMAIN more = 1..(Len(lens) + 1) /\ more[Len(lens) + 1] = l
      /\ \A f \in 1..Len(lens) : more[f] = lens[f] /\ lens[f] \in Nat
  OBVIOUS
<1>2. /\ Len(b) \in Nat /\ DOMAIN b = 1..Len(b) /\ DOMAIN d = 1..(Len(b) + l)
      /\ \A i \in 1..Len(b) : b[i] \in Bytes
      /\ l \in Nat /\ l > 0
  OBVIOUS
<1> HIDE DEF more
<1>3. \A i \in 1..Len(b) : b[i][1] \in 1..Len(lens) /\ b[i][2] < lens[b[i][1]]
  BY <1>1, <1>2 DEF Spell
<1>4. ASSUME NEW i \in 1..(Len(b) + l), i > Len(b)
      PROVE  d[i] = <<Len(lens) + 1, i - Len(b) - 1>>
  <2>1. i - Len(b) \in 1..l /\ Len(b) + (i - Len(b)) = i
    BY <1>2, <1>4
  <2> QED
    BY <2>1
<1>5. \A i \in DOMAIN d : d[i][1] \in DOMAIN more /\ d[i][2] < more[d[i][1]]
  <2> SUFFICES ASSUME NEW i \in 1..(Len(b) + l)
               PROVE  d[i][1] \in 1..(Len(lens) + 1) /\ d[i][2] < more[d[i][1]]
    BY <1>1, <1>2
  <2>1. CASE i <= Len(b)
    BY <1>1, <1>2, <1>3, <2>1
  <2>2. CASE i > Len(b)
    BY <1>1, <1>2, <1>4, <2>2
  <2> QED
    BY <1>2, <2>1, <2>2
<1>6. d # <<>> /\ more # <<>>
  BY <1>1, <1>2
<1>7. d[1] = <<1, 0>>
  <2>1. CASE b = <<>>
    <3>1. lens = <<>> /\ Len(b) = 0 /\ Len(lens) = 0
      BY <2>1 DEF Spell
    <3>2. d[Len(b) + 1] = <<Len(lens) + 1, 1 - 1>>
      BY <1>2
    <3> QED
      BY <3>1, <3>2
  <2>2. CASE b # <<>>
    <3>1. 1 \in 1..Len(b)
      BY <2>2
    <3> QED
      BY <2>2, <3>1 DEF Spell
  <2> QED
    BY <2>1, <2>2
<1>8. d[Len(d)] = <<Len(more), more[Len(more)] - 1>>
  <2>1. d[Len(b) + l] = <<Len(lens) + 1, l - 1>>
    BY <1>2
  <2> QED
    BY <1>1, <2>1
<1>9. ASSUME NEW i \in 1..(Len(d) - 1) PROVE d[i + 1] = ByteAfter(d[i], more)
  <2>1. i \in 1..(Len(b) + l) /\ i + 1 \in 1..(Len(b) + l)
    BY <1>2
  <2>2. CASE i + 1 <= Len(b)
    <3>1. d[i] = b[i] /\ d[i + 1] = b[i + 1] /\ i \in 1..(Len(b) - 1) /\ i \in 1..Len(b)
      BY <1>2, <2>1, <2>2
    <3>2. b[i + 1] = ByteAfter(b[i], lens)
      BY <3>1 DEF Spell
    <3>3. ByteAfter(b[i], more) = ByteAfter(b[i], lens)
      BY <1>1, <1>3, <3>1 DEF ByteAfter
    <3> QED
      BY <3>1, <3>2, <3>3
  <2>3. CASE i = Len(b)
    <3>1. d[i] = b[i] /\ b # <<>>
      BY <1>2, <2>1, <2>3
    <3>2. b[i] = <<Len(lens), lens[Len(lens)] - 1>>
      BY <2>3, <3>1 DEF Spell
    <3>3. Len(lens) \in 1..Len(lens)
      BY <1>2, <1>3, <2>1, <2>3, <3>2
    <3>4. ByteAfter(b[i], more) = <<Len(lens) + 1, 0>>
      BY <1>1, <3>2, <3>3 DEF ByteAfter
    <3>5. d[i + 1] = <<Len(lens) + 1, 0>>
      BY <1>2, <2>1, <2>3, <1>4
    <3> QED
      BY <3>1, <3>4, <3>5
  <2>4. CASE i > Len(b)
    <3>1. /\ d[i] = <<Len(lens) + 1, i - Len(b) - 1>>
          /\ d[i + 1] = <<Len(lens) + 1, i + 1 - Len(b) - 1>>
      BY <1>2, <1>4, <2>1, <2>4
    <3>2. i - Len(b) - 1 + 1 < l /\ i - Len(b) - 1 + 1 = i + 1 - Len(b) - 1
      BY <1>2, <2>1
    <3> QED
      BY <1>1, <3>1, <3>2 DEF ByteAfter
  <2>5. i + 1 <= Len(b) \/ i = Len(b) \/ i > Len(b)
    <3>1. Len(b) \in Nat /\ Len(b) + l \in Nat
      OBVIOUS
    <3>2. i \in Int
      BY <2>1, <3>1
    <3> QED
      BY <3>1, <3>2
  <2> QED
    BY <2>2, <2>3, <2>4, <2>5, Zenon
<1> QED
  BY <1>5, <1>6, <1>7, <1>8, <1>9 DEF Spell, more

(* More of the last frame.                                                  *)
LEMMA LengthenedIs ==
  ASSUME NEW lens \in Seq(Nat \ {0}), NEW l \in Nat
  PROVE  /\ Lengthened(lens, l) \in Seq(Nat \ {0}) /\ Len(Lengthened(lens, l)) = Len(lens)
         /\ \A f \in 1..Len(lens) :
              Lengthened(lens, l)[f] = IF f = Len(lens) THEN lens[f] + l ELSE lens[f]
<1> DEFINE Piece(f) == IF f = Len(lens) THEN lens[f] + l ELSE lens[f]
<1>1. \A f \in 1..Len(lens) : Piece(f) \in Nat \ {0}
  OBVIOUS
<1>2. Lengthened(lens, l) = [f \in 1..Len(lens) |-> Piece(f)] /\ Len(lens) \in Nat
  BY DEF Lengthened
<1> DEFINE more == [f \in 1..Len(lens) |-> Piece(f)]
<1> HIDE DEF Piece
<1>3. more \in Seq(Nat \ {0})
  BY <1>1, <1>2
<1>4. Len(more) = Len(lens) /\ \A f \in 1..Len(lens) : more[f] = Piece(f)
  BY <1>2
<1> HIDE DEF more
<1>5. Lengthened(lens, l) = more
  BY <1>2 DEF more
<1>6. \A f \in 1..Len(lens) : Lengthened(lens, l)[f] = Piece(f)
  BY <1>4, <1>5
<1>7. Lengthened(lens, l) \in Seq(Nat \ {0}) /\ Len(Lengthened(lens, l)) = Len(lens)
  BY <1>3, <1>4, <1>5
<1> QED
  BY <1>6, <1>7 DEF Piece

LEMMA SpellLonger ==
  ASSUME NEW lens \in Seq(Nat \ {0}), lens # <<>>, NEW l \in Nat \ {0},
         NEW b \in Seq(Bytes), NEW d \in Seq(Bytes), Spell(b, lens),
         Len(d) = Len(b) + l, \A i \in 1..Len(b) : d[i] = b[i],
         \A k \in 1..l : d[Len(b) + k] = <<Len(lens), lens[Len(lens)] + (k - 1)>>
  PROVE  Spell(d, Lengthened(lens, l))
<1> DEFINE more == Lengthened(lens, l)
           n == Len(lens)
           last == lens[Len(lens)]
<1>0. l \in Nat /\ l > 0
  OBVIOUS
<1>a. /\ more \in Seq(Nat \ {0}) /\ Len(more) = n
      /\ \A f \in 1..n : more[f] = IF f = n THEN lens[f] + l ELSE lens[f]
  BY <1>0, LengthenedIs, Zenon
<1>b. /\ n \in Nat /\ n > 0 /\ DOMAIN lens = 1..n /\ n = Len(lens) /\ lens[n] = last
      /\ \A f \in 1..n : lens[f] \in Nat /\ lens[f] > 0
  OBVIOUS
<1> HIDE DEF more, n, last
<1>1. /\ n \in Nat /\ n > 0 /\ n \in 1..n /\ DOMAIN lens = 1..n /\ lens[n] = last
      /\ last \in Nat /\ last > 0 /\ \A f \in 1..n : lens[f] \in Nat
      /\ l \in Nat /\ l > 0
  <2>1. n \in 1..n
    BY <1>b
  <2> QED
    BY <1>0, <1>b, <2>1
<1>2. /\ Len(more) = n /\ DOMAIN more = 1..n /\ more[n] = last + l
      /\ \A f \in 1..n : more[f] = IF f = n THEN last + l ELSE lens[f]
  BY <1>1, <1>a
<1>3. /\ Len(b) \in Nat /\ DOMAIN b = 1..Len(b) /\ DOMAIN d = 1..(Len(b) + l)
      /\ \A i \in 1..Len(b) : b[i] \in Bytes
  OBVIOUS
<1>4. /\ \A i \in 1..Len(b) : b[i][1] \in 1..n /\ b[i][2] < lens[b[i][1]]
      /\ b # <<>> /\ b[1] = <<1, 0>> /\ b[Len(b)] = <<n, last - 1>>
      /\ \A i \in 1..(Len(b) - 1) : b[i + 1] = ByteAfter(b[i], lens)
  BY <1>1, <1>3 DEF Spell, n, last
<1>5. ASSUME NEW k \in 1..l PROVE d[Len(b) + k] = <<n, last + (k - 1)>>
  BY DEF n, last
<1>6. ASSUME NEW i \in 1..(Len(b) + l), i > Len(b)
      PROVE  d[i] = <<n, last + (i - Len(b) - 1)>>
  <2>1. i - Len(b) \in 1..l /\ Len(b) + (i - Len(b)) = i
    BY <1>1, <1>3, <1>6
  <2> QED
    BY <1>5, <2>1
<1>7. \A i \in DOMAIN d : d[i][1] \in DOMAIN more /\ d[i][2] < more[d[i][1]]
  <2> SUFFICES ASSUME NEW i \in 1..(Len(b) + l)
               PROVE  d[i][1] \in 1..n /\ d[i][2] < more[d[i][1]]
    BY <1>2, <1>3
  <2>1. CASE i <= Len(b)
    <3>1. d[i] = b[i] /\ b[i][1] \in 1..n /\ b[i][2] \in Nat /\ b[i][2] < lens[b[i][1]]
      BY <1>3, <1>4, <2>1 DEF Bytes
    <3>2. CASE b[i][1] = n
      <4>1. lens[n] = last /\ more[n] = last + l
        BY <1>1, <1>2
      <4>2. d[i][1] = n /\ d[i][2] \in Nat /\ d[i][2] < last
        BY <3>1, <3>2, <4>1
      <4>3. d[i][2] < last + l
        BY <1>1, <4>2
      <4> QED
        BY <3>1, <4>1, <4>2, <4>3
    <3>3. CASE b[i][1] # n
      BY <1>1, <1>2, <3>1, <3>3
    <3> QED
      BY <3>2, <3>3
  <2>2. CASE i > Len(b)
    <3>1. d[i] = <<n, last + (i - Len(b) - 1)>>
      BY <1>6, <2>2
    <3>2. last + (i - Len(b) - 1) < last + l
      BY <1>1, <1>3, <2>2
    <3> QED
      BY <1>1, <1>2, <3>1, <3>2
  <2> QED
    BY <1>3, <2>1, <2>2
<1>8. d # <<>> /\ more # <<>>
  BY <1>1, <1>2, <1>3
<1>9. d[1] = <<1, 0>>
  <2>1. 1 \in 1..Len(b)
    BY <1>3, <1>4
  <2> QED
    BY <1>4, <2>1
<1>10. d[Len(d)] = <<Len(more), more[Len(more)] - 1>>
  <2>1. d[Len(b) + l] = <<n, last + (l - 1)>> /\ Len(d) = Len(b) + l
    <3>1. l \in 1..l
      BY <1>1
    <3> QED
      BY <1>5, <3>1
  <2>2. last + (l - 1) = (last + l) - 1
    BY <1>1
  <2> QED
    BY <1>2, <2>1, <2>2
<1>11. ASSUME NEW i \in 1..(Len(d) - 1) PROVE d[i + 1] = ByteAfter(d[i], more)
  <2>1. i \in 1..(Len(b) + l) /\ i + 1 \in 1..(Len(b) + l)
    BY <1>1, <1>3
  <2>2. CASE i + 1 <= Len(b)
    <3>1. /\ d[i] = b[i] /\ d[i + 1] = b[i + 1] /\ i \in 1..(Len(b) - 1)
          /\ i \in 1..Len(b) /\ i + 1 \in 1..Len(b)
      BY <1>3, <2>1, <2>2
    <3>2. b[i + 1] = ByteAfter(b[i], lens) /\ b[i + 1][1] \in 1..n
      BY <1>4, <3>1
    <3>3. CASE b[i][1] = n
      <4>1. b[i][2] + 1 < last
        <5>1. ASSUME ~(b[i][2] + 1 < lens[b[i][1]]) PROVE FALSE
          <6>1. b[i + 1] = <<n + 1, 0>>
            BY <3>2, <3>3, <5>1 DEF ByteAfter
          <6> QED
            BY <1>1, <3>2, <6>1
        <5> QED
          BY <3>3, <5>1 DEF last, n
      <4>2. b[i][2] \in Nat
        BY <1>3, <3>1 DEF Bytes
      <4>3. b[i][2] + 1 < last + l
        <5> DEFINE x == b[i][2]
        <5>1. x \in Nat /\ x + 1 < last
          BY <4>1, <4>2
        <5> HIDE DEF x
        <5>2. x + 1 < last + l
          BY <1>1, <5>1
        <5> QED
          BY <5>2 DEF x
      <4>4. lens[n] = last /\ more[n] = last + l
        BY <1>1, <1>2
      <4>5. b[i + 1] = <<n, b[i][2] + 1>>
        BY <3>2, <3>3, <4>1, <4>4 DEF ByteAfter
      <4>6. ByteAfter(b[i], more) = <<n, b[i][2] + 1>>
        BY <3>3, <4>3, <4>4 DEF ByteAfter
      <4> QED
        BY <3>1, <4>5, <4>6
    <3>4. CASE b[i][1] # n
      BY <1>2, <1>4, <3>1, <3>2, <3>4 DEF ByteAfter
    <3> QED
      BY <3>3, <3>4
  <2>3. CASE i = Len(b)
    <3>1. d[i] = <<n, last - 1>>
      BY <1>4, <2>1, <2>3
    <3>2. d[i + 1] = <<n, last>>
      <4>1. i + 1 > Len(b) /\ last + (i + 1 - Len(b) - 1) = last
        BY <1>1, <1>3, <2>3
      <4> QED
        BY <1>6, <2>1, <4>1
    <3>3. last - 1 + 1 = last /\ last < last + l
      BY <1>1
    <3> QED
      BY <1>2, <3>1, <3>2, <3>3 DEF ByteAfter
  <2>4. CASE i > Len(b)
    <3>0. i + 1 > Len(b)
      BY <1>3, <2>1, <2>4
    <3>1. /\ d[i] = <<n, last + (i - Len(b) - 1)>>
          /\ d[i + 1] = <<n, last + (i + 1 - Len(b) - 1)>>
      BY <1>6, <2>1, <2>4, <3>0
    <3>2. /\ last + (i - Len(b) - 1) + 1 < last + l
          /\ last + (i - Len(b) - 1) + 1 = last + (i + 1 - Len(b) - 1)
      BY <1>1, <1>3, <2>1
    <3> QED
      BY <1>2, <3>1, <3>2 DEF ByteAfter
  <2>5. i + 1 <= Len(b) \/ i = Len(b) \/ i > Len(b)
    <3>1. Len(b) \in Nat /\ i \in Int
      BY <1>1, <1>3, <2>1
    <3> QED
      BY <3>1
  <2> QED
    BY <2>2, <2>3, <2>4, <2>5, Zenon
<1> QED
  BY <1>7, <1>8, <1>9, <1>10, <1>11 DEF Spell, more

-----------------------------------------------------------------------------
(* What is on the wire and what is still in the buffer, one by one.         *)
PositionIn(where, at) ==
  LET flushers == {c \in Contexts : where[c] \in Flushing}
  IN  IF flushers = {} THEN 0 ELSE at[CHOOSE c \in flushers : TRUE]

RestOf(buffer_, pos, n) == [i \in 1..(n - pos) |-> buffer_[pos + i - 1]]

AllOf(w, buffer_, pos, n) == w \o RestOf(buffer_, pos, n)

LEMMA Readings ==
  /\ Position = PositionIn(pc, total) /\ Position' = PositionIn(pc', total')
  /\ wire \o Unsent = AllOf(wire, sendBuffer, Position, sendLen)
  /\ (wire \o Unsent)' = AllOf(wire', sendBuffer', Position', sendLen')
BY DEF Position, PositionIn, Unsent, RestOf, AllOf

LEMMA PositionIs ==
  ASSUME NEW where, NEW at,
         \A c, d \in Contexts : where[c] \in Flushing /\ where[d] \in Flushing => c = d
  PROVE  /\ \A c \in Contexts : where[c] \in Flushing => PositionIn(where, at) = at[c]
         /\ (\A c \in Contexts : where[c] \notin Flushing) => PositionIn(where, at) = 0
<1> DEFINE flushers == {c \in Contexts : where[c] \in Flushing}
<1>1. ASSUME NEW c \in Contexts, where[c] \in Flushing PROVE PositionIn(where, at) = at[c]
  <2>1. c \in flushers /\ \A d \in flushers : d = c
    BY <1>1
  <2>2. (CHOOSE d \in flushers : TRUE) = c
    BY <2>1
  <2> QED
    BY <2>1, <2>2 DEF PositionIn
<1>2. (\A c \in Contexts : where[c] \notin Flushing) => flushers = {}
  OBVIOUS
<1> QED
  BY <1>1, <1>2 DEF PositionIn

(* A flush that goes on, or a step that begins none and ends none.          *)
LEMMA PositionKept ==
  ASSUME OneFlush, OneFlush',
         \A c \in Contexts : pc[c] \in Flushing <=> pc'[c] \in Flushing,
         \A c \in Contexts : pc[c] \in Flushing => total'[c] = total[c]
  PROVE  Position' = Position
<1>1. CASE \E c \in Contexts : pc[c] \in Flushing
  <2>1. PICK c \in Contexts : pc[c] \in Flushing
    BY <1>1
  <2>2. Position = total[c] /\ Position' = total'[c]
    BY <2>1, Readings, PositionIs DEF OneFlush
  <2> QED
    BY <2>1, <2>2
<1>2. CASE \A c \in Contexts : pc[c] \notin Flushing
  BY <1>2, Readings, PositionIs DEF OneFlush
<1> QED
  BY <1>1, <1>2

LEMMA PositionInBuffer ==
  ASSUME UartTypeOK, InTurns
  PROVE  Position \in Nat /\ Position <= sendLen /\ sendLen <= MemLen
<1>1. /\ OneFlush /\ FlushInPlace /\ sendLen \in Nat /\ sendLen <= UartBufLen
      /\ \A c \in Contexts : total[c] \in Nat
  BY DEF InTurns, Sending, UartTypeOK
<1>2. CASE \E c \in Contexts : pc[c] \in Flushing
  <2>1. PICK c \in Contexts : pc[c] \in Flushing
    BY <1>2
  <2>2. Position = total[c] /\ total[c] <= sendLen
    BY <1>1, <2>1, Readings, PositionIs DEF FlushInPlace, OneFlush
  <2> QED
    BY <1>1, <2>2, Sizes
<1>3. CASE \A c \in Contexts : pc[c] \notin Flushing
  <2>1. Position = 0
    BY <1>1, <1>3, Readings, PositionIs DEF OneFlush
  <2> QED
    BY <1>1, <2>1, Sizes
<1> QED
  BY <1>2, <1>3

AreAll(bytes, w, b, pos, n) ==
  /\ bytes \in Seq(Bytes) /\ Len(bytes) = Len(w) + (n - pos)
  /\ \A i \in 1..Len(w) : bytes[i] = w[i]
  /\ \A i \in 1..(n - pos) : bytes[Len(w) + i] = b[pos + i - 1]

LEMMA AllBytes ==
  ASSUME NEW b \in [0..(MemLen - 1) -> Bytes], NEW w \in Seq(Bytes),
         NEW pos \in Nat, NEW n \in Nat, pos <= n, n <= MemLen
  PROVE  AreAll(AllOf(w, b, pos, n), w, b, pos, n)
<1> DEFINE u == RestOf(b, pos, n)
<1>1. u \in Seq(Bytes) /\ Len(u) = n - pos /\ \A i \in 1..(n - pos) : u[i] = b[pos + i - 1]
  <2>1. n - pos \in Nat
    OBVIOUS
  <2>2. ASSUME NEW i \in 1..(n - pos) PROVE b[pos + i - 1] \in Bytes
    <3>1. pos + i - 1 \in 0..(MemLen - 1)
      BY <2>1, Sizes
    <3> QED
      BY <3>1
  <2> QED
    BY <2>1, <2>2 DEF RestOf
<1>2. Len(w) \in Nat
  OBVIOUS
<1> HIDE DEF u
<1>3. /\ w \o u \in Seq(Bytes) /\ Len(w \o u) = Len(w) + Len(u)
      /\ \A i \in 1..(Len(w) + Len(u)) :
           (w \o u)[i] = IF i <= Len(w) THEN w[i] ELSE u[i - Len(w)]
  BY <1>1, ConcatProperties
<1>4. ASSUME NEW i \in 1..(n - pos) PROVE (w \o u)[Len(w) + i] = b[pos + i - 1]
  <2>1. Len(w) + i \in 1..(Len(w) + Len(u)) /\ ~(Len(w) + i <= Len(w)) /\ Len(w) + i - Len(w) = i
    BY <1>1, <1>2
  <2> QED
    BY <1>1, <1>3, <2>1
<1>5. ASSUME NEW i \in 1..Len(w) PROVE (w \o u)[i] = w[i]
  <2>1. i \in 1..(Len(w) + Len(u)) /\ i <= Len(w)
    BY <1>1, <1>2
  <2> QED
    BY <1>3, <2>1
<1> QED
  BY <1>1, <1>3, <1>4, <1>5 DEF u, AllOf, AreAll

-----------------------------------------------------------------------------
(* Types.                                                                   *)
LEMMA UartInitTyped == UartInit => UartTypeOK
<1> SUFFICES ASSUME UartInit PROVE UartTypeOK
  OBVIOUS
<1>1. sendBuffer \in [0..(MemLen - 1) -> Bytes]
  BY DEF UartInit, Bytes
<1>2. frames \in Seq(Nat \ {0}) /\ wire \in Seq(Bytes)
  BY DEF UartInit
<1> QED
  BY <1>1, <1>2, PlacesDiffer DEF UartInit, UartTypeOK

(* A step that changes the place of one context.                            *)
LEMMA PlaceTyped ==
  ASSUME NEW c \in Contexts, NEW label \in Places, UartTypeOK, GoTo(c, label)
  PROVE  /\ pc' \in [Contexts -> Places] /\ pc'[c] = label
         /\ \A d \in Contexts : d # c => pc'[d] = pc[d]
BY DEF GoTo, UartTypeOK

(* And who appends knows its length and, behind its flag, has a frame.      *)
LEMMA GoesOn ==
  ASSUME UartTypeOK, NEW c \in Contexts, NEW label \in Places, GoTo(c, label),
         len' \in [Contexts -> Nat], \A d \in Contexts : d # c => len'[d] = len[d],
         label \in Appending => len'[c] \in FrameLens,
         frames # <<>> => frames' # <<>>,
         label \in {"data", "dataLen"} => frames' # <<>>
  PROVE  /\ pc' \in [Contexts -> Places]
         /\ \A d \in Contexts : pc'[d] \in Appending => len'[d] \in FrameLens
         /\ \A d \in Contexts : pc'[d] \in {"data", "dataLen"} => frames' # <<>>
<1>1. /\ pc' \in [Contexts -> Places] /\ pc'[c] = label
      /\ \A d \in Contexts : d # c => pc'[d] = pc[d]
  BY PlaceTyped
<1>2. /\ \A d \in Contexts : pc[d] \in Appending => len[d] \in FrameLens
      /\ \A d \in Contexts : pc[d] \in {"data", "dataLen"} => frames # <<>>
  BY DEF UartTypeOK
<1>3. ASSUME NEW d \in Contexts, pc'[d] \in Appending PROVE len'[d] \in FrameLens
  <2>1. CASE d = c
    BY <1>1, <1>3, <2>1
  <2>2. CASE d # c
    BY <1>1, <1>2, <1>3, <2>2
  <2> QED
    BY <2>1, <2>2
<1>4. ASSUME NEW d \in Contexts, pc'[d] \in {"data", "dataLen"} PROVE frames' # <<>>
  <2>1. CASE d = c
    BY <1>1, <1>4, <2>1
  <2>2. CASE d # c
    BY <1>1, <1>2, <1>4, <2>2
  <2> QED
    BY <2>1, <2>2
<1> QED
  BY <1>1, <1>3, <1>4

LEMMA CheckLenTyped ==
  ASSUME UartTypeOK, NEW c \in Contexts, NEW l \in FrameLens, CheckLen(c, l)
  PROVE  UartTypeOK'
<1>1. /\ len' \in [Contexts -> Nat] /\ len'[c] = l
      /\ \A d \in Contexts : d # c => len'[d] = len[d]
  BY Sizes DEF CheckLen, UartTypeOK
<1>2. /\ pc' \in [Contexts -> Places]
      /\ \A d \in Contexts : pc'[d] \in Appending => len'[d] \in FrameLens
      /\ \A d \in Contexts : pc'[d] \in {"data", "dataLen"} => frames' # <<>>
  <2>1. GoTo(c, "flag") /\ frames' = frames
    BY DEF CheckLen
  <2>2. "flag" \in Places /\ "flag" \notin {"data", "dataLen"}
    BY PlacesDiffer
  <2> QED
    BY <1>1, <2>1, <2>2, GoesOn
<1>3. collided' \in BOOLEAN
  BY DEF CheckLen, UartTypeOK
<1> QED
  BY <1>1, <1>2, <1>3 DEF CheckLen, UartTypeOK

(* The bytes that are copied, and those that stay.                          *)
LEMMA CopyIs ==
  ASSUME UartTypeOK, NEW n \in Nat, NEW f \in Nat, NEW at \in Nat, CopyBehind(n, f, at)
  PROVE  /\ sendBuffer' \in [0..(MemLen - 1) -> Bytes]
         /\ \A j \in 0..(MemLen - 1) :
              sendBuffer'[j] = IF j \in sendLen..(sendLen + n - 1)
                               THEN <<f, at + (j - sendLen)>> ELSE sendBuffer[j]
<1> DEFINE Byte(j) == IF j \in sendLen..(sendLen + n - 1)
                      THEN <<f, at + (j - sendLen)>> ELSE sendBuffer[j]
<1>1. sendBuffer \in [0..(MemLen - 1) -> Bytes] /\ sendLen \in Nat /\ MemLen \in Nat
  BY Sizes DEF UartTypeOK
<1>2. ASSUME NEW j \in 0..(MemLen - 1) PROVE Byte(j) \in Bytes
  <2>1. CASE j \in sendLen..(sendLen + n - 1)
    <3>1. at + (j - sendLen) \in Nat
      BY <1>1, <2>1
    <3> QED
      BY <2>1, <3>1 DEF Bytes
  <2>2. CASE j \notin sendLen..(sendLen + n - 1)
    BY <1>1, <2>2
  <2> QED
    BY <2>1, <2>2
<1>3. sendBuffer' = [j \in 0..(MemLen - 1) |-> Byte(j)]
  BY <1>1 DEF CopyBehind
<1> HIDE DEF Byte
<1>4. /\ sendBuffer' \in [0..(MemLen - 1) -> Bytes]
      /\ \A j \in 0..(MemLen - 1) : sendBuffer'[j] = Byte(j)
  BY <1>2, <1>3
<1> QED
  BY <1>4 DEF Byte

LEMMA DataLenIs ==
  ASSUME UartTypeOK, NEW c \in Contexts, pc[c] \in Appending
  PROVE  /\ len[c] \in FrameLens /\ len[c] \in Nat
         /\ DataLen(c) \in Nat \ {0} /\ len[c] = FlagLen + DataLen(c)
<1>1. len[c] \in FrameLens
  BY DEF UartTypeOK
<1> QED
  BY <1>1, Sizes DEF DataLen

LEMMA AppendTyped ==
  ASSUME UartTypeOK, NEW c \in Contexts, Append_(c)
  PROVE  UartTypeOK' /\ Len(frames) <= Len(frames')
<1>0. /\ frames \in Seq(Nat \ {0}) /\ Len(frames) \in Nat /\ sendLen \in Nat
      /\ len \in [Contexts -> Nat] /\ FlagLen \in Nat \ {0}
      /\ {"idle", "flagLen", "data", "dataLen"} \subseteq Places
      /\ {"flag", "flagLen", "data", "dataLen"} \subseteq Appending /\ "idle" \notin Appending
  BY Sizes, PlacesDiffer DEF UartTypeOK
<1>1. CASE CopyFlag(c)
  <2>1. pc[c] \in Appending /\ GoTo(c, "flagLen") /\ UNCHANGED <<len, frames>>
    BY <1>0, <1>1 DEF CopyFlag
  <2>2. /\ pc' \in [Contexts -> Places]
        /\ \A d \in Contexts : pc'[d] \in Appending => len'[d] \in FrameLens
        /\ \A d \in Contexts : pc'[d] \in {"data", "dataLen"} => frames' # <<>>
    BY <1>0, <2>1, GoesOn, DataLenIs
  <2>3. sendBuffer' \in [0..(MemLen - 1) -> Bytes]
    <3>1. CopyBehind(FlagLen, Len(frames) + 1, 0) /\ Len(frames) + 1 \in Nat /\ FlagLen \in Nat
      BY <1>0, <1>1 DEF CopyFlag
    <3> QED
      BY <3>1, CopyIs
  <2> QED
    BY <1>0, <1>1, <2>1, <2>2, <2>3 DEF CopyFlag, UartTypeOK
<1>2. CASE CountFlag(c)
  <2>1. /\ pc[c] \in Appending /\ GoTo(c, "data") /\ len' = len
        /\ frames' = Append(frames, FlagLen)
    BY <1>0, <1>2 DEF CountFlag
  <2>2. frames' \in Seq(Nat \ {0}) /\ frames' # <<>> /\ Len(frames) <= Len(frames')
    BY <1>0, <2>1
  <2>3. /\ pc' \in [Contexts -> Places]
        /\ \A d \in Contexts : pc'[d] \in Appending => len'[d] \in FrameLens
        /\ \A d \in Contexts : pc'[d] \in {"data", "dataLen"} => frames' # <<>>
    BY <1>0, <2>1, <2>2, GoesOn, DataLenIs
  <2>4. sendLen' \in Nat
    BY <1>0, <1>2 DEF CountFlag
  <2> QED
    BY <1>2, <2>1, <2>2, <2>3, <2>4 DEF CountFlag, UartTypeOK
<1>3. CASE CopyData(c)
  <2>1. pc[c] \in Appending /\ GoTo(c, "dataLen") /\ UNCHANGED <<len, frames>> /\ frames # <<>>
    BY <1>0, <1>3 DEF CopyData, UartTypeOK
  <2>2. /\ pc' \in [Contexts -> Places]
        /\ \A d \in Contexts : pc'[d] \in Appending => len'[d] \in FrameLens
        /\ \A d \in Contexts : pc'[d] \in {"data", "dataLen"} => frames' # <<>>
    BY <1>0, <2>1, GoesOn, DataLenIs
  <2>3. sendBuffer' \in [0..(MemLen - 1) -> Bytes]
    <3>1. CopyBehind(DataLen(c), Len(frames), FlagLen) /\ DataLen(c) \in Nat /\ FlagLen \in Nat
      BY <1>0, <1>3, <2>1, DataLenIs DEF CopyData
    <3> QED
      BY <1>0, <3>1, CopyIs
  <2> QED
    BY <1>0, <1>3, <2>1, <2>2, <2>3 DEF CopyData, UartTypeOK
<1>4. CASE CountData(c)
  <2>1. /\ pc[c] \in Appending /\ GoTo(c, "idle") /\ len' = [len EXCEPT ![c] = 0]
        /\ frames' = Lengthened(frames, DataLen(c)) /\ frames # <<>>
    BY <1>0, <1>4 DEF CountData, UartTypeOK
  <2>2. DataLen(c) \in Nat
    BY <2>1, DataLenIs
  <2>3. frames' \in Seq(Nat \ {0}) /\ Len(frames') = Len(frames)
    BY <1>0, <2>1, <2>2, LengthenedIs
  <2>4. frames' # <<>>
    BY <1>0, <2>1, <2>3
  <2>5. len' \in [Contexts -> Nat] /\ \A d \in Contexts : d # c => len'[d] = len[d]
    BY <1>0, <2>1
  <2>6. /\ pc' \in [Contexts -> Places]
        /\ \A d \in Contexts : pc'[d] \in Appending => len'[d] \in FrameLens
        /\ \A d \in Contexts : pc'[d] \in {"data", "dataLen"} => frames' # <<>>
    BY <1>0, <2>1, <2>4, <2>5, GoesOn
  <2>7. sendLen' \in Nat
    BY <1>0, <1>4, <2>2 DEF CountData
  <2> QED
    BY <1>0, <1>4, <2>3, <2>5, <2>6, <2>7 DEF CountData, UartTypeOK
<1> QED
  BY <1>1, <1>2, <1>3, <1>4 DEF Append_

LEMMA FlushTyped ==
  ASSUME UartTypeOK, NEW c \in Contexts, Flush(c)
  PROVE  UartTypeOK'
<1>1. PICK label \in Flushing \cup {"idle"} : GoTo(c, label) /\ UNCHANGED <<sendBuffer, len, frames>>
  <2>1. CASE SendUartData(c)
    BY <2>1 DEF SendUartData, Flushing
  <2>2. CASE Test(c)
    BY <2>2 DEF Test, Flushing
  <2>3. CASE Count(c) \/ Write(c)
    BY <2>3 DEF Count, Write, Flushing
  <2>4. CASE Reset(c)
    BY <2>4 DEF Reset
  <2> QED
    BY <2>1, <2>2, <2>3, <2>4 DEF Flush
<1>2. /\ pc' \in [Contexts -> Places]
      /\ \A d \in Contexts : pc'[d] \in Appending => len'[d] \in FrameLens
      /\ \A d \in Contexts : pc'[d] \in {"data", "dataLen"} => frames' # <<>>
  <2>1. label \in Places /\ label \notin Appending /\ label \notin {"data", "dataLen"}
    BY <1>1, PlacesDiffer
  <2>2. len' \in [Contexts -> Nat] /\ \A d \in Contexts : len'[d] = len[d]
    BY <1>1 DEF UartTypeOK
  <2> QED
    BY <1>1, <2>1, <2>2, GoesOn
<1>3. sendLen' \in Nat /\ collided' \in BOOLEAN
  <2>1. sendLen \in Nat /\ collided \in BOOLEAN
    BY DEF UartTypeOK
  <2>2. CASE SendUartData(c)
    BY <2>1, <2>2 DEF SendUartData
  <2>3. CASE Test(c)
    BY <2>1, <2>3 DEF Test
  <2>4. CASE Count(c) \/ Write(c) \/ Reset(c)
    BY <2>1, <2>4 DEF Count, Write, Reset
  <2> QED
    BY <2>2, <2>3, <2>4 DEF Flush
<1>4. out' \in [Contexts -> Nat]
  <2>1. CASE Count(c)
    <3>1. (sendLen - total[c]) % Wide \in Nat
      <4>1. sendLen - total[c] \in Int /\ Wide \in Nat /\ Wide > 0
        BY Sizes DEF UartTypeOK
      <4> QED
        BY <4>1, Remainder
    <3> QED
      BY <2>1, <3>1 DEF Count, UartTypeOK
  <2>2. CASE Write(c)
    BY <2>2 DEF Write, UartTypeOK
  <2>3. CASE SendUartData(c) \/ Test(c) \/ Reset(c)
    <3>1. out' = out
      BY <2>3 DEF SendUartData, Test, Reset
    <3> QED
      BY <3>1 DEF UartTypeOK
  <2> QED
    BY <2>1, <2>2, <2>3 DEF Flush
<1>5. total' \in [Contexts -> Nat] /\ wire' \in Seq(Bytes)
  <2>1. CASE Write(c)
    <3>1. PICK n \in 0..out[c] :
            /\ total[c] + n <= MemLen
            /\ wire' = wire \o [i \in 1..n |-> sendBuffer[total[c] + i - 1]]
            /\ total' = [total EXCEPT ![c] = @ + n]
      BY <2>1 DEF Write
    <3>2. n \in Nat /\ total[c] \in Nat /\ wire \in Seq(Bytes)
      BY DEF UartTypeOK
    <3>3. \A i \in 1..n : sendBuffer[total[c] + i - 1] \in Bytes
      <4> SUFFICES ASSUME NEW i \in 1..n PROVE sendBuffer[total[c] + i - 1] \in Bytes
        OBVIOUS
      <4>1. total[c] + n <= MemLen /\ n \in Nat /\ total[c] \in Nat /\ MemLen \in Nat
        BY <3>1, <3>2, Sizes
      <4>2. total[c] + i - 1 \in 0..(MemLen - 1)
        BY <4>1
      <4> QED
        BY <4>2 DEF UartTypeOK
    <3>4. [i \in 1..n |-> sendBuffer[total[c] + i - 1]] \in Seq(Bytes)
      BY <3>2, <3>3
    <3>5. wire' \in Seq(Bytes)
      BY <3>1, <3>2, <3>4, ConcatProperties
    <3> QED
      BY <3>1, <3>2, <3>5 DEF UartTypeOK
  <2>2. CASE SendUartData(c) \/ Reset(c)
    <3>1. total' = [total EXCEPT ![c] = 0] /\ wire' = wire
      BY <2>2 DEF SendUartData, Reset
    <3> QED
      BY <3>1 DEF UartTypeOK
  <2>3. CASE Test(c) \/ Count(c)
    <3>1. total' = total /\ wire' = wire
      BY <2>3 DEF Test, Count
    <3> QED
      BY <3>1 DEF UartTypeOK
  <2> QED
    BY <2>1, <2>2, <2>3 DEF Flush
<1> QED
  BY <1>1, <1>2, <1>3, <1>4, <1>5 DEF UartTypeOK

-----------------------------------------------------------------------------
(* Up to a collision the two threads take turns.                            *)
LEMMA SendingKept ==
  ASSUME Sending, UNCHANGED <<sendBuffer, sendLen, frames, wire>>, Position' = Position
  PROVE  Sending'
<1>1. (wire \o Unsent)' = wire \o Unsent
  BY Readings
<1> QED
  BY <1>1 DEF Sending

(* The steps of a context that appends, while no other one does and no      *)
(* flush ends.                                                              *)
LEMMA AppendAlone ==
  ASSUME UartTypeOK, OneFlush, OneAppend, FlushInPlace,
         NEW c \in Contexts, pc[c] \in Appending,
         NEW label \in Appending \cup {"idle"}, GoTo(c, label),
         UNCHANGED <<total, out>>, sendLen' \in Nat, sendLen <= sendLen'
  PROVE  /\ OneFlush' /\ OneAppend' /\ FlushInPlace' /\ Position' = Position
         /\ pc'[c] = label /\ \A d \in Contexts : d # c => pc[d] \notin Appending /\ pc'[d] = pc[d]
<1>1. /\ pc'[c] = label /\ \A d \in Contexts : d # c => pc'[d] = pc[d]
      /\ label \notin Flushing /\ pc[c] \notin Flushing /\ "reset" \in Flushing
  BY PlacesDiffer, PlaceTyped
<1>2. \A d \in Contexts : d # c => pc[d] \notin Appending /\ pc[d] # "reset"
  BY DEF OneAppend
<1>3. OneFlush'
  BY <1>1 DEF OneFlush
<1>4. OneAppend'
  BY <1>1, <1>2 DEF OneAppend
<1>5. FlushInPlace'
  <2> SUFFICES ASSUME NEW d \in Contexts, d # c
               PROVE  /\ pc[d] \in Flushing => total[d] <= sendLen'
                      /\ pc[d] = "count" => total[d] < sendLen'
                      /\ pc[d] = "write" => total[d] + out[d] <= sendLen'
                      /\ pc[d] # "reset"
    BY <1>1 DEF FlushInPlace, Flushing
  <2>1. sendLen \in Nat /\ total[d] \in Nat /\ out[d] \in Nat
    BY DEF UartTypeOK
  <2> QED
    BY <1>2, <2>1 DEF FlushInPlace
<1>6. Position' = Position
  BY <1>1, <1>3, PositionKept
<1> QED
  BY <1>1, <1>2, <1>3, <1>4, <1>5, <1>6

(* The other steps leave the frames and those who append alone.             *)
LEMMA FramesKept ==
  ASSUME UartTypeOK, Frames, NEW c \in Contexts,
         pc[c] \notin Appending, pc'[c] \notin {"flagLen", "data", "dataLen"},
         pc'[c] = "flag" => sendLen + len'[c] <= UartBufLen,
         \A d \in Contexts : d # c => pc'[d] = pc[d] /\ len'[d] = len[d],
         UNCHANGED <<sendBuffer, sendLen, frames>>
  PROVE  Frames'
<1>1. {"flag", "flagLen", "data", "dataLen"} = Appending
  BY PlacesDiffer
<1>2. RoomIsKept'
  BY <1>1 DEF Frames, RoomIsKept, DataLen
<1>3. IsCopied'
  BY <1>1 DEF Frames, IsCopied, DataLen
<1>4. FlagIsFirst'
  BY <1>1 DEF Frames, FlagIsFirst
<1>5. WholeFrames'
  BY <1>1 DEF Frames, WholeFrames
<1> QED
  BY <1>2, <1>3, <1>4, <1>5 DEF Frames

LEMMA CheckLenInTurns ==
  ASSUME UartTypeOK, InTurns, NEW c \in Contexts, NEW l \in FrameLens, CheckLen(c, l), ~collided'
  PROVE  InTurns'
<1>1. /\ pc'[c] = "flag" /\ pc[c] = "idle" /\ \A d \in Contexts : d # c => pc'[d] = pc[d]
      /\ "flag" \in Appending /\ "flag" \notin Flushing /\ "idle" \notin Flushing
      /\ "idle" \notin Appending
  BY PlaceTyped, PlacesDiffer DEF CheckLen
<1>2. UNCHANGED <<sendBuffer, sendLen, out, total, frames, wire>>
  BY DEF CheckLen
<1>3. OneFlush'
  BY <1>1 DEF OneFlush, InTurns
<1>4. OneAppend'
  <2>1. \A d \in Contexts : d # c => pc[d] \notin Appending /\ pc[d] # "reset"
    BY DEF CheckLen, Others
  <2> QED
    BY <1>1, <2>1 DEF OneAppend
<1>5. FlushInPlace'
  BY <1>1, <1>2, PlacesDiffer DEF FlushInPlace, InTurns
<1>6. Frames'
  <2>1. len'[c] = l /\ \A d \in Contexts : d # c => len'[d] = len[d]
    BY DEF CheckLen, UartTypeOK
  <2>2. sendLen + l <= UartBufLen
    BY DEF CheckLen, Fits
  <2> QED
    BY <1>1, <1>2, <2>1, <2>2, FramesKept DEF InTurns
<1>7. Position' = Position
  BY <1>1, <1>2, <1>3, PositionKept DEF InTurns
<1> QED
  BY <1>2, <1>3, <1>4, <1>5, <1>6, <1>7, SendingKept DEF InTurns

(* When the length grows, what lies behind is sent behind the others.       *)
IsMore(d, b, buf, n, l) ==
  /\ b \in Seq(Bytes) /\ d \in Seq(Bytes) /\ Len(d) = Len(b) + l
  /\ \A i \in 1..Len(b) : d[i] = b[i]
  /\ \A k \in 1..l : d[Len(b) + k] = buf[n + (k - 1)]

LEMMA AllGrows ==
  ASSUME NEW buf \in [0..(MemLen - 1) -> Bytes], NEW w \in Seq(Bytes),
         NEW pos \in Nat, NEW n \in Nat, NEW l \in Nat, NEW m, m = n + l, pos <= n, m <= MemLen
  PROVE  IsMore(AllOf(w, buf, pos, m), AllOf(w, buf, pos, n), buf, n, l)
<1> DEFINE b == AllOf(w, buf, pos, n)
           d == AllOf(w, buf, pos, m)
<1>1. n <= MemLen /\ m \in Nat /\ pos <= m /\ m = n + l /\ Len(w) \in Nat /\ MemLen \in Nat
  BY Sizes
<1>2. AreAll(b, w, buf, pos, n)
  BY <1>1, AllBytes
<1>3. AreAll(d, w, buf, pos, m)
  BY <1>1, AllBytes
<1> HIDE DEF b, d
<1>4. /\ b \in Seq(Bytes) /\ Len(b) = Len(w) + (n - pos)
      /\ \A i \in 1..Len(w) : b[i] = w[i]
      /\ \A i \in 1..(n - pos) : b[Len(w) + i] = buf[pos + i - 1]
  BY <1>2 DEF AreAll
<1>5. /\ d \in Seq(Bytes) /\ Len(d) = Len(w) + (m - pos)
      /\ \A i \in 1..Len(w) : d[i] = w[i]
      /\ \A i \in 1..(m - pos) : d[Len(w) + i] = buf[pos + i - 1]
  BY <1>3 DEF AreAll
<1>6. Len(d) = Len(b) + l /\ Len(b) \in Nat
  BY <1>1, <1>4, <1>5
<1>7. ASSUME NEW i \in 1..Len(b) PROVE d[i] = b[i]
  <2>1. CASE i <= Len(w)
    BY <1>1, <1>4, <1>5, <1>6, <2>1
  <2>2. CASE i > Len(w)
    <3> DEFINE k == i - Len(w)
    <3>1. k \in 1..(n - pos) /\ k \in 1..(m - pos) /\ i = Len(w) + k
      BY <1>1, <1>4, <1>6, <2>2
    <3> HIDE DEF k
    <3> QED
      BY <1>4, <1>5, <3>1
  <2> QED
    BY <1>1, <1>6, <2>1, <2>2
<1>8. ASSUME NEW k \in 1..l PROVE d[Len(b) + k] = buf[n + (k - 1)]
  <2> DEFINE i == n - pos + k
  <2>1. i \in 1..(m - pos) /\ Len(w) + i = Len(b) + k /\ pos + i - 1 = n + (k - 1)
    BY <1>1, <1>4, <1>6
  <2> HIDE DEF i
  <2>2. d[Len(w) + i] = buf[pos + i - 1]
    BY <1>5, <2>1
  <2> QED
    BY <2>1, <2>2
<1> QED
  BY <1>4, <1>5, <1>6, <1>7, <1>8 DEF b, d, IsMore

(* A copy changes none of the bytes that are to be sent.                    *)
LEMMA CopySends ==
  ASSUME UartTypeOK, InTurns, NEW n \in Nat, NEW f \in Nat, NEW at \in Nat,
         CopyBehind(n, f, at), UNCHANGED <<sendLen, frames, wire>>, Position' = Position,
         sendLen + n <= UartBufLen
  PROVE  /\ Sending' /\ \A k \in 0..(n - 1) : sendBuffer'[sendLen + k] = <<f, at + k>>
<1>1. Position \in Nat /\ Position <= sendLen /\ sendLen <= MemLen /\ sendLen \in Nat
  BY PositionInBuffer DEF UartTypeOK
<1>2. /\ sendBuffer \in [0..(MemLen - 1) -> Bytes] /\ sendBuffer' \in [0..(MemLen - 1) -> Bytes]
      /\ \A j \in 0..(MemLen - 1) :
              sendBuffer'[j] = IF j \in sendLen..(sendLen + n - 1)
                               THEN <<f, at + (j - sendLen)>> ELSE sendBuffer[j]
  BY CopyIs DEF UartTypeOK
<1>3. \A j \in 0..(sendLen - 1) : sendBuffer'[j] = sendBuffer[j]
  <2> SUFFICES ASSUME NEW j \in 0..(sendLen - 1) PROVE sendBuffer'[j] = sendBuffer[j]
    OBVIOUS
  <2>1. j \in 0..(MemLen - 1) /\ j \notin sendLen..(sendLen + n - 1)
    BY <1>1, Sizes
  <2> QED
    BY <1>2, <2>1
<1>4. RestOf(sendBuffer', Position, sendLen) = RestOf(sendBuffer, Position, sendLen)
  <2>1. ASSUME NEW i \in 1..(sendLen - Position)
        PROVE  sendBuffer'[Position + i - 1] = sendBuffer[Position + i - 1]
    <3>1. Position + i - 1 \in 0..(sendLen - 1)
      BY <1>1
    <3> QED
      BY <1>3, <3>1
  <2> QED
    BY <2>1 DEF RestOf
<1>5. (wire \o Unsent)' = wire \o Unsent
  BY <1>4, Readings DEF AllOf
<1>6. Sending'
  BY <1>5 DEF InTurns, Sending
<1>7. ASSUME NEW k \in 0..(n - 1) PROVE sendBuffer'[sendLen + k] = <<f, at + k>>
  <2> DEFINE j == sendLen + k
  <2>1. j \in 0..(MemLen - 1) /\ j \in sendLen..(sendLen + n - 1) /\ j - sendLen = k
    BY <1>1, Sizes
  <2> HIDE DEF j
  <2>2. sendBuffer'[j] = <<f, at + (j - sendLen)>>
    BY <1>2, <2>1
  <2> QED
    BY <2>1, <2>2 DEF j
<1> QED
  BY <1>6, <1>7

(* What counts is what was sent before and the bytes behind it.             *)
LEMMA CountSends ==
  ASSUME UartTypeOK, InTurns, NEW l \in Nat, sendLen' = sendLen + l, sendLen + l <= UartBufLen,
         UNCHANGED <<sendBuffer, wire>>, Position' = Position
  PROVE  IsMore((wire \o Unsent)', wire \o Unsent, sendBuffer, sendLen, l)
<1>1. /\ Position \in Nat /\ Position <= sendLen /\ sendLen \in Nat /\ sendLen + l <= MemLen
      /\ sendBuffer \in [0..(MemLen - 1) -> Bytes] /\ wire \in Seq(Bytes)
  BY PositionInBuffer, Sizes DEF UartTypeOK
<1>2. IsMore(AllOf(wire, sendBuffer, Position, sendLen'), AllOf(wire, sendBuffer, Position, sendLen),
             sendBuffer, sendLen, l)
  <2>1. sendLen' = sendLen + l /\ sendLen' <= MemLen
    BY <1>1
  <2> QED
    BY <1>1, <2>1, AllGrows
<1> QED
  BY <1>2, Readings

(* The four statements of an append.                                        *)
LEMMA CopyFlagInTurns ==
  ASSUME UartTypeOK, InTurns, NEW c \in Contexts, CopyFlag(c)
  PROVE  InTurns'
<1>1. /\ pc[c] = "flag" /\ GoTo(c, "flagLen") /\ CopyBehind(FlagLen, Len(frames) + 1, 0)
      /\ UNCHANGED <<sendLen, len, out, total, frames, wire>>
      /\ "flag" \in Appending /\ "flagLen" \in Appending
  BY PlacesDiffer DEF CopyFlag
<1>2. /\ FlagLen \in Nat /\ Len(frames) + 1 \in Nat /\ sendLen \in Nat /\ UartBufLen \in Nat
      /\ len[c] \in Nat /\ DataLen(c) \in Nat /\ len[c] = FlagLen + DataLen(c)
      /\ sendLen + len[c] <= UartBufLen
  BY <1>1, Sizes, DataLenIs DEF UartTypeOK, InTurns, Frames, RoomIsKept
<1>3. /\ OneFlush' /\ OneAppend' /\ FlushInPlace' /\ Position' = Position
      /\ pc'[c] = "flagLen" /\ \A d \in Contexts : d # c => pc[d] \notin Appending /\ pc'[d] = pc[d]
  BY <1>1, <1>2, AppendAlone DEF InTurns
<1>4. \A d \in Contexts : d # c => pc'[d] \notin {"flag", "flagLen", "data", "dataLen"}
  BY <1>3, PlacesDiffer
<1>5. /\ Sending'
      /\ \A k \in 0..(FlagLen - 1) : sendBuffer'[sendLen + k] = <<Len(frames) + 1, 0 + k>>
  <2>1. sendLen + FlagLen <= UartBufLen /\ 0 \in Nat
    BY <1>2
  <2> QED
    BY <1>1, <1>2, <1>3, <2>1, CopySends
<1>6. RoomIsKept'
  BY <1>1, <1>2, <1>3, <1>4 DEF RoomIsKept
<1>7. IsCopied'
  <2>1. \A k \in 0..(FlagLen - 1) : sendBuffer'[sendLen + k] = <<Len(frames) + 1, k>>
    BY <1>5
  <2> QED
    BY <1>1, <1>3, <1>4, <2>1 DEF IsCopied
<1>8. FlagIsFirst'
  BY <1>3, <1>4 DEF FlagIsFirst
<1>9. WholeFrames'
  <2>1. \A d \in Contexts : pc[d] \notin {"data", "dataLen"}
    BY <1>1, <1>3, <1>4
  <2> QED
    BY <1>1, <2>1 DEF InTurns, Frames, WholeFrames
<1> QED
  BY <1>3, <1>5, <1>6, <1>7, <1>8, <1>9 DEF InTurns, Frames

LEMMA CountFlagInTurns ==
  ASSUME UartTypeOK, InTurns, NEW c \in Contexts, CountFlag(c)
  PROVE  InTurns'
<1>1. /\ pc[c] = "flagLen" /\ GoTo(c, "data") /\ sendLen' = sendLen + FlagLen
      /\ frames' = Append(frames, FlagLen)
      /\ UNCHANGED <<sendBuffer, len, out, total, wire>>
      /\ "flagLen" \in Appending /\ "data" \in Appending
  BY PlacesDiffer DEF CountFlag
<1>2. /\ FlagLen \in Nat /\ FlagLen \in Nat \ {0} /\ sendLen \in Nat /\ UartBufLen \in Nat
      /\ len[c] \in Nat /\ DataLen(c) \in Nat /\ len[c] = FlagLen + DataLen(c)
      /\ sendLen + len[c] <= UartBufLen /\ frames \in Seq(Nat \ {0}) /\ Len(frames) \in Nat
  BY <1>1, Sizes, DataLenIs DEF UartTypeOK, InTurns, Frames, RoomIsKept
<1>3. /\ OneFlush' /\ OneAppend' /\ FlushInPlace' /\ Position' = Position
      /\ pc'[c] = "data" /\ \A d \in Contexts : d # c => pc[d] \notin Appending /\ pc'[d] = pc[d]
  <2>1. sendLen' \in Nat /\ sendLen <= sendLen'
    BY <1>1, <1>2
  <2> QED
    BY <1>1, <2>1, AppendAlone DEF InTurns
<1>4. \A d \in Contexts : d # c => pc'[d] \notin {"flag", "flagLen", "data", "dataLen"}
  BY <1>3, PlacesDiffer
<1>5. /\ Len(frames') = Len(frames) + 1 /\ frames'[Len(frames) + 1] = FlagLen
      /\ DOMAIN frames' = 1..(Len(frames) + 1) /\ DOMAIN frames = 1..Len(frames)
      /\ \A f \in 1..Len(frames) : frames'[f] = frames[f]
  BY <1>1, <1>2
<1>6. sendLen + FlagLen <= UartBufLen
  BY <1>2
<1>7. Sending'
  <2> DEFINE b == wire \o Unsent
             d == (wire \o Unsent)'
  <2>1. /\ b \in Seq(Bytes) /\ d \in Seq(Bytes) /\ Len(d) = Len(b) + FlagLen
        /\ \A i \in 1..Len(b) : d[i] = b[i]
        /\ \A k \in 1..FlagLen : d[Len(b) + k] = sendBuffer[sendLen + (k - 1)]
    BY <1>1, <1>2, <1>3, <1>6, CountSends DEF IsMore
  <2>2. Spell(b, frames)
    BY DEF InTurns, Sending
  <2> HIDE DEF b, d
  <2>3. ASSUME NEW k \in 1..FlagLen PROVE d[Len(b) + k] = <<Len(frames) + 1, k - 1>>
    <3>1. k - 1 \in 0..(FlagLen - 1)
      BY <1>2
    <3>2. sendBuffer[sendLen + (k - 1)] = <<Len(frames) + 1, k - 1>>
      BY <1>1, <3>1 DEF InTurns, Frames, IsCopied
    <3> QED
      BY <2>1, <3>2
  <2>4. Spell(d, Append(frames, FlagLen))
    BY <1>2, <2>1, <2>2, <2>3, SpellMore
  <2> QED
    BY <1>1, <1>6, <2>4 DEF Sending, d
<1>8. RoomIsKept'
  <2>1. sendLen' + DataLen(c)' <= UartBufLen
    BY <1>1, <1>2 DEF DataLen
  <2> QED
    BY <1>3, <1>4, <2>1 DEF RoomIsKept
<1>9. IsCopied'
  BY <1>3, <1>4 DEF IsCopied
<1>10. FlagIsFirst'
  BY <1>3, <1>4, <1>5 DEF FlagIsFirst
<1>11. WholeFrames'
  <2> SUFFICES ASSUME NEW f \in 1..(Len(frames) + 1)
               PROVE  frames'[f] \in FrameLens \/ (f = Len(frames) + 1 /\ frames'[f] = FlagLen)
    BY <1>3, <1>5 DEF WholeFrames
  <2>1. \A d \in Contexts : pc[d] \notin {"data", "dataLen"}
    BY <1>1, <1>3, <1>4
  <2>2. \A g \in 1..Len(frames) : frames[g] \in FrameLens
    BY <1>5, <2>1 DEF InTurns, Frames, WholeFrames
  <2>3. CASE f = Len(frames) + 1
    BY <1>5, <2>3
  <2>4. CASE f # Len(frames) + 1
    <3>1. f \in 1..Len(frames)
      BY <1>2, <2>4
    <3> QED
      BY <1>5, <2>2, <3>1
  <2> QED
    BY <2>3, <2>4
<1> QED
  BY <1>3, <1>7, <1>8, <1>9, <1>10, <1>11 DEF InTurns, Frames

LEMMA CopyDataInTurns ==
  ASSUME UartTypeOK, InTurns, NEW c \in Contexts, CopyData(c)
  PROVE  InTurns'
<1>1. /\ pc[c] = "data" /\ GoTo(c, "dataLen") /\ CopyBehind(DataLen(c), Len(frames), FlagLen)
      /\ UNCHANGED <<sendLen, len, out, total, frames, wire>>
      /\ "data" \in Appending /\ "dataLen" \in Appending
  BY PlacesDiffer DEF CopyData
<1>2. /\ FlagLen \in Nat /\ Len(frames) \in Nat /\ sendLen \in Nat
      /\ DataLen(c) \in Nat /\ sendLen + DataLen(c) <= UartBufLen
  BY <1>1, Sizes, DataLenIs DEF UartTypeOK, InTurns, Frames, RoomIsKept
<1>3. /\ OneFlush' /\ OneAppend' /\ FlushInPlace' /\ Position' = Position
      /\ pc'[c] = "dataLen" /\ \A d \in Contexts : d # c => pc[d] \notin Appending /\ pc'[d] = pc[d]
  BY <1>1, <1>2, AppendAlone DEF InTurns
<1>4. \A d \in Contexts : d # c => pc'[d] \notin {"flag", "flagLen", "data", "dataLen"}
  BY <1>3, PlacesDiffer
<1>5. /\ Sending'
      /\ \A k \in 0..(DataLen(c) - 1) : sendBuffer'[sendLen + k] = <<Len(frames), FlagLen + k>>
  BY <1>1, <1>2, <1>3, CopySends
<1>6. DataLen(c)' = DataLen(c)
  BY <1>1 DEF DataLen
<1>7. RoomIsKept'
  BY <1>1, <1>2, <1>3, <1>4, <1>6 DEF RoomIsKept
<1>8. IsCopied'
  BY <1>1, <1>3, <1>4, <1>5, <1>6 DEF IsCopied
<1>9. FlagIsFirst'
  <2>1. frames[Len(frames)] = FlagLen
    BY <1>1 DEF InTurns, Frames, FlagIsFirst
  <2> QED
    BY <1>1, <1>3, <1>4, <2>1 DEF FlagIsFirst
<1>10. WholeFrames'
  BY <1>1, <1>3 DEF InTurns, Frames, WholeFrames
<1> QED
  BY <1>3, <1>5, <1>7, <1>8, <1>9, <1>10 DEF InTurns, Frames

LEMMA CountDataInTurns ==
  ASSUME UartTypeOK, InTurns, NEW c \in Contexts, CountData(c)
  PROVE  InTurns'
<1> DEFINE l == DataLen(c)
<1>1. /\ pc[c] = "dataLen" /\ GoTo(c, "idle") /\ sendLen' = sendLen + l
      /\ frames' = Lengthened(frames, l)
      /\ UNCHANGED <<sendBuffer, out, total, wire>>
      /\ "dataLen" \in Appending
  BY PlacesDiffer DEF CountData
<1>2. /\ FlagLen \in Nat \ {0} /\ sendLen \in Nat /\ UartBufLen \in Nat
      /\ l \in Nat \ {0} /\ sendLen + l <= UartBufLen
      /\ len[c] \in FrameLens /\ len[c] = FlagLen + l
      /\ frames \in Seq(Nat \ {0}) /\ frames # <<>> /\ frames[Len(frames)] = FlagLen
  BY <1>1, Sizes, DataLenIs DEF UartTypeOK, InTurns, Frames, RoomIsKept, FlagIsFirst
<1>3. \A k \in 0..(l - 1) : sendBuffer[sendLen + k] = <<Len(frames), FlagLen + k>>
  BY <1>1 DEF InTurns, Frames, IsCopied
<1> HIDE DEF l
<1>4. /\ OneFlush' /\ OneAppend' /\ FlushInPlace' /\ Position' = Position
      /\ pc'[c] = "idle" /\ \A d \in Contexts : d # c => pc[d] \notin Appending /\ pc'[d] = pc[d]
  <2>1. sendLen' \in Nat /\ sendLen <= sendLen'
    BY <1>1, <1>2
  <2> QED
    BY <1>1, <2>1, AppendAlone DEF InTurns
<1>5. \A d \in Contexts : pc'[d] \notin {"flag", "flagLen", "data", "dataLen"}
  BY <1>4, PlacesDiffer
<1>6. /\ Len(frames') = Len(frames) /\ frames' \in Seq(Nat \ {0}) /\ Len(frames) \in Nat
      /\ \A f \in 1..Len(frames) :
           frames'[f] = IF f = Len(frames) THEN frames[f] + l ELSE frames[f]
  BY <1>1, <1>2, LengthenedIs
<1>7. Sending'
  <2> DEFINE b == wire \o Unsent
             d == (wire \o Unsent)'
  <2>1. /\ b \in Seq(Bytes) /\ d \in Seq(Bytes) /\ Len(d) = Len(b) + l
        /\ \A i \in 1..Len(b) : d[i] = b[i]
        /\ \A k \in 1..l : d[Len(b) + k] = sendBuffer[sendLen + (k - 1)]
    BY <1>1, <1>2, <1>4, CountSends DEF IsMore
  <2>2. Spell(b, frames)
    BY DEF InTurns, Sending
  <2> HIDE DEF b, d
  <2>3. ASSUME NEW k \in 1..l
        PROVE  d[Len(b) + k] = <<Len(frames), frames[Len(frames)] + (k - 1)>>
    <3>1. k - 1 \in 0..(l - 1)
      BY <1>2
    <3>2. sendBuffer[sendLen + (k - 1)] = <<Len(frames), FlagLen + (k - 1)>>
      BY <1>3, <3>1
    <3> QED
      BY <1>2, <2>1, <3>2
  <2>4. Spell(d, Lengthened(frames, l))
    BY <1>2, <2>1, <2>2, <2>3, SpellLonger
  <2> QED
    BY <1>1, <1>2, <2>4 DEF Sending, d
<1>8. RoomIsKept' /\ IsCopied' /\ FlagIsFirst'
  BY <1>5 DEF RoomIsKept, IsCopied, FlagIsFirst
<1>9. WholeFrames'
  <2> SUFFICES ASSUME NEW f \in 1..Len(frames) PROVE frames'[f] \in FrameLens
    BY <1>6 DEF WholeFrames
  <2>1. CASE f = Len(frames)
    <3>1. frames'[f] = FlagLen + l
      BY <1>2, <1>6, <2>1
    <3> QED
      BY <1>2, <3>1
  <2>2. CASE f # Len(frames)
    <3>1. f \in DOMAIN frames
      BY <1>2
    <3>2. frames[f] \in FrameLens
      BY <2>2, <3>1 DEF InTurns, Frames, WholeFrames
    <3> QED
      BY <1>6, <2>2, <3>2
  <2> QED
    BY <2>1, <2>2
<1> QED
  BY <1>4, <1>7, <1>8, <1>9 DEF InTurns, Frames

LEMMA AppendInTurns ==
  ASSUME UartTypeOK, InTurns, NEW c \in Contexts, Append_(c)
  PROVE  InTurns'
BY CopyFlagInTurns, CountFlagInTurns, CopyDataInTurns, CountDataInTurns DEF Append_

(* A flush begins when there is none, at the beginning of the buffer.       *)
LEMMA FlushBegins ==
  ASSUME UartTypeOK, InTurns, NEW c \in Contexts, SendUartData(c), ~collided'
  PROVE  InTurns'
<1>1. /\ pc'[c] = "test" /\ pc[c] = "idle" /\ \A d \in Contexts : d # c => pc'[d] = pc[d]
      /\ "test" \in Flushing /\ "test" \notin Appending
      /\ "idle" \notin Flushing /\ "idle" \notin Appending
  BY PlaceTyped, PlacesDiffer DEF SendUartData
<1>2. UNCHANGED <<sendBuffer, sendLen, len, out, frames, wire>>
      /\ total'[c] = 0 /\ (\A d \in Contexts : d # c => total'[d] = total[d]) /\ sendLen \in Nat
  BY DEF SendUartData, UartTypeOK
<1>3. \A d \in Contexts : d # c => pc[d] \notin Flushing
  BY DEF SendUartData, Others
<1>4. OneFlush'
  BY <1>1, <1>3 DEF OneFlush
<1>5. FlushInPlace'
  BY <1>1, <1>2, <1>3 DEF FlushInPlace, Flushing
<1>6. OneAppend' /\ Frames'
  <2>1. OneAppend'
    BY <1>1 DEF InTurns, OneAppend
  <2>2. pc'[c] # "flag" /\ pc'[c] \notin {"flagLen", "data", "dataLen"} /\ pc[c] \notin Appending
    BY <1>1
  <2>3. Frames'
    BY <1>1, <1>2, <2>2, FramesKept DEF InTurns
  <2> QED
    BY <2>1, <2>3
<1>7. Position' = Position
  <2>1. \A d \in Contexts : pc[d] \notin Flushing
    BY <1>1, <1>3
  <2>2. Position = 0
    BY <2>1, Readings, PositionIs
  <2>3. Position' = total'[c]
    BY <1>1, <1>4, Readings, PositionIs DEF OneFlush
  <2> QED
    BY <1>2, <2>2, <2>3
<1> QED
  BY <1>2, <1>4, <1>5, <1>6, <1>7, SendingKept DEF InTurns

(* The loop compares and counts; nobody else sets the length back.          *)
LEMMA FlushGoesOn ==
  ASSUME UartTypeOK, InTurns, NEW c \in Contexts, Test(c) \/ Count(c), ~collided'
  PROVE  InTurns'
<1>1. /\ pc[c] \in Flushing /\ pc'[c] \in Flushing
      /\ \A d \in Contexts : d # c => pc'[d] = pc[d]
  <2>1. CASE Test(c)
    <3> DEFINE label == IF total[c] < sendLen THEN "count" ELSE "reset"
    <3>1. label \in Flushing /\ label \in Places /\ GoTo(c, label) /\ pc[c] \in Flushing
      BY <2>1, PlacesDiffer DEF Test
    <3> HIDE DEF label
    <3> QED
      BY <3>1, PlaceTyped
  <2>2. CASE Count(c)
    BY <2>2, PlaceTyped, PlacesDiffer DEF Count
  <2> QED
    BY <2>1, <2>2
<1>2. /\ UNCHANGED <<sendBuffer, sendLen, len, total, frames, wire>>
      /\ sendLen \in Nat /\ total[c] \in Nat /\ sendLen <= UartBufLen
      /\ \A d \in Contexts : d # c => out'[d] = out[d]
  BY DEF Test, Count, UartTypeOK, InTurns, Sending
<1>3. OneFlush'
  BY <1>1 DEF OneFlush, InTurns
<1>4. /\ total[c] <= sendLen
      /\ pc'[c] = "count" => total[c] < sendLen
      /\ pc'[c] = "write" => total[c] + out'[c] <= sendLen
      /\ pc'[c] = "reset" => total[c] = sendLen
  <2>1. total[c] <= sendLen /\ (pc[c] = "count" => total[c] < sendLen)
    BY <1>1 DEF FlushInPlace, InTurns
  <2>2. CASE Test(c)
    BY <1>2, <2>1, <2>2 DEF Test, GoTo, UartTypeOK
  <2>3. CASE Count(c)
    <3>1. pc'[c] = "write"
      BY <2>3, PlaceTyped, PlacesDiffer DEF Count
    <3>2. out'[c] = (sendLen - total[c]) % Wide
      BY <2>3 DEF Count, UartTypeOK
    <3>3. sendLen - total[c] \in Nat /\ Wide \in Nat /\ sendLen - total[c] < Wide
      BY <1>2, <2>1, Sizes
    <3>4. out'[c] = sendLen - total[c]
      BY <3>2, <3>3, NoWrap
    <3> QED
      BY <1>2, <2>1, <3>1, <3>4
  <2> QED
    BY <2>2, <2>3
<1>5. FlushInPlace'
  BY <1>1, <1>2, <1>4 DEF FlushInPlace, InTurns
<1>6. OneAppend' /\ Frames'
  <2>1. /\ pc[c] \notin Appending /\ pc'[c] \notin Appending
        /\ {"flag", "flagLen", "data", "dataLen"} = Appending
    BY <1>1, PlacesDiffer
  <2>2. pc'[c] = "reset" => \A d \in Contexts : d # c => pc[d] \notin Appending
    <3>1. CASE Test(c)
      BY <3>1 DEF Test, Others
    <3>2. CASE Count(c)
      BY <3>2, PlaceTyped, PlacesDiffer DEF Count
    <3> QED
      BY <3>1, <3>2
  <2>3. OneAppend'
    BY <1>1, <2>1, <2>2 DEF InTurns, OneAppend
  <2>4. Frames'
    BY <1>1, <1>2, <2>1, FramesKept DEF InTurns
  <2> QED
    BY <2>3, <2>4
<1>7. Position' = Position
  BY <1>1, <1>2, <1>3, PositionKept DEF InTurns
<1> QED
  BY <1>2, <1>3, <1>5, <1>6, <1>7, SendingKept DEF InTurns

(* What is written is taken from where the flush is.                        *)
LEMMA WriteMovesOn ==
  ASSUME NEW b \in [0..(MemLen - 1) -> Bytes], NEW w \in Seq(Bytes),
         NEW pos \in Nat, NEW n \in Nat, NEW k \in Nat, pos + k <= n, n <= MemLen
  PROVE  AllOf(w \o [i \in 1..k |-> b[pos + i - 1]], b, pos + k, n) = AllOf(w, b, pos, n)
<1> DEFINE x == [i \in 1..k |-> b[pos + i - 1]]
           w2 == w \o x
           p2 == pos + k
           one == AllOf(w2, b, p2, n)
           two == AllOf(w, b, pos, n)
<1>1. x \in Seq(Bytes) /\ Len(x) = k /\ \A i \in 1..k : x[i] = b[pos + i - 1]
  <2>1. ASSUME NEW i \in 1..k PROVE b[pos + i - 1] \in Bytes
    <3>1. pos + i - 1 \in 0..(MemLen - 1)
      BY Sizes
    <3> QED
      BY <3>1
  <2> QED
    BY <2>1
<1>2. Len(w) \in Nat /\ p2 \in Nat /\ p2 = pos + k /\ p2 <= n /\ pos <= n
  OBVIOUS
<1> HIDE DEF x
<1>3. /\ w2 \in Seq(Bytes) /\ Len(w2) = Len(w) + k
      /\ \A i \in 1..(Len(w) + k) : w2[i] = IF i <= Len(w) THEN w[i] ELSE x[i - Len(w)]
  BY <1>1, ConcatProperties
<1> HIDE DEF w2, p2
<1>4. AreAll(one, w2, b, p2, n)
  BY <1>2, <1>3, AllBytes
<1>5. AreAll(two, w, b, pos, n)
  BY <1>2, AllBytes
<1> HIDE DEF one, two
<1>6. one \in Seq(Bytes) /\ two \in Seq(Bytes) /\ Len(one) = Len(two) /\ Len(two) = Len(w) + (n - pos)
  BY <1>2, <1>3, <1>4, <1>5 DEF AreAll
<1>7. ASSUME NEW i \in 1..Len(two) PROVE one[i] = two[i]
  <2>1. CASE i <= Len(w)
    <3>1. i \in 1..Len(w) /\ i \in 1..Len(w2) /\ i \in 1..(Len(w) + k)
      BY <1>2, <1>3, <1>6, <2>1
    <3>2. one[i] = w2[i] /\ two[i] = w[i]
      BY <1>4, <1>5, <3>1 DEF AreAll
    <3> QED
      BY <1>3, <2>1, <3>1, <3>2
  <2>2. CASE i > Len(w) /\ i <= Len(w) + k
    <3> DEFINE j == i - Len(w)
    <3>1. /\ i \in 1..Len(w2) /\ i \in 1..(Len(w) + k) /\ j \in 1..k /\ j \in 1..(n - pos)
          /\ i = Len(w) + j /\ ~(i <= Len(w))
      BY <1>2, <1>3, <1>6, <2>2
    <3>2. one[i] = w2[i] /\ w2[i] = x[j]
      BY <1>3, <1>4, <3>1 DEF AreAll
    <3> HIDE DEF j
    <3>3. two[i] = b[pos + j - 1]
      BY <1>5, <3>1 DEF AreAll
    <3> QED
      BY <1>1, <3>1, <3>2, <3>3
  <2>3. CASE i > Len(w) + k
    <3> DEFINE j == i - (Len(w) + k)
               m == i - Len(w)
    <3>1. /\ j \in 1..(n - p2) /\ m \in 1..(n - pos) /\ i = Len(w2) + j /\ i = Len(w) + m
          /\ p2 + j - 1 = pos + m - 1
      BY <1>2, <1>3, <1>6, <2>3
    <3> HIDE DEF j, m
    <3>2. one[i] = b[p2 + j - 1]
      BY <1>4, <3>1 DEF AreAll
    <3>3. two[i] = b[pos + m - 1]
      BY <1>5, <3>1 DEF AreAll
    <3> QED
      BY <3>1, <3>2, <3>3
  <2>4. i <= Len(w) \/ (i > Len(w) /\ i <= Len(w) + k) \/ i > Len(w) + k
    BY <1>2, <1>6
  <2> QED
    BY <2>1, <2>2, <2>3, <2>4
<1>8. one = two
  BY <1>6, <1>7, SeqEqual
<1> QED
  BY <1>8 DEF one, two, w2, p2, x

LEMMA WriteInTurns ==
  ASSUME UartTypeOK, InTurns, NEW c \in Contexts, Write(c)
  PROVE  InTurns'
<1>1. /\ pc[c] = "write" /\ pc'[c] = "test" /\ \A d \in Contexts : d # c => pc'[d] = pc[d]
      /\ "test" \in Flushing /\ "write" \in Flushing
      /\ "test" \notin Appending /\ "write" \notin Appending
  BY PlaceTyped, PlacesDiffer DEF Write
<1>2. PICK n \in 0..out[c] :
        /\ wire' = wire \o [i \in 1..n |-> sendBuffer[total[c] + i - 1]]
        /\ total' = [total EXCEPT ![c] = @ + n]
  BY DEF Write
<1>3. /\ UNCHANGED <<sendBuffer, sendLen, len, frames>>
      /\ total'[c] = total[c] + n /\ \A d \in Contexts : d # c => total'[d] = total[d] /\ out'[d] = out[d]
  BY <1>2 DEF Write, UartTypeOK
<1>4. n \in Nat /\ total[c] \in Nat /\ sendLen \in Nat /\ total[c] + n <= sendLen /\ sendLen <= MemLen
  <2>1. total[c] + out[c] <= sendLen /\ sendLen <= UartBufLen
    BY <1>1 DEF InTurns, FlushInPlace, Sending
  <2>2. out[c] \in Nat /\ total[c] \in Nat /\ sendLen \in Nat
    BY DEF UartTypeOK
  <2> QED
    BY <2>1, <2>2, Sizes
<1>5. OneFlush'
  BY <1>1 DEF OneFlush, InTurns
<1>6. FlushInPlace'
  BY <1>1, <1>3, <1>4 DEF FlushInPlace, InTurns
<1>7. OneAppend' /\ Frames'
  <2>1. OneAppend'
    BY <1>1 DEF InTurns, OneAppend
  <2>2. pc'[c] # "flag" /\ pc'[c] \notin {"flagLen", "data", "dataLen"} /\ pc[c] \notin Appending
    BY <1>1
  <2>3. Frames'
    BY <1>1, <1>3, <2>2, FramesKept DEF InTurns
  <2> QED
    BY <2>1, <2>3
<1>8. Position = total[c] /\ Position' = total[c] + n
  BY <1>1, <1>3, <1>5, Readings, PositionIs DEF OneFlush, InTurns
<1>9. (wire \o Unsent)' = wire \o Unsent
  <2>1. sendBuffer \in [0..(MemLen - 1) -> Bytes] /\ wire \in Seq(Bytes)
    BY DEF UartTypeOK
  <2>2. AllOf(wire \o [i \in 1..n |-> sendBuffer[total[c] + i - 1]], sendBuffer, total[c] + n, sendLen)
          = AllOf(wire, sendBuffer, total[c], sendLen)
    BY <1>4, <2>1, WriteMovesOn
  <2> QED
    BY <1>2, <1>3, <1>8, <2>2, Readings
<1>10. Sending'
  BY <1>3, <1>9 DEF InTurns, Sending
<1> QED
  BY <1>5, <1>6, <1>7, <1>10 DEF InTurns

(* When the length is set back everything is written.                       *)
LEMMA ResetInTurns ==
  ASSUME UartTypeOK, InTurns, NEW c \in Contexts, Reset(c)
  PROVE  InTurns'
<1>1. /\ pc[c] = "reset" /\ pc'[c] = "idle" /\ \A d \in Contexts : d # c => pc'[d] = pc[d]
      /\ "idle" \notin Flushing /\ "reset" \in Flushing /\ "idle" \notin Appending
      /\ {"flag", "flagLen", "data", "dataLen"} = Appending
  BY PlaceTyped, PlacesDiffer DEF Reset
<1>2. UNCHANGED <<sendBuffer, len, out, frames, wire>> /\ sendLen' = 0
      /\ \A d \in Contexts : d # c => total'[d] = total[d]
  BY DEF Reset, UartTypeOK
<1>3. \A d \in Contexts : d # c => pc[d] \notin Flushing
  BY <1>1 DEF InTurns, OneFlush
<1>4. total[c] = sendLen /\ sendLen \in Nat
  BY <1>1 DEF InTurns, FlushInPlace, UartTypeOK
<1>5. OneFlush'
  BY <1>1 DEF OneFlush, InTurns
<1>6. FlushInPlace'
  BY <1>1, <1>3 DEF FlushInPlace, Flushing
<1>7. OneAppend' /\ Frames'
  <2>1. \A d \in Contexts : pc[d] \notin Appending
    BY <1>1, PlacesDiffer DEF InTurns, OneAppend
  <2>2. \A d \in Contexts : pc'[d] \notin {"flag", "flagLen", "data", "dataLen"}
    BY <1>1, <2>1
  <2>3. OneAppend'
    BY <1>1, <2>2 DEF OneAppend
  <2>4. RoomIsKept' /\ IsCopied' /\ FlagIsFirst'
    BY <2>2 DEF RoomIsKept, IsCopied, FlagIsFirst
  <2>5. WholeFrames'
    <3>1. \A d \in Contexts : pc[d] \notin {"data", "dataLen"}
      BY <1>1, <2>1
    <3> QED
      BY <1>2, <3>1 DEF InTurns, Frames, WholeFrames
  <2> QED
    BY <2>3, <2>4, <2>5 DEF Frames
<1>8. Position = sendLen /\ Position' = 0
  <2>1. Position = total[c]
    BY <1>1, Readings, PositionIs DEF OneFlush, InTurns
  <2>2. \A d \in Contexts : pc'[d] \notin Flushing
    BY <1>1, <1>3
  <2>3. Position' = 0
    BY <2>2, Readings, PositionIs
  <2> QED
    BY <1>4, <2>1, <2>3
<1>9. (wire \o Unsent)' = wire \o Unsent
  <2>1. RestOf(sendBuffer, sendLen, sendLen) = <<>> /\ RestOf(sendBuffer, 0, 0) = <<>>
    BY <1>4 DEF RestOf
  <2> QED
    BY <1>2, <1>8, <2>1, Readings DEF AllOf
<1>10. Sending'
  <2>1. 0 <= UartBufLen
    BY Sizes
  <2> QED
    BY <1>2, <1>9, <2>1 DEF InTurns, Sending
<1> QED
  BY <1>5, <1>6, <1>7, <1>10 DEF InTurns

LEMMA InitInTurns == UartInit => UartInv
<1> SUFFICES ASSUME UartInit PROVE InTurns
  BY UartInitTyped DEF UartInv
<1>1. /\ \A c \in Contexts : pc[c] = "idle"
      /\ wire = <<>> /\ frames = <<>> /\ sendLen = 0
      /\ "idle" \notin Flushing /\ "idle" \notin Appending
  BY PlacesDiffer DEF UartInit
<1>2. OneFlush /\ OneAppend /\ FlushInPlace /\ Frames
  BY <1>1 DEF OneFlush, OneAppend, FlushInPlace, Frames, RoomIsKept, IsCopied, FlagIsFirst,
              WholeFrames
<1>3. wire \o Unsent = <<>>
  <2>1. Position = 0
    BY <1>1, <1>2, Readings, PositionIs
  <2>2. RestOf(sendBuffer, 0, 0) = <<>>
    BY DEF RestOf
  <2> QED
    BY <1>1, <2>1, <2>2, Readings DEF AllOf
<1>4. Sending
  <2>1. Spell(<<>>, <<>>)
    BY DEF Spell
  <2> QED
    BY <1>1, <1>3, <2>1, Sizes DEF Sending
<1> QED
  BY <1>2, <1>4 DEF InTurns

UartStep ==
  \/ \E c \in Contexts : \E l \in FrameLens : CheckLen(c, l)
  \/ \E c \in Contexts : Append_(c) \/ Flush(c)
  \/ UNCHANGED uartVars

LEMMA UartStepInTurns == UartInv /\ UartStep => UartInv'
<1> SUFFICES ASSUME UartInv, UartStep PROVE UartInv'
  OBVIOUS
<1>0. UartTypeOK /\ (~collided' => InTurns)
  <2>1. collided => collided'
    BY DEF UartStep, CheckLen, Append_, CopyFlag, CountFlag, CopyData, CountData,
           Flush, SendUartData, Test, Count, Write, Reset, uartVars
  <2> QED
    BY <2>1 DEF UartInv
<1>1. ASSUME NEW c \in Contexts, NEW l \in FrameLens, CheckLen(c, l) PROVE UartInv'
  BY <1>0, <1>1, CheckLenTyped, CheckLenInTurns DEF UartInv
<1>2. ASSUME NEW c \in Contexts, Append_(c) PROVE UartInv'
  BY <1>0, <1>2, AppendTyped, AppendInTurns DEF UartInv
<1>3. ASSUME NEW c \in Contexts, Flush(c) PROVE UartInv'
  BY <1>0, <1>3, FlushTyped, FlushBegins, FlushGoesOn, WriteInTurns, ResetInTurns DEF UartInv, Flush
<1>4. CASE UNCHANGED uartVars
  <2>1. UartTypeOK'
    BY <1>0, <1>4 DEF uartVars, UartTypeOK
  <2>2. (OneFlush => OneFlush') /\ (OneAppend => OneAppend')
    BY <1>4 DEF uartVars, OneFlush, OneAppend
  <2>3. FlushInPlace => FlushInPlace'
    BY <1>4 DEF uartVars, FlushInPlace
  <2>4. Frames => Frames'
    BY <1>4 DEF uartVars, Frames, RoomIsKept, DataLen, IsCopied, FlagIsFirst, WholeFrames
  <2>5. Position' = Position
    BY <1>4, Readings DEF uartVars
  <2>6. Sending => Sending'
    BY <1>4, <2>5, SendingKept DEF uartVars
  <2> QED
    BY <1>0, <2>1, <2>2, <2>3, <2>4, <2>6 DEF UartInv, InTurns
<1> QED
  BY <1>1, <1>2, <1>3, <1>4 DEF UartStep

(* The cloud thread and the others use the buffer only through these steps. *)
LEMMA NextIsUartStep == [Next]_vars => UartStep
<1> SUFFICES ASSUME [Next]_vars PROVE UartStep
  OBVIOUS
<1>0. Cloud \in Contexts /\ Flushers \subseteq Contexts
  BY UartAssumption, DownlinkAssumption
<1>1. CASE Send \/ Recv \/ Lost \/ UNCHANGED vars
  BY <1>1 DEF Send, Recv, Lost, vars, UartStep
<1>2. CASE Handle
  BY <1>0, <1>2 DEF Handle, UartStep
<1>3. CASE \E c \in Contexts : AppendFrame(c) \/ Notify(c)
  BY <1>3 DEF AppendFrame, Notify, UartStep
<1>4. CASE \E c \in Flushers : FlushBuffer(c)
  BY <1>0, <1>4 DEF FlushBuffer, UartStep
<1> QED
  BY <1>1, <1>2, <1>3, <1>4 DEF Next, Step

(* Up to a collision the MCU is sent every frame that was accepted, whole,  *)
(* once and in order, and the buffer is large enough.                       *)
THEOREM FramesArrive == Spec => []FramesReachTheMcu
<1>1. Init => UartInv
  BY InitInTurns DEF Init
<1>2. UartInv /\ [Next]_vars => UartInv'
  BY UartStepInTurns, NextIsUartStep
<1>3. UartInv => FramesReachTheMcu
  BY DEF UartInv, InTurns, Frames, Sending, FramesReachTheMcu
<1> QED
  BY <1>1, <1>2, <1>3, PTL DEF Spec

-----------------------------------------------------------------------------
(* Messages of a cloud that waits until each was handled.                   *)
StreamOK == stream \in Streams /\ sent \in 0..Len(stream) /\ read \in Nat

(* The cloud thread appends the message it has just handled.                *)
ForwardingNow == forwarding # 0 => pc[Cloud] \in Appending

(* The buffer holds what was read of the message after the handled ones.    *)
HoldsNext ==
  /\ sent = Len(handled) + 1
  /\ buffer.from = BytesOf(Len(handled))
  /\ buffer.len \in Nat /\ read = BytesOf(Len(handled)) + buffer.len
  /\ \/ buffer.status = "SEGMENT_NOHEAD" /\ ~queued
     \/ /\ buffer.status = "SEGMENT_HEAD" /\ ~queued
        /\ buffer.total = LengthOf(Len(handled) + 1)
     \/ /\ buffer.status = "FULL" /\ queued
        /\ buffer.total = LengthOf(Len(handled) + 1) /\ buffer.len = buffer.total

Assembling ==
  /\ handled \in Seq(Nat) /\ handled = [k \in 1..Len(handled) |-> k]
  /\ Len(handled) <= sent /\ sent <= Len(handled) + 1
  /\ \/ buffer = IdleBuffer /\ read = BytesOf(Len(handled)) /\ ~queued
     \/ HoldsNext

Forwarded ==
  /\ \A m \in forwarded : m[1] \in 1..Len(frames) /\ m[2] \in 1..Len(handled)
  /\ forwarding # 0 => /\ forwarding = Len(handled)
                       /\ \A m \in forwarded : m[2] < forwarding
  /\ \A m, n \in forwarded : m[1] < n[1] => m[2] < n[2]
  /\ {m[2] : m \in forwarded} \cup refused \cup ({forwarding} \ {0}) = ToSet(handled)

DownInv == UartTypeOK /\ StreamOK /\ ForwardingNow /\ (Paced => Assembling /\ Forwarded)

(* Where messages begin and how long they are.                              *)
LEMMA Boundaries ==
  ASSUME StreamOK, NEW k \in Nat, k + 1 \in 1..Len(stream)
  PROVE  /\ BytesOf(k) \in Nat /\ BytesOf(k + 1) \in Nat /\ HeadLen \in Nat
         /\ LengthOf(k + 1) = BytesOf(k + 1) - BytesOf(k)
         /\ LengthOf(k + 1) \in Nat /\ HeadLen <= LengthOf(k + 1)
         /\ StartsAt(BytesOf(k)) = {k + 1}
         /\ LengthsAt(BytesOf(k)) = {LengthOf(k + 1)}
<1>1. /\ HeadLen \in Nat /\ HeadLen > 0 /\ stream \in Seq(Nat) /\ Len(stream) \in Nat
      /\ \A j \in 1..Len(stream) :
           /\ stream[j] \in Nat /\ stream[j] >= HeadLen
           /\ \A i \in 1..(j - 1) : stream[j] >= stream[i] + HeadLen
  <2>1. stream \in Seq(Nat)
    BY AssemblyAssumption DEF StreamOK
  <2>2. \A j \in 1..Len(stream) : stream[j] \in Nat
    BY <2>1
  <2> QED
    BY <2>1, <2>2, AssemblyAssumption DEF StreamOK
<1>2. \A j \in 0..Len(stream) : BytesOf(j) \in Nat
  BY <1>1 DEF BytesOf
<1>3. ASSUME NEW i \in 0..Len(stream), NEW j \in 0..Len(stream), i < j
      PROVE  BytesOf(i) + HeadLen <= BytesOf(j)
  <2>1. j \in 1..Len(stream) /\ j # 0
    BY <1>1, <1>3
  <2>2. CASE i = 0
    BY <1>1, <2>1, <2>2 DEF BytesOf
  <2>3. CASE i # 0
    <3>1. i \in 1..(j - 1) /\ i \in 1..Len(stream)
      BY <1>1, <1>3, <2>3
    <3> QED
      BY <1>1, <2>1, <2>3, <3>1 DEF BytesOf
  <2> QED
    BY <2>2, <2>3
<1>4. k \in 0..Len(stream) /\ k + 1 \in 0..Len(stream) /\ (k + 1) - 1 = k
  BY <1>1
<1>5. LengthOf(k + 1) = BytesOf(k + 1) - BytesOf(k)
  BY <1>4 DEF LengthOf
<1>6. StartsAt(BytesOf(k)) = {k + 1}
  <2>1. k + 1 \in StartsAt(BytesOf(k))
    BY <1>4 DEF StartsAt
  <2>2. ASSUME NEW j \in StartsAt(BytesOf(k)) PROVE j = k + 1
    <3>1. j \in 1..Len(stream) /\ BytesOf(j - 1) = BytesOf(k)
      BY DEF StartsAt
    <3> DEFINE i == j - 1
    <3>2. i \in 0..Len(stream) /\ i + 1 = j /\ BytesOf(i) = BytesOf(k)
      BY <1>1, <3>1
    <3> HIDE DEF i
    <3>3. BytesOf(i) \in Nat /\ BytesOf(k) \in Nat /\ HeadLen \in Nat /\ HeadLen > 0
      BY <1>1, <1>2, <1>4, <3>2
    <3>4. ~(i < k)
      <4>1. i < k => BytesOf(i) + HeadLen <= BytesOf(k)
        BY <1>3, <1>4, <3>2
      <4> QED
        BY <3>2, <3>3, <4>1
    <3>5. ~(k < i)
      <4>1. k < i => BytesOf(k) + HeadLen <= BytesOf(i)
        BY <1>3, <1>4, <3>2
      <4> QED
        BY <3>2, <3>3, <4>1
    <3> QED
      BY <1>1, <1>4, <3>2, <3>4, <3>5
  <2> QED
    BY <2>1, <2>2
<1>7. LengthsAt(BytesOf(k)) = {LengthOf(k + 1)}
  BY <1>6 DEF LengthsAt
<1>8. BytesOf(k) + HeadLen <= BytesOf(k + 1) /\ BytesOf(k) \in Nat /\ BytesOf(k + 1) \in Nat
  BY <1>2, <1>3, <1>4
<1> QED
  BY <1>1, <1>5, <1>6, <1>7, <1>8

LEMMA SingleToSeq ==
  ASSUME NEW x
  PROVE  SetToSeq({x}) = <<x>>
<1>1. Cardinality({x}) = 1
  BY FS_Singleton
<1>2. <<x>> \in [1..1 -> {x}] /\ IsInjective(<<x>>)
  BY DEF IsInjective
<1>3. \A f \in [1..1 -> {x}] : f = <<x>>
  <2> SUFFICES ASSUME NEW f \in [1..1 -> {x}] PROVE f = <<x>>
    OBVIOUS
  <2>1. f = [i \in 1..1 |-> x]
    OBVIOUS
  <2>2. <<x>> = [i \in 1..1 |-> x]
    OBVIOUS
  <2> QED
    BY <2>1, <2>2
<1> QED
  BY <1>1, <1>2, <1>3 DEF SetToSeq

(* A full buffer holds the next message and nothing else.                   *)
LEMMA GenuineIs ==
  ASSUME StreamOK, Assembling, queued
  PROVE  /\ HoldsNext /\ Genuine = {Len(handled) + 1} /\ Len(handled) \in Nat
         /\ Len(handled) + 1 \in 1..Len(stream)
<1>1. HoldsNext /\ Len(handled) \in Nat
  BY DEF Assembling
<1>2. Len(handled) + 1 \in 1..Len(stream)
  BY <1>1 DEF HoldsNext, StreamOK
<1>3. buffer.from = BytesOf(Len(handled)) /\ buffer.total = LengthOf(Len(handled) + 1)
  BY <1>1 DEF HoldsNext
<1>4. StartsAt(BytesOf(Len(handled))) = {Len(handled) + 1}
  BY <1>1, <1>2, Boundaries
<1> QED
  BY <1>1, <1>2, <1>3, <1>4 DEF Genuine, GenuineIn

(* Bytes of the next message arrive in the buffer.                          *)
LEMMA RecvAssembles ==
  ASSUME StreamOK, Assembling, RecvDataFromCloud, \A k \in 1..sent : ~TooLong(k)
  PROVE  StreamOK' /\ Assembling'
<1> DEFINE h == Len(handled)
           from == BytesOf(h)
           l == LengthOf(h + 1)
<1>1. PICK n \in 1..QC_MAX_SOCKET_LEN : /\ read + n <= BytesOf(sent)
                                        /\ buffer' \in Received(n) /\ read' = read + n
  BY DEF RecvDataFromCloud
<1>2. ~queued /\ UNCHANGED <<stream, sent, handled, hurried>> /\ Decrypt
  BY DEF RecvDataFromCloud
<1>3. /\ n \in Nat /\ n > 0 /\ h \in Nat /\ sent \in Nat /\ read \in Nat
      /\ h <= sent /\ sent <= h + 1 /\ Len(stream) \in Nat /\ sent <= Len(stream)
  <2>1. stream \in Seq(Nat) /\ h \in Nat
    BY AssemblyAssumption DEF StreamOK, Assembling
  <2>2. Len(stream) \in Nat
    BY <2>1
  <2> QED
    BY <2>1, <2>2, AssemblyAssumption DEF Assembling, StreamOK
<1>4. sent = h + 1 /\ h + 1 \in 1..Len(stream)
  <2>1. CASE HoldsNext
    BY <1>3, <2>1 DEF HoldsNext, StreamOK
  <2>2. CASE buffer = IdleBuffer /\ read = BytesOf(h)
    <3>1. sent # h
      <4>1. ASSUME sent = h PROVE FALSE
        BY <1>1, <1>3, <2>2, <4>1
      <4> QED
        BY <4>1
    <3> QED
      BY <1>3, <3>1
  <2> QED
    BY <2>1, <2>2 DEF Assembling
<1>5. /\ from \in Nat /\ BytesOf(h + 1) \in Nat /\ l = BytesOf(h + 1) - from /\ l \in Nat
      /\ LengthsAt(from) = {l} /\ StartsAt(from) = {h + 1} /\ HeadLen \in Nat /\ HeadLen <= l
  BY <1>3, <1>4, Boundaries
<1>6. l <= MSG_BUFFER_MAXLEN /\ MSG_BUFFER_MAXLEN \in Nat
  BY <1>3, <1>4, <1>5, AssemblyAssumption DEF TooLong
<1>7. /\ buffer.len \in Nat /\ read = from + buffer.len
      /\ (IF buffer.status = "IDLE" THEN read ELSE buffer.from) = from
      /\ buffer.status # "FULL" /\ (buffer.status = "SEGMENT_HEAD" => buffer.total = l)
  <2>1. CASE HoldsNext
    BY <1>2, <2>1 DEF HoldsNext
  <2>2. CASE buffer = IdleBuffer /\ read = BytesOf(h)
    BY <1>3, <1>5, <2>2 DEF IdleBuffer
  <2> QED
    BY <2>1, <2>2 DEF Assembling
<1> DEFINE have == buffer.len + n
<1> DEFINE end == BytesOf(h + 1)
<1>e. end \in Nat /\ l = end - from /\ read + n <= end
  BY <1>1, <1>4, <1>5
<1> HIDE DEF from, l, end
<1>8. have \in Nat /\ read' = from + have /\ have <= l
  <2> DEFINE some == buffer.len
  <2>1. some \in Nat /\ read = from + some
    BY <1>7
  <2> HIDE DEF some
  <2>2. have = some + n
    BY DEF some
  <2> HIDE DEF have
  <2>3. n \in Nat /\ from \in Nat /\ end \in Nat /\ l = end - from /\ read + n <= end
        /\ read' = read + n
    BY <1>1, <1>3, <1>5, <1>e
  <2> QED
    BY <2>1, <2>2, <2>3
<1> HIDE DEF have
<1>9. \/ buffer' = [status |-> "SEGMENT_NOHEAD", from |-> from, len |-> have, total |-> 0]
      \/ buffer' = Filled(from, l, have)
  BY <1>1, <1>5, <1>7 DEF Received, have
<1>10. \/ buffer' = [status |-> "SEGMENT_NOHEAD", from |-> from, len |-> have, total |-> 0]
       \/ /\ buffer' = [status |-> "SEGMENT_HEAD", from |-> from, len |-> have, total |-> l]
       \/ /\ buffer' = [status |-> "FULL", from |-> from, len |-> l, total |-> l] /\ have = l
  BY <1>5, <1>6, <1>8, <1>9 DEF Filled
<1>11. buffer'.status # "FULL" => ~queued'
  BY <1>2, <1>7 DEF Decrypt
<1>12. buffer'.status = "FULL" => queued'
  <2> SUFFICES ASSUME buffer'.status = "FULL" PROVE queued'
    OBVIOUS
  <2>1. buffer'.from = from /\ buffer'.total = l
    BY <1>10
  <2>2. GenuineIn(buffer') # {}
    BY <1>5, <2>1 DEF GenuineIn, l
  <2> QED
    BY <1>2, <1>7, <2>2 DEF Decrypt
<1>13. /\ buffer'.from = from /\ buffer'.len = have
       /\ \/ buffer'.status = "SEGMENT_NOHEAD" /\ ~queued'
          \/ buffer'.status = "SEGMENT_HEAD" /\ ~queued' /\ buffer'.total = l
          \/ buffer'.status = "FULL" /\ queued' /\ buffer'.total = l /\ buffer'.len = buffer'.total
  BY <1>10, <1>11, <1>12
<1>14. BytesOf(h)' = from /\ LengthOf(h + 1)' = l /\ Len(handled') = h
  BY <1>2 DEF BytesOf, LengthOf, from, l
<1>15. HoldsNext'
  BY <1>2, <1>4, <1>8, <1>13, <1>14 DEF HoldsNext, BytesOf, LengthOf, from, l
<1>16. StreamOK'
  BY <1>1, <1>2, <1>3 DEF StreamOK
<1> QED
  BY <1>2, <1>15, <1>16 DEF Assembling

(* The cloud sends its next message.                                        *)
LEMMA SendAssembles ==
  ASSUME StreamOK, CloudSend, Paced => Assembling, Paced'
  PROVE  Paced /\ Assembling'
<1>1. /\ UNCHANGED <<stream, read, buffer, queued, handled>> /\ sent' = sent + 1
      /\ sent \in Nat /\ (hurried' <=> hurried \/ sent > Len(handled))
  <2>1. sent \in Nat
    BY DEF StreamOK
  <2> QED
    BY <2>1 DEF CloudSend
<1>2. Paced
  <2>1. \A k \in 1..sent : k \in 1..sent' /\ (TooLong(k)' <=> TooLong(k))
    BY <1>1 DEF TooLong, LengthOf, BytesOf
  <2> QED
    BY <1>1, <2>1 DEF Paced
<1>3. Assembling /\ Len(handled) \in Nat /\ ~(sent > Len(handled))
  BY <1>1, <1>2 DEF Paced, Assembling
<1>4. sent = Len(handled)
  <2>1. Len(handled) <= sent
    BY <1>3, Zenon DEF Assembling
  <2> QED
    BY <1>1, <1>3, <2>1
<1>5. ~HoldsNext
  BY <1>3, <1>4 DEF HoldsNext
<1>6. BytesOf(Len(handled))' = BytesOf(Len(handled))
  BY <1>1 DEF BytesOf
<1> QED
  BY <1>1, <1>2, <1>3, <1>4, <1>5, <1>6 DEF Assembling

(* The message is handled, and it is the next one.                          *)
LEMMA HandleAssembles ==
  ASSUME StreamOK, Assembling, HandleEvent
  PROVE  /\ Assembling' /\ Genuine = {Len(handled) + 1} /\ Len(handled) \in Nat
         /\ handled' = Append(handled, Len(handled) + 1)
<1> DEFINE h == Len(handled)
<1>1. queued /\ ~queued' /\ buffer' = IdleBuffer /\ UNCHANGED <<stream, sent, read, hurried>>
  BY DEF HandleEvent
<1>2. /\ HoldsNext /\ Genuine = {h + 1} /\ h \in Nat /\ h + 1 \in 1..Len(stream)
  BY <1>1, GenuineIs
<1>3. handled \in Seq(Nat) /\ handled = [k \in 1..h |-> k]
  BY DEF Assembling
<1>4. handled' = Append(handled, h + 1)
  <2>1. handled' = handled \o <<h + 1>>
    BY <1>2, SingleToSeq DEF HandleEvent
  <2> QED
    BY <1>2, <1>3, <2>1
<1>5. handled' \in Seq(Nat) /\ Len(handled') = h + 1 /\ handled' = [k \in 1..(h + 1) |-> k]
  BY <1>2, <1>3, <1>4
<1>6. read = BytesOf(h + 1)
  <2>1. /\ BytesOf(h) \in Nat /\ BytesOf(h + 1) \in Nat
        /\ LengthOf(h + 1) = BytesOf(h + 1) - BytesOf(h)
    BY <1>2, Boundaries
  <2>2. read = BytesOf(h) + buffer.len /\ buffer.len = LengthOf(h + 1)
    BY <1>1, <1>2 DEF HoldsNext
  <2> HIDE DEF h
  <2> QED
    BY <2>1, <2>2
<1>7. sent' = h + 1
  BY <1>1, <1>2 DEF HoldsNext
<1>8. BytesOf(Len(handled))' = BytesOf(h + 1)
  BY <1>1, <1>5 DEF BytesOf
<1>9. Len(handled') <= sent' /\ sent' <= Len(handled') + 1
  BY <1>2, <1>5, <1>7
<1> QED
  BY <1>1, <1>2, <1>4, <1>5, <1>6, <1>8, <1>9 DEF Assembling

(* Steps that concern the UART only.                                        *)
LEMMA AssemblyKept ==
  ASSUME UNCHANGED cloudVars
  PROVE  /\ StreamOK => StreamOK'
         /\ Assembling => Assembling'
         /\ Paced' <=> Paced
<1>1. UNCHANGED <<stream, sent, read, buffer, queued, handled, hurried>>
  BY DEF cloudVars
<1>2. BytesOf(Len(handled))' = BytesOf(Len(handled))
      /\ LengthOf(Len(handled) + 1)' = LengthOf(Len(handled) + 1)
  BY <1>1 DEF BytesOf, LengthOf
<1>3. Paced' <=> Paced
  BY <1>1 DEF Paced, TooLong, LengthOf, BytesOf
<1>4. HoldsNext => HoldsNext'
  BY <1>1, <1>2 DEF HoldsNext
<1> QED
  BY <1>1, <1>2, <1>3, <1>4 DEF StreamOK, Assembling

LEMMA UartStepTyped == UartTypeOK /\ UartStep => UartTypeOK' /\ Len(frames) <= Len(frames')
<1> SUFFICES ASSUME UartTypeOK, UartStep PROVE UartTypeOK' /\ Len(frames) <= Len(frames')
  OBVIOUS
<1>0. frames \in Seq(Nat \ {0}) /\ Len(frames) \in Nat
  BY DEF UartTypeOK
<1>1. ASSUME NEW c \in Contexts, NEW l \in FrameLens, CheckLen(c, l)
      PROVE  UartTypeOK' /\ Len(frames) <= Len(frames')
  <2>1. frames' = frames
    BY <1>1 DEF CheckLen
  <2> QED
    BY <1>0, <1>1, <2>1, CheckLenTyped
<1>2. ASSUME NEW c \in Contexts, Append_(c) PROVE UartTypeOK' /\ Len(frames) <= Len(frames')
  BY <1>2, AppendTyped
<1>3. ASSUME NEW c \in Contexts, Flush(c) PROVE UartTypeOK' /\ Len(frames) <= Len(frames')
  <2>1. frames' = frames
    BY <1>3 DEF Flush, SendUartData, Test, Count, Write, Reset
  <2> QED
    BY <1>0, <1>3, <2>1, FlushTyped
<1>4. CASE UNCHANGED uartVars
  BY <1>0, <1>4 DEF uartVars, UartTypeOK
<1> QED
  BY <1>1, <1>2, <1>3, <1>4 DEF UartStep

(* Where an append goes; a frame it has completed is there.                 *)
LEMMA AppendGoesOn ==
  ASSUME UartTypeOK, NEW c \in Contexts, Append_(c)
  PROVE  /\ pc[c] \in Appending /\ pc'[c] \in Appending \cup {"idle"}
         /\ \A d \in Contexts : d # c => pc'[d] = pc[d]
         /\ pc'[c] = "idle" => Len(frames) # 0
<1>1. CASE CopyFlag(c) \/ CountFlag(c) \/ CopyData(c)
  <2>1. PICK label \in {"flagLen", "data", "dataLen"} : GoTo(c, label)
    BY <1>1 DEF CopyFlag, CountFlag, CopyData
  <2>2. pc[c] \in Appending /\ label \in Appending /\ label \in Places /\ label # "idle"
    BY <1>1, <2>1, PlacesDiffer DEF CopyFlag, CountFlag, CopyData
  <2> QED
    BY <2>1, <2>2, PlaceTyped
<1>2. CASE CountData(c)
  <2>1. pc[c] = "dataLen" /\ GoTo(c, "idle") /\ pc[c] \in Appending /\ "idle" \in Places
    BY <1>2, PlacesDiffer DEF CountData
  <2>2. frames # <<>> /\ frames \in Seq(Nat \ {0})
    BY <2>1 DEF UartTypeOK
  <2>3. Len(frames) # 0
    BY <2>2
  <2> QED
    BY <2>1, <2>3, PlaceTyped
<1> QED
  BY <1>1, <1>2 DEF Append_

(* What was forwarded stays forwarded.                                      *)
LEMMA ForwardedKept ==
  ASSUME UartTypeOK, UartStep, Forwarded, UNCHANGED <<forwarded, forwarding, refused, handled>>
  PROVE  Forwarded'
<1>1. Len(frames) \in Nat /\ Len(frames') \in Nat /\ Len(frames) <= Len(frames')
  BY UartStepTyped DEF UartTypeOK
<1>2. \A m \in forwarded : m[1] \in 1..Len(frames')
  BY <1>1 DEF Forwarded
<1> QED
  BY <1>2 DEF Forwarded

(* PCT_HandleEvent forwards the message or refuses it.                      *)
LEMMA HandleForwards ==
  ASSUME UartTypeOK, StreamOK, ForwardingNow, Assembling, Forwarded, Handle
  PROVE  Assembling' /\ Forwarded'
<1> DEFINE h == Len(handled)
<1>1. /\ Assembling' /\ Genuine = {h + 1} /\ h \in Nat /\ handled' = Append(handled, h + 1)
  BY HandleAssembles DEF Handle
<1>2. forwarding = 0 /\ forwarded' = forwarded
  BY PlacesDiffer DEF Handle, CloudIdle, ForwardingNow
<1>3. handled \in Seq(Nat)
  BY DEF Assembling
<1>4. /\ Len(handled') = h + 1 /\ Last(handled') = h + 1
      /\ ToSet(handled') = ToSet(handled) \cup {h + 1}
  <2>1. /\ DOMAIN handled' = 1..(h + 1) /\ DOMAIN handled = 1..h /\ handled'[h + 1] = h + 1
        /\ \A i \in 1..h : handled'[i] = handled[i]
    BY <1>1, <1>3
  <2>2. Len(handled') = h + 1
    BY <1>1, <1>3
  <2>3. 1..(h + 1) = (1..h) \cup {h + 1}
    BY <1>1
  <2> QED
    BY <2>1, <2>2, <2>3 DEF Last, ToSet
<1>5. frames' = frames
  BY DEF Handle, CheckLen, uartVars
<1>6. /\ \A m \in forwarded : m[1] \in 1..Len(frames) /\ m[2] \in 1..h
      /\ \A m, n \in forwarded : m[1] < n[1] => m[2] < n[2]
      /\ {m[2] : m \in forwarded} \cup refused = ToSet(handled)
  BY <1>2 DEF Forwarded
<1>7. h + 1 \in Nat /\ h + 1 # 0 /\ \A m \in forwarded : m[2] \in 1..(h + 1) /\ m[2] < h + 1
  BY <1>1, <1>6
<1> HIDE DEF h
<1>8. CASE forwarding' = h + 1 /\ UNCHANGED refused
  <2>1. {m[2] : m \in forwarded} \cup refused \cup ({h + 1} \ {0}) = ToSet(handled')
    BY <1>4, <1>6, <1>7
  <2>2. \A m \in forwarded' : m[1] \in 1..Len(frames') /\ m[2] \in 1..Len(handled')
    BY <1>2, <1>4, <1>5, <1>6, <1>7
  <2>3. forwarding' = Len(handled') /\ \A m \in forwarded' : m[2] < forwarding'
    BY <1>2, <1>4, <1>7, <1>8
  <2>4. \A m, n \in forwarded' : m[1] < n[1] => m[2] < n[2]
    BY <1>2, <1>6
  <2>5. {m[2] : m \in forwarded'} \cup refused' \cup ({forwarding'} \ {0}) = ToSet(handled')
    BY <1>2, <1>8, <2>1
  <2> QED
    BY <1>1, <2>2, <2>3, <2>4, <2>5 DEF Forwarded
<1>9. CASE refused' = refused \cup {h + 1} /\ forwarding' = forwarding
  <2>1. {m[2] : m \in forwarded} \cup (refused \cup {h + 1}) \cup ({0} \ {0}) = ToSet(handled')
    BY <1>4, <1>6
  <2>2. \A m \in forwarded' : m[1] \in 1..Len(frames') /\ m[2] \in 1..Len(handled')
    BY <1>2, <1>4, <1>5, <1>6, <1>7
  <2>3. forwarding' = 0
    BY <1>2, <1>9
  <2>4. \A m, n \in forwarded' : m[1] < n[1] => m[2] < n[2]
    BY <1>2, <1>6
  <2>5. {m[2] : m \in forwarded'} \cup refused' \cup ({forwarding'} \ {0}) = ToSet(handled')
    BY <1>2, <1>9, <2>1, <2>3
  <2> QED
    BY <1>1, <2>2, <2>3, <2>4, <2>5 DEF Forwarded
<1>10. \/ forwarding' = h + 1 /\ UNCHANGED refused
       \/ refused' = refused \cup {h + 1} /\ forwarding' = forwarding
  BY <1>1, <1>4 DEF Handle
<1> QED
  BY <1>1, <1>8, <1>9, <1>10

(* The frame of the message that was handled is the last one.               *)
LEMMA AppendForwards ==
  ASSUME UartTypeOK, Assembling, Forwarded, NEW c \in Contexts, AppendFrame(c)
  PROVE  Forwarded'
<1>1. /\ UartStep /\ handled' = handled /\ refused' = refused
  BY DEF AppendFrame, UartStep, cloudVars
<1>2. CASE UNCHANGED <<forwarded, forwarding>>
  BY <1>1, <1>2, ForwardedKept
<1>3. CASE /\ forwarding # 0 /\ forwarding' = 0 /\ pc'[c] = "idle"
           /\ forwarded' = forwarded \cup {<<Len(frames'), forwarding>>}
  <2> DEFINE f == Len(frames')
             new == <<f, forwarding>>
  <2>1. f \in Nat /\ Len(frames) \in Nat /\ Len(frames) # 0 /\ Len(frames) <= f
    <3>1. frames \in Seq(Nat \ {0}) /\ frames' \in Seq(Nat \ {0}) /\ Len(frames) <= Len(frames')
      BY AppendTyped DEF AppendFrame, UartTypeOK
    <3>2. Len(frames) # 0
      BY <1>3, AppendGoesOn DEF AppendFrame
    <3> QED
      BY <3>1, <3>2
  <2>2. Len(handled) \in Nat
    BY DEF Assembling
  <2>3. /\ \A m \in forwarded : m[1] \in 1..Len(frames) /\ m[2] \in 1..Len(handled) /\ m[2] < forwarding
        /\ forwarding = Len(handled)
        /\ \A m, n \in forwarded : m[1] < n[1] => m[2] < n[2]
        /\ {m[2] : m \in forwarded} \cup refused \cup {forwarding} = ToSet(handled)
    BY <1>3 DEF Forwarded
  <2>4. new[1] = f /\ new[2] = forwarding /\ forwarded' = forwarded \cup {new}
    BY <1>3
  <2> HIDE DEF f, new
  <2>5. \A m \in forwarded' : m[1] \in 1..f /\ m[2] \in 1..Len(handled)
    BY <1>3, <2>1, <2>2, <2>3, <2>4
  <2>6. \A m, n \in forwarded' : m[1] < n[1] => m[2] < n[2]
    <3> SUFFICES ASSUME NEW m \in forwarded', NEW n \in forwarded', m[1] < n[1] PROVE m[2] < n[2]
      OBVIOUS
    <3>1. m # new
      BY <2>1, <2>3, <2>4
    <3> QED
      BY <2>3, <2>4, <3>1
  <2>7. {m[2] : m \in forwarded'} = {m[2] : m \in forwarded} \cup {forwarding}
    BY <2>4
  <2>8. {m[2] : m \in forwarded'} \cup refused \cup ({0} \ {0}) = ToSet(handled)
    BY <2>3, <2>7
  <2> QED
    BY <1>1, <1>3, <2>5, <2>6, <2>8 DEF Forwarded, f
<1> QED
  BY <1>2, <1>3 DEF AppendFrame

(* A new connection begins with nothing handled.                            *)
LEMMA LostKeeps ==
  ASSUME ForwardingNow, Lost
  PROVE  StreamOK' /\ Assembling' /\ Forwarded'
<1>1. /\ stream' \in Streams /\ sent' = 0 /\ read' = 0 /\ buffer' = IdleBuffer /\ ~queued'
      /\ handled' = <<>> /\ forwarded' = {} /\ refused' = {} /\ forwarding' = 0
  BY PlacesDiffer DEF Lost, Reconnect, CloudIdle, ForwardingNow
<1>2. Len(stream') \in Nat
  <2>1. stream' \in Seq(Nat)
    BY <1>1, AssemblyAssumption
  <2> QED
    BY <2>1
<1>3. StreamOK'
  BY <1>1, <1>2 DEF StreamOK
<1>4. Assembling'
  <2>1. BytesOf(Len(handled))' = 0
    BY <1>1 DEF BytesOf
  <2>2. handled' \in Seq(Nat) /\ Len(handled') = 0 /\ handled' = [k \in 1..0 |-> k]
    BY <1>1
  <2> QED
    BY <1>1, <2>1, <2>2 DEF Assembling
<1>5. Forwarded'
  <2>1. ToSet(handled') = {}
    BY <1>1 DEF ToSet
  <2> QED
    BY <1>1, <2>1 DEF Forwarded
<1> QED
  BY <1>3, <1>4, <1>5

LEMMA InitDown == Init => DownInv
<1> SUFFICES ASSUME Init PROVE DownInv
  OBVIOUS
<1>1. /\ stream \in Streams /\ sent = 0 /\ read = 0 /\ buffer = IdleBuffer /\ ~queued
      /\ handled = <<>> /\ forwarded = {} /\ refused = {} /\ forwarding = 0
  BY DEF Init, CloudInit
<1>2. Len(stream) \in Nat
  <2>1. stream \in Seq(Nat)
    BY <1>1, AssemblyAssumption
  <2> QED
    BY <2>1
<1>3. StreamOK /\ ForwardingNow
  BY <1>1, <1>2 DEF StreamOK, ForwardingNow
<1>4. Assembling
  <2>1. BytesOf(Len(handled)) = 0
    BY <1>1 DEF BytesOf
  <2>2. handled \in Seq(Nat) /\ Len(handled) = 0 /\ handled = [k \in 1..0 |-> k]
    BY <1>1
  <2> QED
    BY <1>1, <2>1, <2>2 DEF Assembling
<1>5. Forwarded
  <2>1. ToSet(handled) = {}
    BY <1>1 DEF ToSet
  <2> QED
    BY <1>1, <2>1 DEF Forwarded
<1>6. UartTypeOK
  BY UartInitTyped DEF Init
<1> QED
  BY <1>3, <1>4, <1>5, <1>6 DEF DownInv

LEMMA NextDown == DownInv /\ [Next]_vars => DownInv'
<1> SUFFICES ASSUME DownInv, [Next]_vars PROVE DownInv'
  OBVIOUS
<1>0. /\ UartTypeOK /\ StreamOK /\ ForwardingNow /\ (Paced => Assembling /\ Forwarded)
      /\ UartStep /\ UartTypeOK' /\ Cloud \in Contexts /\ Flushers \subseteq Contexts
  BY UartStepTyped, NextIsUartStep, UartAssumption, DownlinkAssumption DEF DownInv
<1>1. CASE Send
  <2>1. StreamOK'
    <3>1. Len(stream) \in Nat
      <4>1. stream \in Seq(Nat)
        BY <1>0, AssemblyAssumption DEF StreamOK
      <4> QED
        BY <4>1
    <3> QED
      BY <1>0, <1>1, <3>1 DEF Send, CloudSend, StreamOK
  <2>2. ForwardingNow'
    BY <1>0, <1>1 DEF Send, ForwardingNow, uartVars, downVars
  <2>3. Paced' => Paced /\ Assembling'
    BY <1>0, <1>1, SendAssembles DEF Send
  <2>4. Forwarded => Forwarded'
    BY <1>0, <1>1, ForwardedKept DEF Send, CloudSend, downVars
  <2> QED
    BY <1>0, <2>1, <2>2, <2>3, <2>4 DEF DownInv
<1>2. CASE Recv
  <2>1. ForwardingNow'
    BY <1>0, <1>2 DEF Recv, ForwardingNow, uartVars, downVars
  <2>2. UNCHANGED <<stream, sent, hurried, handled>> /\ RecvDataFromCloud
    BY <1>2 DEF Recv, RecvDataFromCloud
  <2>3. Paced' => Paced
    BY <2>2 DEF Paced, TooLong, LengthOf, BytesOf
  <2>4. StreamOK'
    <3>1. read' \in Nat
      BY <1>0, <2>2, AssemblyAssumption DEF RecvDataFromCloud, StreamOK
    <3> QED
      BY <1>0, <2>2, <3>1 DEF StreamOK
  <2>5. Paced /\ Assembling => Assembling'
    BY <1>0, <2>2, RecvAssembles DEF Paced
  <2>6. Forwarded => Forwarded'
    BY <1>0, <1>2, <2>2, ForwardedKept DEF Recv, downVars
  <2> QED
    BY <1>0, <2>1, <2>3, <2>4, <2>5, <2>6 DEF DownInv
<1>3. CASE Handle
  <2>1. UNCHANGED <<stream, sent, read, hurried>>
    BY <1>3 DEF Handle, HandleEvent
  <2>2. StreamOK' /\ (Paced' => Paced)
    BY <1>0, <2>1 DEF StreamOK, Paced, TooLong, LengthOf, BytesOf
  <2>3. ForwardingNow'
    <3>1. CASE \E l \in FrameLens : CheckLen(Cloud, l)
      <4>1. pc'[Cloud] \in Appending
        BY <1>0, <3>1, PlaceTyped, PlacesDiffer DEF CheckLen
      <4> QED
        BY <4>1 DEF ForwardingNow
    <3>2. CASE UNCHANGED <<forwarding, uartVars>>
      BY <1>0, <3>2 DEF ForwardingNow, uartVars
    <3> QED
      BY <1>3, <3>1, <3>2 DEF Handle
  <2>4. Assembling /\ Forwarded => Assembling' /\ Forwarded'
    BY <1>0, <1>3, HandleForwards
  <2> QED
    BY <1>0, <2>2, <2>3, <2>4 DEF DownInv
<1>4. CASE Lost
  <2>1. StreamOK' /\ Assembling' /\ Forwarded'
    BY <1>0, <1>4, LostKeeps
  <2>2. ForwardingNow'
    BY <1>0, <1>4 DEF Lost, ForwardingNow, uartVars
  <2> QED
    BY <1>0, <2>1, <2>2 DEF DownInv
<1>5. ASSUME NEW c \in Contexts, AppendFrame(c) PROVE DownInv'
  <2>1. UNCHANGED cloudVars /\ Append_(c)
    BY <1>5 DEF AppendFrame
  <2>2. /\ StreamOK' /\ (Assembling => Assembling') /\ (Paced' <=> Paced)
    BY <1>0, <2>1, AssemblyKept
  <2>3. ForwardingNow'
    <3>1. CASE c = Cloud
      <4>1. pc'[c] \in Appending \cup {"idle"}
        BY <1>0, <2>1, AppendGoesOn
      <4>2. forwarding' # 0 => pc'[c] # "idle"
        BY <1>0, <1>5, <3>1 DEF AppendFrame
      <4> QED
        BY <3>1, <4>1, <4>2 DEF ForwardingNow
    <3>2. CASE c # Cloud
      <4>1. pc'[Cloud] = pc[Cloud] /\ forwarding' = forwarding
        BY <1>0, <1>5, <2>1, <3>2, AppendGoesOn DEF AppendFrame
      <4> QED
        BY <1>0, <4>1 DEF ForwardingNow
    <3> QED
      BY <3>1, <3>2
  <2>4. Assembling /\ Forwarded => Forwarded'
    BY <1>0, <1>5, AppendForwards
  <2> QED
    BY <1>0, <2>2, <2>3, <2>4 DEF DownInv
<1>6. ASSUME NEW c \in Contexts, Notify(c) \/ (c \in Flushers /\ FlushBuffer(c)) PROVE DownInv'
  <2>1. UNCHANGED cloudVars /\ UNCHANGED <<forwarded, forwarding, refused>>
    BY <1>6 DEF Notify, FlushBuffer, downVars
  <2>2. /\ StreamOK' /\ (Assembling => Assembling') /\ (Paced' <=> Paced)
    BY <1>0, <2>1, AssemblyKept
  <2>3. ForwardingNow'
    <3>1. CASE Notify(c)
      <4>1. PICK l \in FrameLens : CheckLen(c, l)
        BY <3>1 DEF Notify
      <4>2. pc'[c] \in Appending /\ \A d \in Contexts : d # c => pc'[d] = pc[d]
        BY <1>0, <4>1, PlaceTyped, PlacesDiffer DEF CheckLen
      <4> QED
        BY <1>0, <2>1, <4>2 DEF ForwardingNow
    <3>2. CASE Flush(c)
      <4>1. pc[c] \notin Appending /\ \A d \in Contexts : d # c => pc'[d] = pc[d]
        BY <1>0, <3>2, PlacesDiffer
           DEF Flush, SendUartData, Test, Count, Write, Reset, GoTo, UartTypeOK
      <4> QED
        BY <1>0, <2>1, <4>1 DEF ForwardingNow
    <3> QED
      BY <1>6, <3>1, <3>2 DEF FlushBuffer
  <2>4. Forwarded => Forwarded'
    BY <1>0, <2>1, ForwardedKept DEF cloudVars
  <2> QED
    BY <1>0, <2>2, <2>3, <2>4 DEF DownInv
<1>7. CASE UNCHANGED vars
  <2>1. UNCHANGED <<cloudVars, uartVars, downVars>>
    BY <1>7 DEF vars
  <2>2. /\ StreamOK' /\ (Assembling => Assembling') /\ (Paced' <=> Paced)
    BY <1>0, <2>1, AssemblyKept
  <2>3. ForwardingNow'
    BY <1>0, <2>1 DEF ForwardingNow, uartVars, downVars
  <2>4. Forwarded => Forwarded'
    BY <1>0, <2>1, ForwardedKept DEF cloudVars, downVars
  <2> QED
    BY <1>0, <2>2, <2>3, <2>4 DEF DownInv
<1> QED
  BY <1>0, <1>1, <1>2, <1>3, <1>4, <1>5, <1>6, <1>7 DEF Next, Step

(* A paced cloud loses no message but those refused: the buffer starts at a *)
(* message and is never left full, every message is handled in its turn,    *)
(* and the frames for the MCU carry them once and in order.                 *)
THEOREM PacedMessagesInOrder == Spec => []PacedInOrder
<1>1. DownInv => PacedInOrder
  <2> SUFFICES ASSUME DownInv, Paced PROVE PacedInOrder
    BY DEF PacedInOrder
  <2>1. Assembling /\ Forwarded
    BY DEF DownInv
  <2>2. buffer.status # "IDLE" => buffer.from = BytesOf(Len(handled))
    BY <2>1 DEF Assembling, HoldsNext, IdleBuffer
  <2>3. buffer.status = "FULL" => queued
    BY <2>1 DEF Assembling, HoldsNext, IdleBuffer
  <2> QED
    BY <2>1, <2>2, <2>3 DEF PacedInOrder, Assembling, Forwarded
<1> QED
  BY <1>1, InitDown, NextDown, PTL DEF Spec
=============================================================================
