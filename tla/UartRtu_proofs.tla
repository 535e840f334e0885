--------------------------- MODULE UartRtu_proofs ----------------------------
(***************************************************************************)
(* What holds of the receiver for every ring, frame length, amount of      *)
(* noise and stall, and every clock: its types, that it is a channel which *)
(* loses frames but neither repeats nor reorders nor makes up any, and     *)
(* that it loses no frame which was left alone.                            *)
(***************************************************************************)
EXTENDS UartRtu, TLAPS

-----------------------------------------------------------------------------
\* Types, and what goes with them: the line has begun a frame if a byte is out, the
\* ring holds bytes that came over the line, and the main loop works on the oldest.

\* A frame that is complete has been taken before anyone else looks.
Stream ==
  [current : Seq(Byte), stamp : Clock, completed : Seq(Byte), ready : BOOLEAN]

Frames == {s \in Stream : s.completed = <<>> /\ ~ s.ready}

LineType ==
  /\ sent \in Seq(Content) /\ Len(sent) <= MaxFrames
  /\ next \in 0 .. MaxAdu /\ silence \in 0 .. FrameGap /\ noise \in 0 .. MaxNoise
  /\ next > 0 <=> Len(sent) > 0

NodeType ==
  /\ now \in Clock /\ away \in 0 .. MaxBusy
  /\ overrun \in BOOLEAN /\ armed \in BOOLEAN /\ stalled \in BOOLEAN
  /\ data \in Byte \cup {NoByte}
  /\ spoiled \in SUBSET (0 .. MaxFrames + 1)

RingType ==
  /\ ring \in [Slot -> Item] /\ head \in Slot /\ tail \in Slot
  /\ \A i \in UnreadSlot : ring[i].byte \in Byte

MainType ==
  /\ pc \in {"pop", "popped", "poll", "handle"} /\ item \in Item
  /\ pc = "popped" => tail # head /\ item = ring[tail]
  /\ stream \in Frames
  /\ handed \in Seq(1 .. MaxFrames)

TypeInv == LineType /\ NodeType /\ RingType /\ MainType

-----------------------------------------------------------------------------
\* The order of the bytes.

\* a was sent before b; a damaged byte is known by its frame only.
Before(a, b) ==
  \/ a.frame < b.frame
  \/ /\ a.frame = b.frame
     /\ a.index = 0 \/ b.index = 0 \/ a.index < b.index

\* b is out, when s are the frames sent and n bytes of the last.
Out(s, n, b) ==
  /\ b.frame <= Len(s)
  /\ b.index = 0 \/ b.frame < Len(s) \/ b.index <= n

\* b was sent after the frames h, of those sent.
Later(h, s, b) ==
  \A k \in DOMAIN h :
    \/ b.index = 0 \/ h[k] < b.frame
    \/ h[k] = b.frame /\ Length[s[h[k]]] < b.index

\* The ring, and the data register behind it, hold bytes in the order in which they
\* were sent.
RingOrder ==
  /\ \A i \in UnreadSlot : Out(sent, next, ring[i].byte)
  /\ \A i, j \in UnreadSlot : Pos(i) < Pos(j) => Before(ring[i].byte, ring[j].byte)
  /\ data # NoByte =>
       Out(sent, next, data) /\ \A i \in UnreadSlot : Before(ring[i].byte, data)

\* So does the stream, before them.
StreamOrder ==
  stream.current # <<>> =>
    /\ Out(sent, next, LastByte)
    /\ \A i \in UnreadSlot : Before(LastByte, ring[i].byte)
    /\ data # NoByte => Before(LastByte, data)

\* What was handed over was sent to its end, and before everything that is left.
HandedOrder ==
  /\ \A k \in DOMAIN handed :
       /\ handed[k] <= Len(sent)
       /\ handed[k] = Len(sent) => Length[sent[handed[k]]] <= next
  /\ stream.current # <<>> => Later(handed, sent, LastByte)
  /\ \A i \in UnreadSlot : Later(handed, sent, ring[i].byte)
  /\ data # NoByte => Later(handed, sent, data)

OrderInv == RingOrder /\ StreamOrder /\ HandedOrder

-----------------------------------------------------------------------------
\* The ring and the stream.

\* The constants as numbers.
LEMMA Numbers ==
  /\ RingCapacity \in Nat /\ RingCapacity >= 2 /\ Slot = 0 .. (RingCapacity - 1)
  /\ MaxAdu \in Nat \ {0} /\ MaxBusy \in Nat \ {0} /\ MaxFrames \in Nat
  /\ MaxNoise \in Nat /\ FrameGap \in Nat \ {0} /\ InterChar \in Nat \ {0}
  /\ InterChar < FrameGap
  /\ Wrap \in Nat /\ Wrap > 1 /\ 0 \in Clock
  BY UartAssumption, StreamAssumption DEF Slot, Clock

\* The length of a frame.
LEMMA LengthTypes ==
  \A c \in Content : Length[c] \in 1 .. MaxAdu /\ Length[c] \in Nat \ {0}
  BY UartAssumption, Numbers

\* The next slot, without the modulus.
LEMMA NextIndexIs ==
  ASSUME NEW i \in Slot
  PROVE  /\ NextIndex(i) \in Slot
         /\ NextIndex(i) = IF i + 1 = RingCapacity THEN 0 ELSE i + 1
<1>1. CASE i + 1 = RingCapacity
  BY <1>1, Numbers DEF NextIndex
<1>2. CASE i + 1 # RingCapacity
  BY <1>2, Numbers DEF NextIndex
<1> QED
  BY <1>1, <1>2

\* A slot's place in the ring is that of one slot only.
LEMMA BehindTypes ==
  ASSUME NEW t \in Slot
  PROVE  /\ \A i \in Slot : Behind(t, i) \in 0 .. (RingCapacity - 1) /\ Behind(t, i) \in Nat
         /\ \A i, j \in Slot : Behind(t, i) = Behind(t, j) => i = j
         /\ Behind(t, t) = 0
         /\ \A i \in Slot : i # t => Behind(t, i) > 0
         /\ \A i \in Slot :
              NextIndex(i) # t => Behind(t, NextIndex(i)) = Behind(t, i) + 1
         /\ \A i \in Slot :
              Behind(NextIndex(t), i) =
                IF i = t THEN RingCapacity - 1 ELSE Behind(t, i) - 1
<1>1. \A i \in Slot : Behind(t, i) \in 0 .. (RingCapacity - 1) /\ Behind(t, i) \in Nat
  BY Numbers DEF Behind
<1>2. \A i, j \in Slot : Behind(t, i) = Behind(t, j) => i = j
  BY Numbers DEF Behind
<1>3. Behind(t, t) = 0 /\ \A i \in Slot : i # t => Behind(t, i) > 0
  BY Numbers DEF Behind
<1>4. ASSUME NEW i \in Slot, NextIndex(i) # t
      PROVE  Behind(t, NextIndex(i)) = Behind(t, i) + 1
  <2>1. i \in Int /\ t \in Int /\ i >= 0 /\ t >= 0 /\ i < RingCapacity /\ t < RingCapacity
          /\ RingCapacity \in Int
    BY <1>4, Numbers
  <2>2. CASE i + 1 = RingCapacity
    <3>1. NextIndex(i) = 0
      BY <2>2, NextIndexIs
    <3> QED
      BY <1>4, <2>1, <2>2, <3>1 DEF Behind
  <2>3. CASE i + 1 # RingCapacity
    <3>1. NextIndex(i) = i + 1
      BY <2>3, NextIndexIs
    <3> QED
      BY <1>4, <2>1, <2>3, <3>1 DEF Behind
  <2> QED
    BY <2>2, <2>3
<1>5. ASSUME NEW i \in Slot
      PROVE  Behind(NextIndex(t), i) =
               IF i = t THEN RingCapacity - 1 ELSE Behind(t, i) - 1
  <2>1. i \in Int /\ t \in Int /\ i >= 0 /\ t >= 0 /\ i < RingCapacity /\ t < RingCapacity
          /\ RingCapacity \in Int
    BY Numbers
  <2>2. CASE t + 1 = RingCapacity
    <3>1. NextIndex(t) = 0
      BY <2>2, NextIndexIs
    <3> QED
      BY <2>1, <2>2, <3>1 DEF Behind
  <2>3. CASE t + 1 # RingCapacity
    <3>1. NextIndex(t) = t + 1
      BY <2>3, NextIndexIs
    <3> QED
      BY <2>1, <2>3, <3>1 DEF Behind
  <2> QED
    BY <2>2, <2>3
<1> QED
  BY <1>1, <1>2, <1>3, <1>4, <1>5

\* One more byte goes behind all the others, if there is room for it.
LEMMA StoreSlots ==
  ASSUME head \in Slot, tail \in Slot, ~ RingFull, head' = NextIndex(head), tail' = tail
  PROVE  /\ UnreadSlot' = UnreadSlot \cup {head} /\ head \notin UnreadSlot
         /\ \A i \in UnreadSlot : Pos(i) < Pos(head)
         /\ \A i \in Slot : Behind(tail', i) = Behind(tail, i)
<1>1. NextIndex(head) # tail
  BY DEF RingFull
<1>2. UnreadSlot' = {i \in Slot : Behind(tail, i) < Behind(tail, NextIndex(head))}
  BY DEF UnreadSlot, Pos
<1>3. UnreadSlot' = {i \in Slot : Behind(tail, i) < Behind(tail, head) + 1}
  BY <1>1, <1>2, BehindTypes
<1>4. \A i \in Slot :
        Behind(tail, i) < Behind(tail, head) + 1
          <=> Behind(tail, i) < Behind(tail, head) \/ i = head
  <2> SUFFICES ASSUME NEW i \in Slot
               PROVE  Behind(tail, i) < Behind(tail, head) + 1
                        <=> Behind(tail, i) < Behind(tail, head) \/ i = head
    OBVIOUS
  <2>1. Behind(tail, i) \in Nat /\ Behind(tail, head) \in Nat
    BY BehindTypes
  <2>2. Behind(tail, i) = Behind(tail, head) => i = head
    BY BehindTypes
  <2> QED
    BY <2>1, <2>2
<1>5. UnreadSlot = {i \in Slot : Behind(tail, i) < Behind(tail, head)}
  BY DEF UnreadSlot, Pos
<1>6. UnreadSlot' = UnreadSlot \cup {head} /\ head \notin UnreadSlot
  <2>1. Behind(tail, head) \in Nat
    BY BehindTypes, Numbers
  <2>2. ~ (Behind(tail, head) < Behind(tail, head))
    BY <2>1
  <2>3. UnreadSlot' = {i \in Slot : Behind(tail, i) < Behind(tail, head) \/ i = head}
    BY <1>3, <1>4
  <2> QED
    BY <1>5, <2>2, <2>3
<1> QED
  BY <1>5, <1>6 DEF Pos

\* The oldest byte leaves; the others come one place nearer.
LEMMA PopSlots ==
  ASSUME head \in Slot, tail \in Slot, tail # head, tail' = NextIndex(tail), head' = head
  PROVE  /\ UnreadSlot' = UnreadSlot \ {tail} /\ tail \in UnreadSlot
         /\ \A i \in UnreadSlot \ {tail} :
              Pos(tail) < Pos(i) /\ Behind(tail', i) = Behind(tail, i) - 1
<1>1. UnreadSlot = {i \in Slot : Behind(tail, i) < Behind(tail, head)}
  BY DEF UnreadSlot, Pos
<1>2. UnreadSlot' =
        {i \in Slot : Behind(NextIndex(tail), i) < Behind(NextIndex(tail), head)}
  BY DEF UnreadSlot, Pos
<1>3. Behind(NextIndex(tail), head) = Behind(tail, head) - 1
  BY BehindTypes
<1>4. \A i \in Slot :
        Behind(NextIndex(tail), i) < Behind(NextIndex(tail), head)
          <=> Behind(tail, i) < Behind(tail, head) /\ i # tail
  <2> SUFFICES ASSUME NEW i \in Slot
               PROVE  Behind(NextIndex(tail), i) < Behind(NextIndex(tail), head)
                        <=> Behind(tail, i) < Behind(tail, head) /\ i # tail
    OBVIOUS
  <2>1. /\ Behind(tail, i) \in Nat /\ Behind(tail, head) \in 0 .. (RingCapacity - 1)
        /\ RingCapacity \in Nat
        /\ Behind(NextIndex(tail), i) =
             IF i = tail THEN RingCapacity - 1 ELSE Behind(tail, i) - 1
    BY BehindTypes, Numbers
  <2> QED
    BY <1>3, <2>1
<1>5. UnreadSlot' = UnreadSlot \ {tail}
  BY <1>1, <1>2, <1>4
<1>6. tail \in UnreadSlot
  BY <1>1, BehindTypes
<1>7. \A i \in Slot : i # tail => Behind(tail, tail) < Behind(tail, i)
                            /\ Behind(tail', i) = Behind(tail, i) - 1
  BY BehindTypes
<1> QED
  BY <1>1, <1>5, <1>6, <1>7 DEF Pos

\* The stream without the frame that was taken.
LEMMA TakeTypes ==
  ASSUME NEW s \in Stream
  PROVE  Take(s) \in Frames /\ Take(s).current = s.current /\ Take(s).stamp = s.stamp
<1>1. <<>> \in Seq(Byte)
  OBVIOUS
<1>2. /\ Take(s) \in Stream /\ Take(s).completed = <<>> /\ Take(s).ready = FALSE
      /\ Take(s).current = s.current /\ Take(s).stamp = s.stamp
  BY <1>1 DEF Take, Stream
<1> QED
  BY <1>2 DEF Frames

\* Silence that ends a frame completes it, and only that.  Whatever else happens to
\* a byte, it is the last of what is received, or dropped with all of it.
LEMMA FeedGives ==
  ASSUME NEW s \in Frames, NEW b \in Byte, NEW at \in Clock
  PROVE  \/ /\ Feed(s, b, at).status = "FRAME_READY"
            /\ s.current # <<>> /\ Feed(s, b, at).stream.completed = s.current
            /\ Take(Feed(s, b, at).stream) \in Frames
            /\ Take(Feed(s, b, at).stream).current = <<b>>
         \/ /\ Feed(s, b, at).status \notin {"FRAME_READY", "BUSY", "OVERFLOW"}
            /\ Feed(s, b, at).stream \in Frames
            /\ Feed(s, b, at).stream.current \in {<<b>>, Append(s.current, b)}
         \/ Feed(s, b, at).status = "OVERFLOW"
<1> DEFINE started == StartFrame(s, b, at)
           done == StartFrame(Complete(s), b, at)
           longer == [s EXCEPT !.current = Append(@, b), !.stamp = at]
<1>0. s \in Stream /\ s.completed = <<>> /\ ~ s.ready /\ <<b>> \in Seq(Byte)
        /\ <<>> \in Seq(Byte) /\ Append(s.current, b) \in Seq(Byte)
  <2>1. s \in Stream /\ s.completed = <<>> /\ ~ s.ready
    BY DEF Frames
  <2>2. s.current \in Seq(Byte)
    BY <2>1 DEF Stream
  <2> QED
    BY <2>1, <2>2
<1>1. \A bytes \in Seq(Byte) :
        LET d == [s EXCEPT !.current = bytes, !.stamp = at]
        IN d \in Stream /\ d.completed = <<>> /\ ~ d.ready /\ d.current = bytes
  BY <1>0 DEF Stream
<1>2. started \in Frames /\ started.current = <<b>>
  BY <1>0, <1>1 DEF Frames, StartFrame
<1>3. longer \in Frames /\ longer.current = Append(s.current, b)
  BY <1>0, <1>1 DEF Frames
<1>4. done.completed = s.current /\ Take(done) \in Frames /\ Take(done).current = <<b>>
  <2>1. done \in Stream /\ done.current = <<b>> /\ done.completed = s.current
    <3>1. Complete(s) \in Stream /\ Complete(s).completed = s.current
      BY <1>0, Numbers DEF Complete, Stream
    <3> QED
      BY <1>0, <3>1 DEF StartFrame, Stream
  <2> HIDE DEF done
  <2> QED
    BY <2>1, TakeTypes
<1>5. \/ Feed(s, b, at) = Result(started, "NO_FRAME")
      \/ s.current # <<>> /\ Feed(s, b, at) = Result(done, "FRAME_READY")
      \/ Feed(s, b, at) = Result(started, "INTERCHAR_TIMEOUT")
      \/ Feed(s, b, at) = Result([s EXCEPT !.current = <<>>], "OVERFLOW")
      \/ Feed(s, b, at) = Result(longer, "NO_FRAME")
  <2> HIDE DEF started, done, longer
  <2> QED
    BY <1>0, Zenon DEF Feed, started, done, longer
<1>6. \A x, st : Result(x, st).stream = x /\ Result(x, st).status = st
  BY DEF Result
<1> HIDE DEF started, done, longer
<1>7. CASE s.current # <<>> /\ Feed(s, b, at) = Result(done, "FRAME_READY")
  BY <1>4, <1>6, <1>7
<1>8. CASE Feed(s, b, at) = Result([s EXCEPT !.current = <<>>], "OVERFLOW")
  BY <1>6, <1>8
<1>9. CASE \/ Feed(s, b, at) = Result(started, "NO_FRAME")
           \/ Feed(s, b, at) = Result(started, "INTERCHAR_TIMEOUT")
  <2>1. Feed(s, b, at).stream = started
          /\ Feed(s, b, at).status \in {"NO_FRAME", "INTERCHAR_TIMEOUT"}
    BY <1>6, <1>9
  <2> QED
    BY <1>2, <2>1
<1>10. CASE Feed(s, b, at) = Result(longer, "NO_FRAME")
  BY <1>3, <1>6, <1>10
<1> QED
  BY <1>5, <1>7, <1>8, <1>9, <1>10

\* Looking at the clock changes nothing else.
LEMMA PollGives ==
  ASSUME NEW s \in Frames, NEW at \in Clock
  PROVE  \/ /\ Poll(s, at).status = "FRAME_READY"
            /\ s.current # <<>> /\ Poll(s, at).stream.completed = s.current
            /\ Take(Poll(s, at).stream) \in Frames
            /\ Take(Poll(s, at).stream).current = <<>>
         \/ Poll(s, at).status = "NO_FRAME"
<1>1. /\ Complete(s).completed = s.current /\ Take(Complete(s)) \in Frames
      /\ Take(Complete(s)).current = <<>>
  <2>1. Complete(s) \in Stream /\ Complete(s).completed = s.current
          /\ Complete(s).current = <<>>
    BY Numbers DEF Complete, Stream, Frames
  <2> QED
    BY <2>1, TakeTypes
<1>2. ~ s.ready
  BY DEF Frames
<1>3. \/ s.current # <<>> /\ Poll(s, at) = Result(Complete(s), "FRAME_READY")
      \/ Poll(s, at) = Result(s, "NO_FRAME")
  BY <1>2, Zenon DEF Poll
<1> QED
  BY <1>1, <1>3 DEF Result

-----------------------------------------------------------------------------
\* The types are kept.

\* What is handed over was sent whole, and the byte received last is its last.
LEMMA HandOverGives ==
  ASSUME MainType, LineType, stream.current # <<>>,
         NEW s, s.completed = stream.current, HandOver(s)
  PROVE  /\ stream' = Take(s) /\ pc' = "handle"
         /\ LastByte \in Byte
         /\ \/ handed' = handed
            \/ /\ handed' = Append(handed, LastByte.frame)
               /\ sent[LastByte.frame] \in Content
               /\ LastByte.index = Length[sent[LastByte.frame]]
<1>1. stream.current \in Seq(Byte) /\ Len(stream.current) \in DOMAIN stream.current
  BY DEF MainType, Frames, Stream
<1>2. LastByte \in Byte
  BY <1>1 DEF LastByte
<1>3. ASSUME Whole(stream.current)
      PROVE  sent[LastByte.frame] \in Content
               /\ LastByte.index = Length[sent[LastByte.frame]]
  BY <1>1, <1>3 DEF Whole, LastByte
<1> QED
  BY <1>2, <1>3 DEF HandOver, LastByte

\* The list of what was handed over grows by frames.
LEMMA HandedTypes ==
  ASSUME handed \in Seq(1 .. MaxFrames),
         \/ handed' = handed
         \/ LastByte \in Byte /\ handed' = Append(handed, LastByte.frame)
  PROVE  handed' \in Seq(1 .. MaxFrames)
<1>1. CASE LastByte \in Byte /\ handed' = Append(handed, LastByte.frame)
  <2>1. PICK f \in 1 .. MaxFrames : f = LastByte.frame
    BY <1>1 DEF Byte
  <2>2. handed' = Append(handed, f)
    BY <1>1, <2>1
  <2> QED
    BY <2>2
<1> QED
  BY <1>1

\* The line goes on by itself.
LEMMA SendTypes ==
  ASSUME TypeInv, SendByte
  PROVE  TypeInv'
<1>1. /\ LineType /\ NodeType
      /\ sent \in Seq(Content) /\ Len(sent) \in Nat /\ Len(sent) <= MaxFrames
      /\ next \in 0 .. MaxAdu /\ (next > 0 <=> Len(sent) > 0)
  BY DEF TypeInv, LineType, NodeType
<1>2. /\ sent' \in Seq(Content) /\ Len(sent') <= MaxFrames /\ Len(sent') \in Nat \ {0}
      /\ next' \in 1 .. MaxAdu
  <2>1. CASE MidFrame /\ next' = next + 1 /\ sent' = sent
    <3>1. Len(sent) > 0 /\ sent[Len(sent)] \in Content
      BY <1>1, <2>1 DEF MidFrame
    <3>2. next < Length[sent[Len(sent)]] /\ Length[sent[Len(sent)]] \in 1 .. MaxAdu
      BY <2>1, <3>1, LengthTypes DEF MidFrame
    <3> QED
      BY <1>1, <2>1, <3>1, <3>2, Numbers
  <2>2. CASE /\ next' = 1 /\ Len(sent) < MaxFrames
             /\ \E c \in Content : sent' = Append(sent, c)
    BY <1>1, <2>2, Numbers
  <2> QED
    BY <2>1, <2>2 DEF SendByte
<1>3. /\ noise' \in 0 .. MaxNoise
      /\ \E b \in Byte : Receive(b)
  <2>1. \A k \in 0 .. MaxAdu : [frame |-> Len(sent'), index |-> k] \in Byte
    BY <1>2, Numbers DEF Byte
  <2>2. noise \in 0 .. MaxNoise /\ 0 \in 0 .. MaxAdu /\ next' \in 0 .. MaxAdu
    BY <1>1, <1>2, Numbers DEF LineType
  <2>3. CASE Receive([frame |-> Len(sent'), index |-> next']) /\ UNCHANGED noise
    BY <2>1, <2>2, <2>3
  <2>4. CASE /\ noise < MaxNoise /\ noise' = noise + 1
             /\ Receive([frame |-> Len(sent'), index |-> 0])
    BY <2>1, <2>2, <2>4, Numbers
  <2> QED
    BY <2>3, <2>4 DEF SendByte
<1>4. PICK b \in Byte : Receive(b)
  BY <1>3
<1>5. LineType'
  BY <1>2, <1>3, <1>4, Numbers DEF LineType, Receive
<1>6. NodeType'
  <2>1. b.frame \in 0 .. MaxFrames + 1
    BY Numbers DEF Byte
  <2>2. UNCHANGED <<now, away, armed, stalled>>
    BY <1>4 DEF Receive
  <2>3. data' \in Byte \cup {NoByte} /\ overrun' \in BOOLEAN
    BY <1>1, <1>4 DEF NodeType, Receive
  <2>4. spoiled' \in SUBSET (0 .. MaxFrames + 1)
    BY <1>1, <1>4, <2>1 DEF NodeType, Receive
  <2> QED
    BY <1>1, <2>2, <2>3, <2>4 DEF NodeType
<1>7. RingType' /\ MainType'
  <2>1. UNCHANGED <<ring, head, tail, pc, item, stream, handed>>
    BY <1>4 DEF Receive, buffer, main
  <2> QED
    BY <2>1 DEF TypeInv, RingType, UnreadSlot, Pos, MainType
<1> QED
  BY <1>5, <1>6, <1>7 DEF TypeInv

\* What carries a time stamp is a byte of the line.
LEMMA StampedTypes ==
  ASSUME TypeInv
  PROVE  \A x \in Stamped :
           /\ x.byte \in Byte /\ x.stamp \in Clock
           /\ x.byte.frame \in 1 .. MaxFrames /\ x.byte.index \in Nat
<1>1. ASSUME NEW x \in Stamped
      PROVE  x.byte \in Byte /\ x.stamp \in Clock
  <2>1. CASE x \in {ring[i] : i \in UnreadSlot}
    <3>1. PICK i \in UnreadSlot : x = ring[i]
      BY <2>1
    <3>2. ring[i] \in Item /\ ring[i].byte \in Byte
      BY DEF TypeInv, RingType, UnreadSlot
    <3> QED
      BY <3>1, <3>2 DEF Item
  <2>2. CASE stream.current # <<>> /\ x = [byte |-> LastByte, stamp |-> stream.stamp]
    <3>1. stream.current \in Seq(Byte) /\ stream.stamp \in Clock
      BY DEF TypeInv, MainType, Frames, Stream
    <3>2. LastByte \in Byte
      BY <2>2, <3>1 DEF LastByte
    <3> QED
      BY <2>2, <3>1, <3>2
  <2> QED
    BY <1>1, <2>1, <2>2 DEF Stamped
<1> QED
  BY <1>1, Numbers DEF Byte

\* Time passes.
LEMMA TickTypes ==
  ASSUME TypeInv, Tick
  PROVE  TypeInv'
<1>1. UNCHANGED <<sent, next, noise, data, overrun, armed, stalled, ring, head, tail,
                  pc, item, stream, handed>>
  BY DEF Tick, usart, buffer, main
<1>2. now' \in Clock /\ away' \in 0 .. MaxBusy /\ silence' \in 0 .. FrameGap
  BY Numbers DEF Tick, Clock, TypeInv, NodeType, LineType
<1>3. spoiled' \in SUBSET (0 .. MaxFrames + 1)
  <2>1. /\ data.frame \in 0 .. MaxFrames + 1 /\ Len(sent) \in 0 .. MaxFrames + 1
        /\ Len(sent) + 1 \in 0 .. MaxFrames + 1
    BY Numbers DEF TypeInv, NodeType, LineType, Byte, NoByte
  <2>2. Mistimed(now') \subseteq 0 .. MaxFrames + 1
    <3>1. \A x \in Stamped : x.byte.frame \in 0 .. MaxFrames + 1
      BY StampedTypes, Numbers
    <3> QED
      BY <2>1, <3>1 DEF Mistimed
  <2>3. spoiled \in SUBSET (0 .. MaxFrames + 1)
    BY DEF TypeInv, NodeType
  <2> QED
    BY <2>1, <2>2, <2>3 DEF Tick
<1> QED
  BY <1>1, <1>2, <1>3
  DEF TypeInv, LineType, NodeType, RingType, UnreadSlot, Pos, MainType

\* The interrupt stores a byte, or drops it.
LEMMA InterruptTypes ==
  ASSUME TypeInv, Interrupt
  PROVE  TypeInv'
<1>1. /\ data \in Byte /\ data' = NoByte
      /\ UNCHANGED <<now, away, sent, next, silence, noise, stalled, pc, item, stream,
                     handed, tail>>
      /\ overrun' = FALSE /\ armed' = TRUE
  BY DEF Interrupt, Pending, TypeInv, NodeType, Rearm, line, main, Store, buffer
<1>2. head \in Slot /\ tail \in Slot /\ ring \in [Slot -> Item] /\ now \in Clock
        /\ \A i \in UnreadSlot : ring[i].byte \in Byte
  BY DEF TypeInv, RingType, NodeType
<1>3. LineType'
  BY <1>1 DEF TypeInv, LineType
<1>4. CASE RingFull
  <2>1. spoiled' = spoiled \cup {data.frame} /\ UNCHANGED <<ring, head>>
    BY <1>4 DEF Interrupt, Store, buffer
  <2>2. data.frame \in 0 .. MaxFrames + 1
    BY <1>1, Numbers DEF Byte
  <2>3. NodeType'
    BY <1>1, <2>1, <2>2 DEF TypeInv, NodeType
  <2>4. RingType' /\ MainType'
    BY <1>1, <2>1 DEF TypeInv, RingType, MainType, UnreadSlot, Pos
  <2> QED
    BY <1>3, <2>3, <2>4 DEF TypeInv
<1>5. CASE ~ RingFull
  <2>1. /\ ring' = [ring EXCEPT ![head] = [byte |-> data, stamp |-> now]]
        /\ head' = NextIndex(head) /\ spoiled' = spoiled
    BY <1>5 DEF Interrupt, Store
  <2>2. head' \in Slot /\ head' # tail
    BY <1>2, <1>5, <2>1, NextIndexIs DEF RingFull
  <2>3. [byte |-> data, stamp |-> now] \in Item
    BY <1>1, <1>2 DEF Item
  <2>4. ring' \in [Slot -> Item] /\ ring'[head] = [byte |-> data, stamp |-> now]
          /\ \A i \in Slot : i # head => ring'[i] = ring[i]
    BY <1>2, <2>1, <2>3
  <2>5. \A i \in UnreadSlot' : ring'[i].byte \in Byte
    <3>1. UnreadSlot' = UnreadSlot \cup {head} /\ UnreadSlot \subseteq Slot
      BY <1>1, <1>2, <1>5, <2>1, StoreSlots DEF UnreadSlot
    <3> QED
      BY <1>1, <1>2, <2>4, <3>1
  <2>6. RingType'
    BY <1>1, <1>2, <2>2, <2>4, <2>5 DEF RingType
  <2>7. NodeType'
    BY <1>1, <2>1 DEF TypeInv, NodeType
  <2>8. MainType'
    <3>1. pc = "popped" => tail # head /\ item = ring[tail]
      BY DEF TypeInv, MainType
    <3>2. pc' = "popped" => tail' # head' /\ item' = ring'[tail']
      BY <1>1, <1>2, <2>2, <2>4, <3>1
    <3> QED
      BY <1>1, <3>2 DEF TypeInv, MainType
  <2> QED
    BY <1>3, <2>6, <2>7, <2>8 DEF TypeInv
<1> QED
  BY <1>4, <1>5

\* The main loop takes the oldest byte out of the ring.
LEMMA PopTypes ==
  ASSUME TypeInv, PopEnd
  PROVE  /\ TypeInv'
         /\ item = ring[tail] /\ item.byte \in Byte
         /\ \/ stream'.current = <<>>
            \/ stream'.current = <<item.byte>>
            \/ stream'.current = Append(stream.current, item.byte)
         /\ \/ handed' = handed
            \/ /\ stream.current # <<>> /\ LastByte \in Byte
               /\ handed' = Append(handed, LastByte.frame)
               /\ sent[LastByte.frame] \in Content
               /\ LastByte.index = Length[sent[LastByte.frame]]
               /\ stream'.current = <<item.byte>>
<1> DEFINE fed == Feed(stream, item.byte, item.stamp)
<1>1. /\ pc = "popped" /\ tail # head /\ item = ring[tail]
      /\ tail' = NextIndex(tail) /\ ring' = [ring EXCEPT ![tail] = NoItem]
      /\ item' = NoItem
      /\ UNCHANGED <<now, away, sent, next, silence, noise, data, overrun, armed,
                     stalled, head, spoiled>>
  BY DEF PopEnd, TypeInv, MainType, line, usart
<1>2. /\ head \in Slot /\ tail \in Slot /\ ring \in [Slot -> Item]
      /\ \A i \in UnreadSlot : ring[i].byte \in Byte
      /\ stream \in Frames /\ handed \in Seq(1 .. MaxFrames)
      /\ LineType /\ NodeType /\ MainType
  BY DEF TypeInv, RingType, MainType
<1>3. /\ UnreadSlot' = UnreadSlot \ {tail} /\ tail \in UnreadSlot
      /\ UnreadSlot \subseteq Slot
  BY <1>1, <1>2, PopSlots DEF UnreadSlot
<1>4. item.byte \in Byte /\ item.stamp \in Clock
  BY <1>1, <1>2, <1>3 DEF Item
<1>5. NoItem \in Item
  BY Numbers DEF NoItem, Item
<1>6. RingType'
  <2>1. ring' \in [Slot -> Item] /\ \A i \in Slot : i # tail => ring'[i] = ring[i]
    BY <1>1, <1>2, <1>5
  <2>2. \A i \in UnreadSlot' : ring'[i].byte \in Byte
    BY <1>2, <1>3, <2>1
  <2> QED
    BY <1>1, <1>2, <2>1, <2>2, NextIndexIs DEF RingType
<1>7. LineType' /\ NodeType'
  BY <1>1, <1>2 DEF LineType, NodeType
<1>8. /\ stream' \in Frames /\ pc' \in {"pop", "poll", "handle"}
      /\ \/ stream'.current = <<>>
         \/ stream'.current = <<item.byte>>
         \/ stream'.current = Append(stream.current, item.byte)
      /\ \/ handed' = handed
         \/ /\ stream.current # <<>> /\ LastByte \in Byte
            /\ handed' = Append(handed, LastByte.frame)
            /\ sent[LastByte.frame] \in Content
            /\ LastByte.index = Length[sent[LastByte.frame]]
            /\ stream'.current = <<item.byte>>
  <2>1. CASE fed.status = "FRAME_READY"
    <3>1. /\ stream.current # <<>> /\ fed.stream.completed = stream.current
          /\ Take(fed.stream) \in Frames /\ Take(fed.stream).current = <<item.byte>>
      BY <1>2, <1>4, <2>1, FeedGives
    <3>2. HandOver(fed.stream)
      BY <2>1 DEF PopEnd
    <3> HIDE DEF fed
    <3>4. /\ stream' = Take(fed.stream) /\ pc' = "handle"
          /\ LastByte \in Byte
          /\ \/ handed' = handed
             \/ /\ handed' = Append(handed, LastByte.frame)
                /\ sent[LastByte.frame] \in Content
                /\ LastByte.index = Length[sent[LastByte.frame]]
      BY <1>2, <3>1, <3>2, HandOverGives
    <3> QED
      BY <3>1, <3>4
  <2>2. CASE fed.status # "FRAME_READY"
    <3>1. /\ stream' = IF fed.status = "OVERFLOW" THEN NoStream ELSE fed.stream
          /\ pc' = IF fed.status = "BUSY" THEN "poll" ELSE "pop"
          /\ handed' = handed
      BY <2>2 DEF PopEnd
    <3>2. NoStream \in Frames /\ NoStream.current = <<>>
      <4>1. <<>> \in Seq(Byte)
        OBVIOUS
      <4> QED
        BY <4>1, Numbers DEF NoStream, Frames, Stream
    <3>3. \/ /\ fed.status \notin {"FRAME_READY", "BUSY", "OVERFLOW"}
             /\ fed.stream \in Frames
             /\ fed.stream.current \in {<<item.byte>>, Append(stream.current, item.byte)}
          \/ fed.status = "OVERFLOW"
      BY <1>2, <1>4, <2>2, FeedGives
    <3> HIDE DEF fed
    <3> QED
      BY <3>1, <3>2, <3>3
  <2> QED
    BY <2>1, <2>2
<1>9. handed' \in Seq(1 .. MaxFrames)
  BY <1>2, <1>8, HandedTypes
<1>10. MainType'
  BY <1>1, <1>5, <1>8, <1>9 DEF MainType
<1> QED
  BY <1>1, <1>4, <1>6, <1>7, <1>8, <1>10 DEF TypeInv

\* It finds the ring empty and looks at the clock.
LEMMA PollTypes ==
  ASSUME TypeInv, PollStream
  PROVE  /\ TypeInv'
         /\ stream' = stream \/ stream'.current = <<>>
         /\ \/ handed' = handed
            \/ /\ stream.current # <<>> /\ LastByte \in Byte
               /\ handed' = Append(handed, LastByte.frame)
               /\ sent[LastByte.frame] \in Content
               /\ LastByte.index = Length[sent[LastByte.frame]]
               /\ stream'.current = <<>>
<1> DEFINE polled == Poll(stream, now)
<1>1. UNCHANGED <<now, sent, next, silence, noise, data, overrun, armed, stalled,
                  ring, head, tail, item, spoiled>>
  BY DEF PollStream, line, usart, buffer
<1>2. stream \in Frames /\ now \in Clock /\ handed \in Seq(1 .. MaxFrames)
        /\ LineType /\ NodeType /\ MainType
  BY DEF TypeInv, MainType, NodeType
<1>3. LineType' /\ RingType'
  BY <1>1 DEF TypeInv, LineType, RingType, UnreadSlot, Pos
<1>4. /\ stream' \in Frames /\ pc' \in {"pop", "handle"} /\ away' \in 0 .. MaxBusy
      /\ stream' = stream \/ stream'.current = <<>>
      /\ \/ handed' = handed
         \/ /\ stream.current # <<>> /\ LastByte \in Byte
            /\ handed' = Append(handed, LastByte.frame)
            /\ sent[LastByte.frame] \in Content
            /\ LastByte.index = Length[sent[LastByte.frame]]
            /\ stream'.current = <<>>
  <2>1. CASE polled.status = "FRAME_READY"
    <3>1. /\ stream.current # <<>> /\ polled.stream.completed = stream.current
          /\ Take(polled.stream) \in Frames /\ Take(polled.stream).current = <<>>
      BY <1>2, <2>1, PollGives
    <3>2. HandOver(polled.stream) /\ away' = away
      BY <2>1 DEF PollStream
    <3>4. away \in 0 .. MaxBusy
      BY <1>2 DEF NodeType
    <3> HIDE DEF polled
    <3>5. /\ stream' = Take(polled.stream) /\ pc' = "handle"
          /\ LastByte \in Byte
          /\ \/ handed' = handed
             \/ /\ handed' = Append(handed, LastByte.frame)
                /\ sent[LastByte.frame] \in Content
                /\ LastByte.index = Length[sent[LastByte.frame]]
      BY <1>2, <3>1, <3>2, HandOverGives
    <3> QED
      BY <3>1, <3>2, <3>4, <3>5
  <2>2. CASE polled.status # "FRAME_READY"
    <3>1. pc' = "pop" /\ away' = 0 /\ stream' = stream /\ handed' = handed
      BY <2>2 DEF PollStream
    <3> QED
      BY <1>2, <3>1, Numbers
  <2> QED
    BY <2>1, <2>2
<1>5. NodeType'
  BY <1>1, <1>2, <1>4 DEF NodeType
<1>6. MainType'
  <2>1. handed' \in Seq(1 .. MaxFrames)
    BY <1>2, <1>4, HandedTypes
  <2> QED
    BY <1>1, <1>2, <1>4, <2>1 DEF MainType
<1> QED
  BY <1>3, <1>4, <1>5, <1>6 DEF TypeInv

\* Nothing else moves a byte.
LEMMA OtherTypes ==
  ASSUME TypeInv, PopStart \/ Handled \/ StallBegins \/ StallEnds \/ UNCHANGED vars
  PROVE  /\ TypeInv'
         /\ UNCHANGED <<sent, next, data, ring, head, tail, stream, handed>>
<1>1. UNCHANGED <<sent, next, silence, noise, data, overrun, armed, ring, head, tail,
                  now, stream, handed, spoiled>>
  BY DEF PopStart, Handled, StallBegins, StallEnds, vars, line, usart, buffer, main
<1>2. away' \in 0 .. MaxBusy /\ stalled' \in BOOLEAN
  <2>1. away \in 0 .. MaxBusy /\ stalled \in BOOLEAN /\ 0 \in 0 .. MaxBusy
    BY Numbers DEF TypeInv, NodeType
  <2>2. away' = away \/ away' = 0
    BY DEF PopStart, Handled, StallBegins, StallEnds, vars
  <2>3. stalled' = stalled \/ stalled' = TRUE \/ stalled' = FALSE
    BY DEF PopStart, Handled, StallBegins, StallEnds, vars
  <2> QED
    BY <2>1, <2>2, <2>3
<1>3. /\ pc' \in {"pop", "popped", "poll", "handle"} /\ item' \in Item
      /\ pc' = "popped" => tail # head /\ item' = ring[tail]
  <2>1. CASE PopStart
    BY <2>1 DEF PopStart, TypeInv, MainType, RingType
  <2>2. CASE Handled \/ StallBegins \/ StallEnds \/ UNCHANGED vars
    BY <2>2 DEF Handled, StallBegins, StallEnds, vars, main, TypeInv, MainType
  <2> QED
    BY <2>1, <2>2
<1>4. LineType' /\ NodeType' /\ RingType'
  BY <1>1, <1>2 DEF TypeInv, LineType, NodeType, RingType, UnreadSlot, Pos
<1>5. MainType'
  BY <1>1, <1>3 DEF TypeInv, MainType
<1> QED
  BY <1>1, <1>4, <1>5 DEF TypeInv

\* Every step keeps the types.
LEMMA TypeStep ==
  ASSUME TypeInv, [Next]_vars
  PROVE  TypeInv'
  BY SendTypes, TickTypes, InterruptTypes, PopTypes, PollTypes, OtherTypes DEF Next

\* The line is silent and the node has nothing at the start.
LEMMA TypeInit == Init => TypeInv
<1> SUFFICES ASSUME Init PROVE TypeInv
  OBVIOUS
<1>1. NoItem \in Item /\ <<>> \in Seq(Byte) /\ <<>> \in Seq(Content)
        /\ <<>> \in Seq(1 .. MaxFrames) /\ Len(<<>>) = 0
  BY Numbers DEF NoItem, Item
<1>2. LineType
  BY <1>1, Numbers DEF Init, LineType
<1>3. NodeType
  <2>1. now \in Clock /\ away \in 0 .. MaxBusy
    BY Numbers DEF Init
  <2>2. data \in Byte \cup {NoByte} /\ spoiled \in SUBSET (0 .. MaxFrames + 1)
    BY DEF Init
  <2>3. overrun \in BOOLEAN /\ armed \in BOOLEAN /\ stalled \in BOOLEAN
    BY DEF Init
  <2> QED
    BY <2>1, <2>2, <2>3 DEF NodeType
<1>4. RingType
  <2>1. head \in Slot /\ tail = head
    BY Numbers DEF Init
  <2>2. UnreadSlot = {}
    <3>1. \A i \in Slot : Behind(tail, i) \in Nat /\ Behind(tail, head) = 0
      BY <2>1, BehindTypes
    <3> QED
      BY <3>1 DEF UnreadSlot, Pos
  <2> QED
    BY <1>1, <2>1, <2>2 DEF Init, RingType
<1>5. MainType
  <2>1. NoStream \in Frames
    BY <1>1, Numbers DEF NoStream, Frames, Stream
  <2> QED
    BY <1>1, <2>1 DEF Init, MainType
<1> QED
  BY <1>2, <1>3, <1>4, <1>5 DEF TypeInv

\* The types hold throughout, whatever the ring, the frames and the clock.
THEOREM TypesHold == Spec => []TypeInv
<1>1. TypeInv /\ [Next]_vars => TypeInv'
  BY TypeStep
<1> QED
  BY <1>1, TypeInit, PTL DEF Spec

\* Every variable has its type: no index leaves the ring, no frame is longer than
\* the buffer, and none is left behind complete.
THEOREM TypeCorrect == Spec => []TypeOK
<1>1. TypeInv => TypeOK
  <2> SUFFICES ASSUME TypeInv PROVE TypeOK
    OBVIOUS
  <2>1. stream \in Stream
    BY DEF TypeInv, MainType, Frames
  <2> QED
    BY <2>1 DEF TypeInv, LineType, NodeType, RingType, MainType, Stream, TypeOK
<1> QED
  BY <1>1, TypesHold, PTL

-----------------------------------------------------------------------------
\* The order is kept.

\* A sequence has elements of its type.
LEMMA ElementType ==
  ASSUME NEW S, NEW s \in Seq(S)
  PROVE  \A k \in DOMAIN s : s[k] \in S
  OBVIOUS

\* A byte that goes out is after all that are out; these stay in their order.
LEMMA GoesOut ==
  ASSUME NEW s \in Seq(Content), NEW n \in Nat, NEW s2 \in Seq(Content), NEW n2 \in Nat,
         NEW h \in Seq(1 .. MaxFrames), NEW new \in Byte,
         \/ s2 = s /\ n2 = n + 1 /\ \A k \in DOMAIN h : h[k] < Len(s)
         \/ n2 = 1 /\ \E c \in Content : s2 = Append(s, c),
         \A k \in DOMAIN h : h[k] <= Len(s),
         new.frame = Len(s2), new.index \in {0, n2}
  PROVE  /\ Out(s2, n2, new) /\ Later(h, s2, new)
         /\ \A k \in DOMAIN h : h[k] < Len(s2) /\ s2[h[k]] = s[h[k]]
         /\ \A b \in Byte : Out(s, n, b) => Out(s2, n2, b) /\ Before(b, new)
         /\ \A b \in Byte : Later(h, s, b) => Later(h, s2, b)
<1>1. /\ Len(s) \in Nat /\ Len(s2) \in Nat
      /\ \A k \in DOMAIN h : h[k] \in Nat \ {0}
      /\ \A b \in Byte : b.frame \in Nat \ {0} /\ b.index \in Nat
  <2>1. \A k \in DOMAIN h : h[k] \in 1 .. MaxFrames
    BY ElementType
  <2> QED
    BY <2>1, Numbers DEF Byte
<1>2. /\ \A k \in DOMAIN h : h[k] < Len(s2) /\ s2[h[k]] = s[h[k]]
      /\ \/ Len(s2) = Len(s) /\ n2 = n + 1
         \/ Len(s2) = Len(s) + 1 /\ n2 = 1
  <2>1. CASE s2 = s /\ n2 = n + 1 /\ \A k \in DOMAIN h : h[k] < Len(s)
    BY <1>1, <2>1
  <2>2. CASE n2 = 1 /\ \E c \in Content : s2 = Append(s, c)
    <3>1. PICK c \in Content : s2 = Append(s, c)
      BY <2>2
    <3>2. Len(s2) = Len(s) + 1 /\ \A i \in 1 .. Len(s) : s2[i] = s[i]
      BY <3>1
    <3>3. \A k \in DOMAIN h : h[k] \in 1 .. Len(s)
      BY <1>1
    <3> QED
      BY <1>1, <2>2, <3>2, <3>3
  <2> QED
    BY <2>1, <2>2
<1>3. Out(s2, n2, new)
  BY <1>1 DEF Out
<1>4. Later(h, s2, new)
  BY <1>2 DEF Later
<1>5. \A b \in Byte : Out(s, n, b) => Out(s2, n2, b) /\ Before(b, new)
  BY <1>1, <1>2 DEF Out, Before
<1>6. \A b \in Byte : Later(h, s, b) => Later(h, s2, b)
  BY <1>2 DEF Later
<1> QED
  BY <1>2, <1>3, <1>4, <1>5, <1>6

\* What follows the last byte of a frame is later than that frame.
LEMMA HandedLater ==
  ASSUME NEW h \in Seq(1 .. MaxFrames), NEW s, NEW a \in Byte, NEW b \in Byte,
         a.index # 0, a.index = Length[s[a.frame]], Before(a, b), Later(h, s, b)
  PROVE  Later(Append(h, a.frame), s, b)
<1>1. a.frame \in 1 .. MaxFrames
  BY DEF Byte
<1>2. ASSUME NEW k \in DOMAIN Append(h, a.frame)
      PROVE  \/ b.index = 0 \/ Append(h, a.frame)[k] < b.frame
             \/ /\ Append(h, a.frame)[k] = b.frame
                /\ Length[s[Append(h, a.frame)[k]]] < b.index
  <2>1. CASE k \in DOMAIN h
    <3>1. Append(h, a.frame)[k] = h[k]
      BY <1>1, <2>1
    <3> QED
      BY <2>1, <3>1 DEF Later
  <2>2. CASE k \notin DOMAIN h
    <3>1. Append(h, a.frame)[k] = a.frame
      BY <1>1, <1>2, <2>2
    <3> QED
      BY <3>1 DEF Before
  <2> QED
    BY <2>1, <2>2
<1> QED
  BY <1>2 DEF Later

\* A frame is handed over once its last byte is out.
LEMMA HandedEnds ==
  ASSUME NEW h \in Seq(1 .. MaxFrames), NEW s, NEW n, NEW a \in Byte,
         a.index # 0, a.index = Length[s[a.frame]], Out(s, n, a), Len(s) \in Nat,
         \A k \in DOMAIN h : /\ h[k] <= Len(s)
                             /\ h[k] = Len(s) => Length[s[h[k]]] <= n
  PROVE  \A k \in DOMAIN Append(h, a.frame) :
           /\ Append(h, a.frame)[k] <= Len(s)
           /\ Append(h, a.frame)[k] = Len(s) => Length[s[Append(h, a.frame)[k]]] <= n
<1>1. a.frame \in 1 .. MaxFrames
  BY DEF Byte
<1> SUFFICES ASSUME NEW k \in DOMAIN Append(h, a.frame)
             PROVE  /\ Append(h, a.frame)[k] <= Len(s)
                    /\ Append(h, a.frame)[k] = Len(s)
                         => Length[s[Append(h, a.frame)[k]]] <= n
  OBVIOUS
<1>2. CASE k \in DOMAIN h
  <2>1. Append(h, a.frame)[k] = h[k]
    BY <1>1, <1>2
  <2> QED
    BY <1>2, <2>1
<1>3. CASE k \notin DOMAIN h
  <2>1. Append(h, a.frame)[k] = a.frame
    BY <1>1, <1>3
  <2>2. Out(s, n, a) /\ a.frame \in Int
    BY <1>1, Numbers
  <2> QED
    BY <2>1, <2>2 DEF Out
<1> QED
  BY <1>2, <1>3

\* The types of what the order is about.
LEMMA InsideTypes ==
  ASSUME TypeInv
  PROVE  /\ sent \in Seq(Content) /\ next \in Nat /\ Len(sent) \in Nat
         /\ handed \in Seq(1 .. MaxFrames)
         /\ head \in Slot /\ tail \in Slot /\ UnreadSlot \subseteq Slot
         /\ ring \in [Slot -> Item]
         /\ \A i \in UnreadSlot : ring[i].byte \in Byte
         /\ data # NoByte => data \in Byte
         /\ stream.current # <<>> => LastByte \in Byte
<1>1. stream.current # <<>> => LastByte \in Byte
  <2>1. stream.current \in Seq(Byte)
    BY DEF TypeInv, MainType, Frames, Stream
  <2> QED
    BY <2>1 DEF LastByte
<1> QED
  BY <1>1, Numbers DEF TypeInv, LineType, NodeType, RingType, MainType, UnreadSlot

\* A byte goes out, and into the data register if that is free.
LEMMA SendOrder ==
  ASSUME TypeInv, OrderInv, SendByte
  PROVE  OrderInv'
<1>1. /\ sent' \in Seq(Content) /\ next' \in Nat
      /\ \/ sent' = sent /\ next' = next + 1 /\ MidFrame
         \/ next' = 1 /\ \E c \in Content : sent' = Append(sent, c)
  <2>1. TypeInv'
    BY SendTypes
  <2> QED
    BY <2>1, Numbers DEF SendByte, TypeInv, LineType
<1>2. PICK new \in Byte : /\ new.frame = Len(sent') /\ new.index \in {0, next'}
                          /\ Receive(new)
  <2>1. Len(sent') \in 1 .. MaxFrames /\ next' \in 0 .. MaxAdu /\ 0 \in 0 .. MaxAdu
    <3>1. TypeInv'
      BY SendTypes
    <3>2. Len(sent') \in Nat /\ Len(sent') <= MaxFrames /\ next' \in 0 .. MaxAdu
            /\ (next' > 0 <=> Len(sent') > 0)
      BY <3>1 DEF TypeInv, LineType
    <3>3. next' > 0
      BY <1>1, InsideTypes
    <3> QED
      BY <3>2, <3>3, Numbers
  <2>2. /\ [frame |-> Len(sent'), index |-> next'] \in Byte
        /\ [frame |-> Len(sent'), index |-> 0] \in Byte
    BY <2>1 DEF Byte
  <2>3. \/ Receive([frame |-> Len(sent'), index |-> next'])
        \/ Receive([frame |-> Len(sent'), index |-> 0])
    BY DEF SendByte
  <2> QED
    BY <2>2, <2>3
<1>3. /\ UNCHANGED <<ring, head, tail, stream, handed>>
      /\ data' = data \/ (data = NoByte /\ data' = new)
  BY <1>2 DEF Receive, buffer, main
<1>4. /\ \A k \in DOMAIN handed : handed[k] <= Len(sent)
      /\ MidFrame => \A k \in DOMAIN handed : handed[k] < Len(sent)
  <2>1. /\ \A k \in DOMAIN handed : handed[k] \in 1 .. MaxFrames
        /\ Len(sent) \in Nat /\ next \in Nat
    BY InsideTypes, ElementType
  <2>2. MidFrame => Length[sent[Len(sent)]] \in Nat
    <3>1. MidFrame => Len(sent) \in 1 .. Len(sent)
      BY <2>1 DEF MidFrame, TypeInv, LineType
    <3>2. MidFrame => sent[Len(sent)] \in Content
      BY <3>1, InsideTypes
    <3> QED
      BY <3>2, LengthTypes
  <2> QED
    BY <2>1, <2>2, Numbers DEF OrderInv, HandedOrder, MidFrame
<1>5. /\ Out(sent', next', new) /\ Later(handed, sent', new)
      /\ \A k \in DOMAIN handed :
           handed[k] < Len(sent') /\ sent'[handed[k]] = sent[handed[k]]
      /\ \A b \in Byte : Out(sent, next, b) => Out(sent', next', b) /\ Before(b, new)
      /\ \A b \in Byte : Later(handed, sent, b) => Later(handed, sent', b)
  <2>1. \/ /\ sent' = sent /\ next' = next + 1
           /\ \A k \in DOMAIN handed : handed[k] < Len(sent)
        \/ next' = 1 /\ \E c \in Content : sent' = Append(sent, c)
    BY <1>1, <1>4
  <2> QED
    BY <1>1, <1>2, <1>4, <2>1, InsideTypes, GoesOut
<1>6. UnreadSlot' = UnreadSlot /\ (\A i \in Slot : Pos(i)' = Pos(i)) /\ LastByte' = LastByte
  BY <1>3 DEF UnreadSlot, Pos, LastByte
<1>7. RingOrder'
  <2>1. RingOrder
    BY DEF OrderInv
  <2>2. /\ \A i \in UnreadSlot : Out(sent', next', ring[i].byte)
        /\ \A i \in UnreadSlot : Before(ring[i].byte, new)
    BY <1>5, <2>1, InsideTypes DEF RingOrder
  <2>3. data # NoByte => Out(sent', next', data)
    BY <1>5, <2>1, InsideTypes DEF RingOrder
  <2>4. \A i, j \in UnreadSlot' : Pos(i)' < Pos(j)' => Before(ring'[i].byte, ring'[j].byte)
    BY <1>3, <1>6, <2>1, InsideTypes DEF RingOrder
  <2>5. data' # NoByte => Out(sent', next', data')
                            /\ \A i \in UnreadSlot' : Before(ring'[i].byte, data')
    BY <1>3, <1>5, <1>6, <2>1, <2>2, <2>3 DEF RingOrder
  <2> QED
    BY <1>3, <1>6, <2>2, <2>4, <2>5 DEF RingOrder
<1>8. StreamOrder'
  <2>1. StreamOrder
    BY DEF OrderInv
  <2>2. stream.current # <<>> => Out(sent', next', LastByte) /\ Before(LastByte, new)
    BY <1>5, <2>1, InsideTypes DEF StreamOrder
  <2> QED
    BY <1>3, <1>6, <2>1, <2>2 DEF StreamOrder
<1>9. HandedOrder'
  <2>1. HandedOrder
    BY DEF OrderInv
  <2>2. \A k \in DOMAIN handed :
          handed[k] <= Len(sent') /\ (handed[k] = Len(sent') => FALSE)
    <3>1. \A k \in DOMAIN handed : handed[k] \in Nat
      BY InsideTypes, Numbers
    <3>2. Len(sent') \in Nat
      BY <1>1
    <3> QED
      BY <1>5, <3>1, <3>2
  <2>3. /\ stream.current # <<>> => Later(handed, sent', LastByte)
        /\ \A i \in UnreadSlot : Later(handed, sent', ring[i].byte)
        /\ data # NoByte => Later(handed, sent', data)
    BY <1>5, <2>1, InsideTypes DEF HandedOrder
  <2> QED
    BY <1>3, <1>5, <1>6, <2>2, <2>3 DEF HandedOrder
<1> QED
  BY <1>7, <1>8, <1>9 DEF OrderInv

\* The byte in the data register goes behind all in the ring, or is dropped.
LEMMA InterruptOrder ==
  ASSUME TypeInv, OrderInv, Interrupt
  PROVE  OrderInv'
<1>1. /\ data # NoByte /\ data' = NoByte
      /\ UNCHANGED <<sent, next, stream, handed, tail>> /\ Store
  BY DEF Interrupt, Pending, line, main, Store, buffer
<1>2. LastByte' = LastByte /\ \A i \in Slot : Pos(i)' = Pos(i)
  BY <1>1 DEF LastByte, Pos
<1>3. RingOrder /\ StreamOrder /\ HandedOrder
  BY DEF OrderInv
<1>4. CASE RingFull
  <2>1. UNCHANGED <<ring, head, tail>>
    BY <1>1, <1>4 DEF Store, buffer
  <2>2. UnreadSlot' = UnreadSlot
    BY <2>1 DEF UnreadSlot, Pos
  <2>3. RingOrder'
    BY <1>1, <1>2, <1>3, <2>1, <2>2, InsideTypes DEF RingOrder
  <2>4. StreamOrder' /\ HandedOrder'
    BY <1>1, <1>2, <1>3, <2>1, <2>2 DEF StreamOrder, HandedOrder
  <2> QED
    BY <2>3, <2>4 DEF OrderInv
<1>5. CASE ~ RingFull
  <2>1. /\ ring' = [ring EXCEPT ![head] = [byte |-> data, stamp |-> now]]
        /\ head' = NextIndex(head)
    BY <1>1, <1>5 DEF Store
  <2>2. /\ UnreadSlot' = UnreadSlot \cup {head} /\ head \notin UnreadSlot
        /\ \A i \in UnreadSlot : Pos(i) < Pos(head)
    BY <1>1, <1>5, <2>1, InsideTypes, StoreSlots
  <2>3. ring'[head].byte = data /\ \A i \in UnreadSlot : ring'[i].byte = ring[i].byte
    BY <2>1, <2>2, InsideTypes
  <2>4. ASSUME NEW i \in UnreadSlot', NEW j \in UnreadSlot', Pos(i)' < Pos(j)'
        PROVE  Before(ring'[i].byte, ring'[j].byte)
    <3>1. Pos(i) < Pos(j) /\ i \in Slot /\ j \in Slot
      BY <1>2, <2>2, <2>4, InsideTypes
    <3>2. i \in UnreadSlot
      <4>1. Pos(i) \in Nat /\ Pos(j) \in Nat /\ Pos(head) \in Nat
        BY <3>1, BehindTypes, InsideTypes DEF Pos
      <4>2. j = head \/ Pos(j) < Pos(head)
        BY <2>2
      <4>3. Pos(i) < Pos(head)
        BY <3>1, <4>1, <4>2
      <4> QED
        BY <3>1, <4>3 DEF UnreadSlot
    <3>3. CASE j = head
      BY <1>1, <1>3, <2>3, <3>2, <3>3 DEF RingOrder
    <3>4. CASE j \in UnreadSlot
      BY <1>3, <2>3, <3>1, <3>2, <3>4 DEF RingOrder
    <3> QED
      BY <2>2, <3>3, <3>4
  <2>5. RingOrder'
    <3>1. \A i \in UnreadSlot' : Out(sent', next', ring'[i].byte)
      BY <1>1, <1>3, <2>2, <2>3 DEF RingOrder
    <3> QED
      BY <1>1, <2>4, <3>1 DEF RingOrder
  <2>6. StreamOrder'
    BY <1>1, <1>2, <1>3, <2>2, <2>3 DEF StreamOrder
  <2>7. HandedOrder'
    BY <1>1, <1>2, <1>3, <2>2, <2>3 DEF HandedOrder
  <2> QED
    BY <2>5, <2>6, <2>7 DEF OrderInv
<1> QED
  BY <1>4, <1>5

\* The oldest byte goes from the ring to the stream; what the stream held may be
\* handed over, or dropped.
LEMMA PopOrder ==
  ASSUME TypeInv, OrderInv, PopEnd
  PROVE  OrderInv'
<1> DEFINE Rest == UnreadSlot \ {tail}
<1>1. /\ tail # head /\ tail' = NextIndex(tail) /\ ring' = [ring EXCEPT ![tail] = NoItem]
      /\ UNCHANGED <<sent, next, data, head>>
  BY DEF PopEnd, TypeInv, MainType, line, usart
<1>2. /\ UnreadSlot' = Rest /\ tail \in UnreadSlot
      /\ \A i \in Rest : Pos(tail) < Pos(i) /\ Behind(tail', i) = Behind(tail, i) - 1
  BY <1>1, InsideTypes, PopSlots
<1>3. /\ item.byte = ring[tail].byte /\ item.byte \in Byte
      /\ \/ stream'.current = <<>>
         \/ stream'.current = <<item.byte>>
         \/ stream'.current = Append(stream.current, item.byte)
      /\ \/ handed' = handed
         \/ /\ stream.current # <<>> /\ LastByte \in Byte
            /\ handed' = Append(handed, LastByte.frame)
            /\ sent[LastByte.frame] \in Content
            /\ LastByte.index = Length[sent[LastByte.frame]]
  BY PopTypes
<1>4. stream'.current # <<>> => LastByte' = item.byte
  <2>1. stream.current \in Seq(Byte)
    BY DEF TypeInv, MainType, Frames, Stream
  <2> QED
    BY <1>3, <2>1 DEF LastByte
<1>5. \A i \in Rest : ring'[i] = ring[i] /\ ring[i].byte \in Byte /\ i \in UnreadSlot
  BY <1>1, InsideTypes
<1>6. RingOrder /\ StreamOrder /\ HandedOrder
  BY DEF OrderInv
<1> HIDE DEF Rest
<1>7. RingOrder'
  <2>1. \A i, j \in Rest : Pos(i)' < Pos(j)' => Pos(i) < Pos(j)
    <3>1. \A i \in Rest : Behind(tail, i) \in Nat
      BY <1>5, BehindTypes, InsideTypes
    <3> QED
      BY <1>2, <3>1 DEF Pos
  <2>2. \A i, j \in UnreadSlot' : Pos(i)' < Pos(j)' => Before(ring'[i].byte, ring'[j].byte)
    BY <1>2, <1>5, <1>6, <2>1 DEF RingOrder
  <2> QED
    BY <1>1, <1>2, <1>5, <1>6, <2>2 DEF RingOrder
<1>8. StreamOrder'
  <2>1. /\ Out(sent, next, item.byte)
        /\ \A i \in Rest : Before(item.byte, ring[i].byte)
        /\ data # NoByte => Before(item.byte, data)
    BY <1>2, <1>3, <1>5, <1>6 DEF RingOrder
  <2> QED
    BY <1>1, <1>2, <1>4, <1>5, <2>1 DEF StreamOrder
<1>9. HandedOrder'
  <2>1. handed \in Seq(1 .. MaxFrames)
    BY InsideTypes
  <2>2. CASE handed' = handed
    BY <1>1, <1>2, <1>3, <1>4, <1>5, <1>6, <2>2 DEF HandedOrder
  <2>3. CASE /\ stream.current # <<>> /\ LastByte \in Byte
             /\ handed' = Append(handed, LastByte.frame)
             /\ sent[LastByte.frame] \in Content
             /\ LastByte.index = Length[sent[LastByte.frame]]
    <3>1. LastByte.index # 0
      BY <2>3, LengthTypes
    <3>2. \A b \in Byte : Before(LastByte, b) /\ Later(handed, sent, b)
                            => Later(handed', sent, b)
      <4> SUFFICES ASSUME NEW b \in Byte, Before(LastByte, b), Later(handed, sent, b)
                   PROVE  Later(handed', sent, b)
        OBVIOUS
      <4>1. PICK a \in Byte : a = LastByte
        BY <2>3
      <4> QED
        BY <2>1, <2>3, <3>1, <4>1, HandedLater
    <3>3. /\ Later(handed', sent, item.byte)
          /\ \A i \in Rest : Later(handed', sent, ring[i].byte)
          /\ data # NoByte => Later(handed', sent, data)
      BY <1>2, <1>3, <1>5, <1>6, <2>3, <3>2, InsideTypes DEF StreamOrder, HandedOrder
    <3>4. \A k \in DOMAIN handed' :
             /\ handed'[k] <= Len(sent)
             /\ handed'[k] = Len(sent) => Length[sent[handed'[k]]] <= next
      BY <1>6, <2>1, <2>3, <3>1, HandedEnds DEF StreamOrder, HandedOrder
    <3> QED
      BY <1>1, <1>2, <1>4, <1>5, <3>3, <3>4 DEF HandedOrder
  <2> QED
    BY <1>3, <2>2, <2>3
<1> QED
  BY <1>7, <1>8, <1>9 DEF OrderInv

\* The clock may end a frame, which is then handed over, or dropped.
LEMMA PollOrder ==
  ASSUME TypeInv, OrderInv, PollStream
  PROVE  OrderInv'
<1>1. UNCHANGED <<sent, next, data, ring, head, tail>>
  BY DEF PollStream, line, usart, buffer
<1>2. /\ stream' = stream \/ stream'.current = <<>>
      /\ \/ handed' = handed
         \/ /\ stream.current # <<>> /\ LastByte \in Byte
            /\ handed' = Append(handed, LastByte.frame)
            /\ sent[LastByte.frame] \in Content
            /\ LastByte.index = Length[sent[LastByte.frame]]
            /\ stream'.current = <<>>
  BY PollTypes
<1>3. UnreadSlot' = UnreadSlot /\ (\A i \in Slot : Pos(i)' = Pos(i))
        /\ (stream' = stream => LastByte' = LastByte)
  BY <1>1 DEF UnreadSlot, Pos, LastByte
<1>4. RingOrder /\ StreamOrder /\ HandedOrder
  BY DEF OrderInv
<1>5. RingOrder'
  BY <1>1, <1>3, <1>4, InsideTypes DEF RingOrder
<1>6. StreamOrder'
  BY <1>1, <1>2, <1>3, <1>4 DEF StreamOrder
<1>7. HandedOrder'
  <2>1. CASE handed' = handed
    BY <1>1, <1>2, <1>3, <1>4, <2>1 DEF HandedOrder
  <2>2. CASE /\ stream.current # <<>> /\ LastByte \in Byte
             /\ handed' = Append(handed, LastByte.frame)
             /\ sent[LastByte.frame] \in Content
             /\ LastByte.index = Length[sent[LastByte.frame]]
             /\ stream'.current = <<>>
    <3>1. LastByte.index # 0 /\ handed \in Seq(1 .. MaxFrames)
      BY <2>2, LengthTypes, InsideTypes
    <3>2. \A b \in Byte : Before(LastByte, b) /\ Later(handed, sent, b)
                            => Later(handed', sent, b)
      <4> SUFFICES ASSUME NEW b \in Byte, Before(LastByte, b), Later(handed, sent, b)
                   PROVE  Later(handed', sent, b)
        OBVIOUS
      <4>1. PICK a \in Byte : a = LastByte
        BY <2>2
      <4> QED
        BY <2>2, <3>1, <4>1, HandedLater
    <3>3. /\ \A i \in UnreadSlot : Later(handed', sent, ring[i].byte)
          /\ data # NoByte => Later(handed', sent, data)
      BY <1>4, <2>2, <3>2, InsideTypes DEF StreamOrder, HandedOrder
    <3>4. \A k \in DOMAIN handed' :
             /\ handed'[k] <= Len(sent)
             /\ handed'[k] = Len(sent) => Length[sent[handed'[k]]] <= next
      BY <1>4, <2>2, <3>1, HandedEnds DEF StreamOrder, HandedOrder
    <3> QED
      BY <1>1, <1>3, <2>2, <3>3, <3>4 DEF HandedOrder
  <2> QED
    BY <1>2, <2>1, <2>2
<1> QED
  BY <1>5, <1>6, <1>7 DEF OrderInv

\* Every step keeps the order.
LEMMA OrderStep ==
  ASSUME TypeInv, OrderInv, [Next]_vars
  PROVE  OrderInv'
<1>1. ASSUME UNCHANGED <<sent, next, data, ring, head, tail, stream, handed>>
      PROVE  OrderInv'
  BY <1>1
  DEF OrderInv, RingOrder, StreamOrder, HandedOrder, UnreadSlot, Pos, LastByte
<1>2. CASE Tick
  <2>1. UNCHANGED <<sent, next, data, ring, head, tail, stream, handed>>
    BY <1>2 DEF Tick, usart, buffer, main
  <2> QED
    BY <1>1, <2>1
<1>3. CASE PopStart \/ Handled \/ StallBegins \/ StallEnds \/ UNCHANGED vars
  BY <1>1, <1>3, OtherTypes
<1> QED
  BY <1>2, <1>3, SendOrder, InterruptOrder, PopOrder, PollOrder DEF Next

\* Nothing is in the node at the start.
LEMMA OrderInit == Init => OrderInv
<1> SUFFICES ASSUME Init PROVE OrderInv
  OBVIOUS
<1>1. UnreadSlot = {}
  <2>1. tail \in Slot /\ head = tail
    BY Numbers DEF Init
  <2>2. \A i \in Slot : Behind(tail, i) \in Nat /\ Behind(tail, head) = 0
    BY <2>1, BehindTypes
  <2> QED
    BY <2>2 DEF UnreadSlot, Pos
<1>2. data = NoByte /\ stream.current = <<>> /\ handed = <<>>
  BY DEF Init, NoStream
<1>3. DOMAIN handed = {}
  BY <1>2
<1> QED
  BY <1>1, <1>2, <1>3 DEF OrderInv, RingOrder, StreamOrder, HandedOrder

\* The bytes in the ring and in the data register are in the order of the line, and
\* all of them are later than the frames that were handed over.
THEOREM OrderHolds == Spec => [](TypeInv /\ OrderInv)
<1>1. TypeInv /\ OrderInv /\ [Next]_vars => (TypeInv /\ OrderInv)'
  BY TypeStep, OrderStep
<1>2. Init => TypeInv /\ OrderInv
  BY TypeInit, OrderInit
<1> QED
  BY <1>1, <1>2, PTL DEF Spec

-----------------------------------------------------------------------------
\* The receiver is a channel.

\* A frame that is handed over was sent, and is later than all before it.
LEMMA DeliverStep ==
  ASSUME TypeInv, OrderInv, UNCHANGED sent, stream.current # <<>>, LastByte \in Byte,
         handed' = Append(handed, LastByte.frame),
         sent[LastByte.frame] \in Content,
         LastByte.index = Length[sent[LastByte.frame]]
  PROVE  Channel!Deliver
<1>1. LastByte.index # 0
  BY LengthTypes
<1>2. LastByte.frame \in 1 .. Len(sent)
  <2>1. Out(sent, next, LastByte)
    BY DEF OrderInv, StreamOrder
  <2>2. LastByte.frame \in Nat \ {0} /\ Len(sent) \in Nat
    BY InsideTypes, Numbers DEF Byte
  <2> QED
    BY <2>1, <2>2 DEF Out
<1>3. \A k \in DOMAIN handed : handed[k] < LastByte.frame
  <2>1. Later(handed, sent, LastByte)
    BY DEF OrderInv, HandedOrder
  <2>2. Length[sent[LastByte.frame]] \in Nat
    BY LengthTypes
  <2> QED
    BY <1>1, <2>1, <2>2 DEF Later
<1> QED
  BY <1>2, <1>3 DEF Channel!Deliver

\* Every step of the receiver is one of the channel, or none.
LEMMA ChannelStep ==
  ASSUME TypeInv, OrderInv, [Next]_vars
  PROVE  [Channel!Next]_(Channel!vars)
<1>1. CASE SendByte
  <2>1. handed' = handed
    BY <1>1 DEF SendByte, Receive, main
  <2>2. Len(sent') = Len(sent) \/ Len(sent') = Len(sent) + 1
    BY <1>1, InsideTypes DEF SendByte
  <2> QED
    BY <2>1, <2>2 DEF Channel!Next, Channel!Send, Channel!vars
<1>2. CASE Tick \/ Interrupt
  <2>1. UNCHANGED <<sent, handed>>
    BY <1>2 DEF Tick, Interrupt, line, main
  <2> QED
    BY <2>1 DEF Channel!vars
<1>3. CASE PopEnd
  <2>1. sent' = sent
    BY <1>3 DEF PopEnd, line
  <2> QED
    BY <1>3, <2>1, PopTypes, DeliverStep DEF Channel!Next, Channel!vars
<1>4. CASE PollStream
  <2>1. sent' = sent
    BY <1>4 DEF PollStream, line
  <2> QED
    BY <1>4, <2>1, PollTypes, DeliverStep DEF Channel!Next, Channel!vars
<1>5. CASE PopStart \/ Handled \/ StallBegins \/ StallEnds \/ UNCHANGED vars
  <2>1. UNCHANGED <<sent, handed>>
    BY <1>5, OtherTypes
  <2> QED
    BY <2>1 DEF Channel!vars
<1> QED
  BY <1>1, <1>2, <1>3, <1>4, <1>5 DEF Next

\* The receiver implements the channel: whatever the ring drops, the stalls overrun
\* and the noise damages, the service is given frames that were sent, in their order
\* and each at most once.
THEOREM RefinesChannel == Spec => ChannelSpec
<1>1. Init => Channel!Init
  BY DEF Init, Channel!Init
<1>2. TypeInv /\ OrderInv /\ [Next]_vars => [Channel!Next]_(Channel!vars)
  BY ChannelStep
<1> QED
  BY <1>1, <1>2, OrderHolds, PTL DEF Spec, ChannelSpec, Channel!Spec

-----------------------------------------------------------------------------
\* Clean frames are kept.

\* Ticks since the byte of x was stored, modulo the period of the clock.
Age(x) == Elapsed(x.stamp, now)

IsHanded(n) == \E k \in DOMAIN handed : handed[k] = n

\* The bytes in the node.
Held ==
  {stream.current[k] : k \in DOMAIN stream.current}
    \cup {ring[i].byte : i \in UnreadSlot} \cup {data}

\* A frame up to the byte b.
UpTo(b) == [k \in 1 .. b.index |-> [frame |-> b.frame, index |-> k]]

\* The receive is always under way; the sender makes no pause in a frame, and ends it.
LineInv ==
  /\ armed
  /\ MidFrame => silence <= InterChar
  /\ sent # <<>> => next <= Length[sent[Len(sent)]]

\* A byte that waits in the data register is the one sent just now, or its frame and
\* those that a late time stamp can touch are spoiled.
DataInv ==
  data # NoByte =>
    /\ silence = 0 \/ {data.frame, Len(sent), Len(sent) + 1} \subseteq spoiled
    /\ data.frame \notin spoiled =>
         data.frame = Len(sent) /\ data.index = next /\ silence = 0
    /\ data.frame < Len(sent) => Len(sent) \in spoiled

\* A byte is one of its frame, and damaged only if that is spoiled.
Clean(b) ==
  /\ b.index <= Length[sent[b.frame]]
  /\ b.frame \notin spoiled => b.index >= 1

ByteInv ==
  /\ \A x \in Stamped : Clean(x.byte)
  /\ data # NoByte => Clean(data)

\* A byte is as old as the silence after it, at least; and if the frame on the line is
\* another, old enough to end its own.
OldInv ==
  \A x \in Stamped :
    /\ Age(x) >= silence \/ {x.byte.frame, Len(sent) + 1} \subseteq spoiled
    /\ x.byte.frame < Len(sent) =>
         Age(x) >= FrameGap \/ {x.byte.frame, Len(sent)} \subseteq spoiled

\* The byte sent last is no older than the silence after it, and the one before it is
\* young enough to be continued.
YoungInv ==
  \A x \in Stamped :
    x.byte.frame = Len(sent) /\ Len(sent) \notin spoiled =>
      /\ x.byte.index = next => Age(x) <= silence \/ silence = FrameGap
      /\ x.byte.index + 1 = next /\ data # NoByte => Age(x) <= InterChar

\* The stamps of two bytes show whether they are of one frame.
Apart(x, y) ==
  x.byte.frame < y.byte.frame =>
    Elapsed(x.stamp, y.stamp) >= FrameGap \/ {x.byte.frame, y.byte.frame} \subseteq spoiled

Together(x, y) ==
  x.byte.frame = y.byte.frame /\ x.byte.frame \notin spoiled
      /\ y.byte.index = x.byte.index + 1 =>
    Elapsed(x.stamp, y.stamp) <= InterChar

GapInv == \A x, y \in Stamped : Apart(x, y) /\ Together(x, y)

\* The clock is looked at when the ring has just been found empty.
PollInv == pc = "poll" => \A i \in UnreadSlot : ring[i].stamp = now

\* The stream holds the beginning of a clean frame, or nothing clean.
StreamInv ==
  stream.current # <<>> =>
    /\ LastByte.frame \notin spoiled => stream.current = UpTo(LastByte)
    /\ LastByte.frame \in spoiled =>
         \A k \in DOMAIN stream.current : stream.current[k].frame \in spoiled

\* No byte of a clean frame is missing.
HeldInv ==
  \A n \in (1 .. Len(sent)) \ spoiled :
    IsHanded(n) \/ \A k \in 1 .. Sent(n) : [frame |-> n, index |-> k] \in Held

TimeInv == OldInv /\ YoungInv /\ GapInv /\ PollInv

CleanInv == LineInv /\ DataInv /\ ByteInv /\ TimeInv /\ StreamInv /\ HeldInv

\* The clock, without the modulus.
LEMMA ElapsedIs ==
  ASSUME NEW a \in Clock, NEW b \in Clock
  PROVE  /\ Elapsed(a, b) = IF b >= a THEN b - a ELSE b - a + Wrap
         /\ Elapsed(a, b) \in Nat /\ Elapsed(a, b) < Wrap /\ Elapsed(a, a) = 0
<1>1. a \in Int /\ b \in Int /\ 0 <= a /\ a < Wrap /\ 0 <= b /\ b < Wrap
        /\ Wrap \in Nat \ {0}
  BY Numbers DEF Clock
<1>2. CASE b >= a
  <2>1. (b - a + Wrap) % Wrap = b - a
    BY <1>1, <1>2
  <2>2. (a - a + Wrap) % Wrap = 0
    BY <1>1
  <2> QED
    BY <1>1, <1>2, <2>1, <2>2 DEF Elapsed
<1>3. CASE ~ (b >= a)
  <2>1. (b - a + Wrap) % Wrap = b - a + Wrap
    BY <1>1, <1>3
  <2>2. (a - a + Wrap) % Wrap = 0
    BY <1>1
  <2> QED
    BY <1>1, <1>3, <2>1, <2>2 DEF Elapsed
<1> QED
  BY <1>2, <1>3

\* A tick adds one to an age, unless a whole period has passed.
LEMMA ElapsedTick ==
  ASSUME NEW a \in Clock, NEW b \in Clock
  PROVE  LET c == (b + 1) % Wrap
         IN c # a => Elapsed(a, c) = Elapsed(a, b) + 1
<1> DEFINE c == (b + 1) % Wrap
<1>1. a \in Int /\ b \in Int /\ 0 <= a /\ a < Wrap /\ 0 <= b /\ b < Wrap
        /\ Wrap \in Nat \ {0}
  BY Numbers DEF Clock
<1>2. c = IF b + 1 = Wrap THEN 0 ELSE b + 1
  <2>1. CASE b + 1 = Wrap
    BY <1>1, <2>1
  <2>2. CASE b + 1 # Wrap
    BY <1>1, <2>2
  <2> QED
    BY <2>1, <2>2
<1>3. c \in Clock
  BY <1>1, <1>2 DEF Clock
<1> HIDE DEF c
<1>4. c # a => Elapsed(a, c) = Elapsed(a, b) + 1
  BY <1>1, <1>2, <1>3, ElapsedIs
<1> QED
  BY <1>4 DEF c

\* The order of the bytes that have stamps.
LEMMA StampedOrder ==
  ASSUME TypeInv, OrderInv
  PROVE  \A x \in Stamped :
           /\ Out(sent, next, x.byte) /\ Later(handed, sent, x.byte)
           /\ data # NoByte => Before(x.byte, data)
<1> SUFFICES ASSUME NEW x \in Stamped
             PROVE  /\ Out(sent, next, x.byte) /\ Later(handed, sent, x.byte)
                    /\ data # NoByte => Before(x.byte, data)
  OBVIOUS
<1>1. CASE x \in {ring[i] : i \in UnreadSlot}
  BY <1>1 DEF OrderInv, RingOrder, HandedOrder
<1>2. CASE stream.current # <<>> /\ x = [byte |-> LastByte, stamp |-> stream.stamp]
  BY <1>2 DEF OrderInv, StreamOrder, HandedOrder
<1> QED
  BY <1>1, <1>2 DEF Stamped

\* What is there if nothing in the node moves.
LEMMA SameStamps ==
  ASSUME UNCHANGED <<ring, head, tail, stream>>
  PROVE  /\ Stamped' = Stamped /\ UnreadSlot' = UnreadSlot /\ LastByte' = LastByte
         /\ \A i : Pos(i)' = Pos(i)
  BY DEF Stamped, UnreadSlot, Pos, LastByte

\* More frames are spoiled, and the stream is as it was.
LEMMA SameStream ==
  ASSUME TypeInv, StreamInv, stream' = stream, spoiled \subseteq spoiled'
  PROVE  StreamInv'
<1>1. LastByte' = LastByte /\ UpTo(LastByte)' = UpTo(LastByte)
  BY DEF LastByte, UpTo
<1>2. \A k \in DOMAIN UpTo(LastByte) : UpTo(LastByte)[k].frame = LastByte.frame
  BY DEF UpTo
<1> QED
  BY <1>1, <1>2 DEF StreamInv

\* Time passes.  A clean byte becomes one tick older, and the line one more silent.
LEMMA TickClean ==
  ASSUME TypeInv, OrderInv, CleanInv, Tick
  PROVE  CleanInv'
<1>1. /\ pc \in {"pop", "handle"} /\ (MidFrame => silence < InterChar)
      /\ (Pending => stalled) /\ now' = (now + 1) % Wrap
      /\ silence' = IF silence < FrameGap THEN silence + 1 ELSE silence
      /\ UNCHANGED <<sent, next, data, armed, ring, head, tail, pc, stream, handed>>
  BY DEF Tick, usart, buffer, main
<1>2. /\ spoiled \subseteq spoiled'
      /\ data # NoByte => {data.frame, Len(sent), Len(sent) + 1} \subseteq spoiled'
      /\ \A x \in Stamped :
           x.stamp = now' => {x.byte.frame, Len(sent), Len(sent) + 1} \subseteq spoiled'
  <2>1. \A f \in Mistimed(now') : {f, Len(sent), Len(sent) + 1} \subseteq spoiled'
    BY DEF Tick
  <2>2. data # NoByte => data.frame \in Mistimed(now')
    BY <1>1 DEF Mistimed, Pending, CleanInv, LineInv
  <2>3. \A x \in Stamped : x.stamp = now' => x.byte.frame \in Mistimed(now')
    BY DEF Mistimed
  <2> QED
    BY <2>1, <2>2, <2>3 DEF Tick
<1>3. /\ Stamped' = Stamped /\ UnreadSlot' = UnreadSlot /\ LastByte' = LastByte
  BY <1>1, SameStamps
<1>4. /\ silence \in Nat /\ silence' \in Nat /\ silence <= FrameGap /\ silence' <= FrameGap
      /\ silence' = silence + 1 \/ (silence = FrameGap /\ silence' = FrameGap)
      /\ silence' > 0
  <2>1. silence \in Int /\ 0 <= silence /\ silence <= FrameGap
    BY Numbers DEF TypeInv, LineType
  <2>2. CASE silence < FrameGap
    <3>1. silence' = silence + 1
      BY <1>1, <2>2
    <3> QED
      BY <2>1, <2>2, <3>1, Numbers
  <2>3. CASE silence = FrameGap
    <3>1. silence' = FrameGap
      BY <1>1, <2>3, Numbers
    <3> QED
      BY <2>1, <2>3, <3>1, Numbers
  <2> QED
    BY <2>1, <2>2, <2>3, Numbers
<1>5. \A x \in Stamped :
        /\ Age(x) \in Nat /\ Age(x)' \in Nat
        /\ \/ Age(x)' = Age(x) + 1
           \/ {x.byte.frame, Len(sent), Len(sent) + 1} \subseteq spoiled'
  <2> SUFFICES ASSUME NEW x \in Stamped
               PROVE  /\ Age(x) \in Nat /\ Age(x)' \in Nat
                      /\ \/ Age(x)' = Age(x) + 1
                         \/ {x.byte.frame, Len(sent), Len(sent) + 1} \subseteq spoiled'
    OBVIOUS
  <2>1. x.stamp \in Clock /\ now \in Clock /\ now' \in Clock
    <3>1. TypeInv'
      BY TickTypes
    <3> QED
      BY <3>1, StampedTypes DEF TypeInv, NodeType
  <2>2. Age(x)' = Elapsed(x.stamp, now')
    BY DEF Age, Elapsed
  <2>3. Age(x) = Elapsed(x.stamp, now)
    BY DEF Age
  <2>4. Age(x) \in Nat /\ Age(x)' \in Nat
    BY <2>1, <2>2, <2>3, ElapsedIs
  <2>5. now' # x.stamp => Age(x)' = Age(x) + 1
    <3>1. now' = (now + 1) % Wrap
      BY <1>1
    <3>2. (now + 1) % Wrap # x.stamp =>
            Elapsed(x.stamp, (now + 1) % Wrap) = Elapsed(x.stamp, now) + 1
      BY <2>1, ElapsedTick
    <3> QED
      BY <2>2, <2>3, <3>1, <3>2
  <2> QED
    BY <1>2, <2>4, <2>5
<1>6. LineInv'
  BY <1>1, <1>4, Numbers DEF CleanInv, LineInv, MidFrame
<1>7. DataInv'
  BY <1>1, <1>2 DEF DataInv
<1>8. ByteInv'
  BY <1>1, <1>2, <1>3 DEF CleanInv, ByteInv, Clean
<1>9. OldInv'
  <2> SUFFICES ASSUME NEW x \in Stamped
               PROVE  /\ \/ Age(x)' >= silence'
                         \/ {x.byte.frame, Len(sent) + 1} \subseteq spoiled'
                      /\ x.byte.frame < Len(sent) =>
                           \/ Age(x)' >= FrameGap
                           \/ {x.byte.frame, Len(sent)} \subseteq spoiled'
    BY <1>1, <1>3 DEF OldInv
  <2>1. /\ Age(x) >= silence \/ {x.byte.frame, Len(sent) + 1} \subseteq spoiled
        /\ x.byte.frame < Len(sent) =>
             Age(x) >= FrameGap \/ {x.byte.frame, Len(sent)} \subseteq spoiled
    BY DEF CleanInv, TimeInv, OldInv
  <2> QED
    BY <1>2, <1>4, <1>5, <2>1, Numbers
<1>10. YoungInv'
  <2> SUFFICES ASSUME NEW x \in Stamped, x.byte.frame = Len(sent), Len(sent) \notin spoiled'
               PROVE  /\ x.byte.index = next => Age(x)' <= silence' \/ silence' = FrameGap
                      /\ x.byte.index + 1 = next /\ data # NoByte => Age(x)' <= InterChar
    BY <1>1, <1>3 DEF YoungInv
  <2>1. x.byte.index = next => Age(x) <= silence \/ silence = FrameGap
    BY <1>2 DEF CleanInv, TimeInv, YoungInv
  <2> QED
    BY <1>2, <1>4, <1>5, <2>1, Numbers
<1>11. GapInv'
  BY <1>1, <1>2, <1>3 DEF CleanInv, TimeInv, GapInv, Apart, Together, Elapsed
<1>12. PollInv'
  BY <1>1 DEF PollInv
<1>13. StreamInv'
  <2>1. stream' = stream
    BY <1>1
  <2> QED
    BY <1>2, <2>1, SameStream DEF CleanInv
<1>14. HeldInv'
  BY <1>1, <1>2, <1>3 DEF CleanInv, HeldInv, IsHanded, Held, Sent
<1> QED
  BY <1>6, <1>7, <1>8, <1>9, <1>10, <1>11, <1>12, <1>13, <1>14 DEF CleanInv, TimeInv

\* A byte goes out.
LEMMA SendGives ==
  ASSUME TypeInv, OrderInv, CleanInv, SendByte
  PROVE  /\ UNCHANGED <<now, armed, ring, head, tail, pc, stream, handed>>
         /\ silence \in Nat /\ silence > 0 /\ silence' = 0
         /\ Len(sent') \in Nat /\ Len(sent') > 0 /\ next' \in Nat
         /\ \/ MidFrame /\ sent' = sent /\ next' = next + 1
            \/ /\ ~ MidFrame /\ silence = FrameGap /\ next' = 1
               /\ Len(sent') = Len(sent) + 1
         /\ \A f \in 1 .. Len(sent) : sent'[f] = sent[f]
         /\ Length[sent'[Len(sent')]] \in Nat
         /\ next' > 0 /\ next' <= Length[sent'[Len(sent')]]
         /\ spoiled \subseteq spoiled'
         /\ \/ data = NoByte /\ data'.frame = Len(sent') /\ data' \in Byte
               /\ (data'.index = next' \/ (data'.index = 0 /\ Len(sent') \in spoiled'))
            \/ /\ data # NoByte /\ data' = data
               /\ {data.frame, Len(sent), Len(sent) + 1} \subseteq spoiled
<1>1. /\ sent' \in Seq(Content) /\ next' \in Nat /\ Len(sent') \in Nat /\ Len(sent') > 0
      /\ Len(sent') <= MaxFrames /\ next' \in 0 .. MaxAdu
  <2>1. TypeInv'
    BY SendTypes
  <2>2. next' > 0
    BY InsideTypes DEF SendByte
  <2> QED
    BY <2>1, <2>2, Numbers DEF TypeInv, LineType
<1>2. /\ silence \in Nat /\ silence > 0 /\ sent \in Seq(Content) /\ Len(sent) \in Nat
      /\ next \in Nat /\ (next > 0 => Len(sent) > 0)
  BY Numbers, InsideTypes DEF SendByte, TypeInv, LineType
<1>3. \E i \in {0, next'} : Receive([frame |-> Len(sent'), index |-> i])
  BY DEF SendByte
<1>4. PICK i \in {0, next'} : Receive([frame |-> Len(sent'), index |-> i])
  BY <1>3
<1> DEFINE new == [frame |-> Len(sent'), index |-> i]
<1>5. new \in Byte /\ new.frame = Len(sent') /\ new.index = i
  <2>1. Len(sent') \in 1 .. MaxFrames /\ i \in 0 .. MaxAdu
    BY <1>1, Numbers
  <2> QED
    BY <2>1 DEF Byte
<1> HIDE DEF new
<1>6. /\ UNCHANGED <<now, armed, ring, head, tail, pc, stream, handed>> /\ silence' = 0
      /\ data = NoByte => data' = new
      /\ data # NoByte => data' = data
      /\ spoiled \subseteq spoiled' /\ (i = 0 => Len(sent') \in spoiled')
  BY <1>4, <1>5 DEF Receive, buffer, main, new
<1>7. CASE MidFrame /\ sent' = sent /\ next' = next + 1
  <2>1. Len(sent) \in 1 .. Len(sent) /\ sent[Len(sent)] \in Content
    BY <1>2, <1>7 DEF MidFrame
  <2>2. next' <= Length[sent'[Len(sent')]] /\ Length[sent'[Len(sent')]] \in Nat
    <3>1. next < Length[sent[Len(sent)]] /\ Length[sent[Len(sent)]] \in Nat
      BY <1>7, <2>1, LengthTypes DEF MidFrame
    <3> QED
      BY <1>2, <1>7, <3>1
  <2>3. data # NoByte => {data.frame, Len(sent), Len(sent) + 1} \subseteq spoiled
    BY <1>2 DEF CleanInv, DataInv
  <2> QED
    BY <1>1, <1>2, <1>5, <1>6, <1>7, <2>2, <2>3
<1>8. CASE ~ MidFrame /\ silence = FrameGap /\ next' = 1
             /\ \E c \in Content : sent' = Append(sent, c)
  <2>1. PICK c \in Content : sent' = Append(sent, c)
    BY <1>8
  <2>2. Len(sent') = Len(sent) + 1 /\ \A f \in 1 .. Len(sent) : sent'[f] = sent[f]
    BY <1>2, <2>1
  <2>3. sent'[Len(sent')] = c
    BY <1>2, <2>1
  <2>4. next' <= Length[sent'[Len(sent')]] /\ Length[sent'[Len(sent')]] \in Nat
    BY <1>8, <2>3, LengthTypes
  <2>5. data # NoByte => {data.frame, Len(sent), Len(sent) + 1} \subseteq spoiled
    BY <1>2 DEF CleanInv, DataInv
  <2> QED
    BY <1>1, <1>2, <1>5, <1>6, <1>8, <2>2, <2>4, <2>5
<1> QED
  BY <1>7, <1>8 DEF SendByte

\* A byte goes out: it follows the one before it at once, or all others after a silence
\* that ends their frames.
LEMMA SendClean ==
  ASSUME TypeInv, OrderInv, CleanInv, SendByte
  PROVE  CleanInv'
<1>1. /\ UNCHANGED <<now, armed, ring, head, tail, pc, stream, handed>>
      /\ silence \in Nat /\ silence > 0 /\ silence' = 0
      /\ Len(sent') \in Nat /\ Len(sent') > 0 /\ next' \in Nat
      /\ \/ MidFrame /\ sent' = sent /\ next' = next + 1
         \/ /\ ~ MidFrame /\ silence = FrameGap /\ next' = 1
            /\ Len(sent') = Len(sent) + 1
      /\ \A f \in 1 .. Len(sent) : sent'[f] = sent[f]
      /\ Length[sent'[Len(sent')]] \in Nat
      /\ next' > 0 /\ next' <= Length[sent'[Len(sent')]]
      /\ spoiled \subseteq spoiled'
      /\ \/ data = NoByte /\ data'.frame = Len(sent') /\ data' \in Byte
            /\ (data'.index = next' \/ (data'.index = 0 /\ Len(sent') \in spoiled'))
         \/ /\ data # NoByte /\ data' = data
            /\ {data.frame, Len(sent), Len(sent) + 1} \subseteq spoiled
  BY SendGives
<1>2. /\ Len(sent) \in Nat /\ next \in Nat
      /\ Stamped' = Stamped /\ UnreadSlot' = UnreadSlot
      /\ data # NoByte => data \in Byte /\ data.frame \in 1 .. Len(sent)
  <2>1. data # NoByte => data.frame \in Nat \ {0} /\ data.frame <= Len(sent)
    BY InsideTypes, Numbers DEF OrderInv, RingOrder, Out, Byte
  <2> QED
    BY <1>1, <2>1, InsideTypes, SameStamps
<1>3. \A x \in Stamped :
        /\ x.byte.frame \in 1 .. Len(sent) /\ x.byte.index \in Nat
        /\ x.byte.frame = Len(sent) => x.byte.index <= next
        /\ Age(x) \in Nat /\ Age(x)' = Age(x)
  <2> SUFFICES ASSUME NEW x \in Stamped
               PROVE  /\ x.byte.frame \in 1 .. Len(sent) /\ x.byte.index \in Nat
                      /\ x.byte.frame = Len(sent) => x.byte.index <= next
                      /\ Age(x) \in Nat /\ Age(x)' = Age(x)
    OBVIOUS
  <2>1. Out(sent, next, x.byte) /\ x.byte.frame \in 1 .. MaxFrames /\ x.byte.index \in Nat
    BY StampedOrder, StampedTypes
  <2>2. Age(x) \in Nat
    <3>1. x.stamp \in Clock /\ now \in Clock
      BY StampedTypes DEF TypeInv, NodeType
    <3> QED
      BY <3>1, ElapsedIs DEF Age
  <2>3. Age(x)' = Age(x)
    BY <1>1 DEF Age, Elapsed
  <2> QED
    BY <1>2, <2>1, <2>2, <2>3, Numbers DEF Out
<1>4. LineInv'
  BY <1>1, Numbers DEF CleanInv, LineInv
<1>5. DataInv'
  <2>1. CASE data = NoByte
    BY <1>1, <2>1 DEF DataInv
  <2>2. CASE data # NoByte
    BY <1>1, <2>2 DEF DataInv
  <2> QED
    BY <2>1, <2>2
<1>6. ByteInv'
  <2>1. \A b : b.frame \in 1 .. Len(sent) /\ Clean(b) => Clean(b)'
    BY <1>1 DEF Clean
  <2>2. CASE data # NoByte
    BY <1>1, <1>2, <1>3, <2>1, <2>2 DEF CleanInv, ByteInv, Clean
  <2>3. CASE data = NoByte
    <3>1. Clean(data)'
      <4>1. CASE data'.index = next'
        BY <1>1, <2>3, <4>1 DEF Clean
      <4>2. CASE data'.index = 0 /\ Len(sent') \in spoiled'
        BY <1>1, <2>3, <4>2 DEF Clean
      <4> QED
        BY <1>1, <2>3, <4>1, <4>2
    <3>2. \A x \in Stamped : Clean(x.byte)'
      BY <1>3, <2>1 DEF CleanInv, ByteInv
    <3> QED
      BY <1>2, <3>1, <3>2 DEF ByteInv
  <2> QED
    BY <2>2, <2>3
<1>7. OldInv'
  <2> SUFFICES ASSUME NEW x \in Stamped
               PROVE  /\ \/ Age(x) >= silence'
                         \/ {x.byte.frame, Len(sent') + 1} \subseteq spoiled'
                      /\ x.byte.frame < Len(sent') =>
                           \/ Age(x) >= FrameGap
                           \/ {x.byte.frame, Len(sent')} \subseteq spoiled'
    BY <1>2, <1>3 DEF OldInv
  <2>1. /\ Age(x) >= silence \/ {x.byte.frame, Len(sent) + 1} \subseteq spoiled
        /\ x.byte.frame < Len(sent) =>
             Age(x) >= FrameGap \/ {x.byte.frame, Len(sent)} \subseteq spoiled
    BY DEF CleanInv, TimeInv, OldInv
  <2> QED
    BY <1>1, <1>2, <1>3, <2>1
<1>8. YoungInv'
  <2> SUFFICES ASSUME NEW x \in Stamped, x.byte.frame = Len(sent'), Len(sent') \notin spoiled'
               PROVE  /\ x.byte.index = next' => Age(x) <= silence' \/ silence' = FrameGap
                      /\ x.byte.index + 1 = next' /\ data' # NoByte => Age(x) <= InterChar
    BY <1>2, <1>3 DEF YoungInv
  <2>1. MidFrame /\ sent' = sent /\ next' = next + 1 /\ x.byte.index <= next
    BY <1>1, <1>2, <1>3
  <2>2. x.byte.index = next => Age(x) <= silence \/ silence = FrameGap
    BY <1>1, <2>1 DEF CleanInv, TimeInv, YoungInv
  <2>3. silence <= InterChar
    BY <2>1 DEF CleanInv, LineInv
  <2> QED
    BY <1>1, <1>2, <1>3, <2>1, <2>2, <2>3, Numbers
<1>9. GapInv'
  BY <1>1, <1>2 DEF CleanInv, TimeInv, GapInv, Apart, Together, Elapsed
<1>10. PollInv'
  BY <1>1, <1>2 DEF CleanInv, TimeInv, PollInv
<1>11. StreamInv'
  BY <1>1, SameStream DEF CleanInv
<1>12. HeldInv'
  <2> SUFFICES ASSUME NEW n \in (1 .. Len(sent')) \ spoiled', ~ IsHanded(n)',
                      NEW k \in 1 .. Sent(n)'
               PROVE  [frame |-> n, index |-> k] \in Held'
    BY DEF HeldInv
  <2>1. \A b \in Held : b # NoByte => b \in Held'
    BY <1>1, <1>2 DEF Held
  <2>2. [frame |-> n, index |-> k] # NoByte
    BY <1>1 DEF NoByte
  <2>3. \A j \in 1 .. Sent(n) : n \in 1 .. Len(sent) => [frame |-> n, index |-> j] \in Held
    BY <1>1 DEF CleanInv, HeldInv, IsHanded
  <2>4. CASE n = Len(sent') /\ k = next'
    <3>1. data = NoByte /\ data' = [frame |-> n, index |-> k]
      BY <1>1, <1>2, <2>4 DEF Byte
    <3> QED
      BY <3>1 DEF Held
  <2>5. CASE n # Len(sent') \/ k # next'
    <3>1. n \in 1 .. Len(sent) /\ k \in 1 .. Sent(n)
      <4>1. n \in Nat /\ n > 0 /\ n <= Len(sent') /\ k \in Int /\ k > 0 /\ k <= Sent(n)'
        <5>1. Sent(n)' \in Int
          <6>1. n \in DOMAIN sent'
            BY <1>1
          <6>2. sent' \in Seq(Content)
            <7>1. TypeInv'
              BY SendTypes
            <7> QED
              BY <7>1 DEF TypeInv, LineType
          <6>3. Length[sent'[n]] \in Int
            BY <6>1, <6>2, LengthTypes
          <6> QED
            BY <1>1, <6>3 DEF Sent
        <5> QED
          BY <1>1, <5>1
      <4>2. CASE n = Len(sent')
        <5>1. k < next'
          BY <1>1, <2>5, <4>1, <4>2 DEF Sent
        <5> QED
          BY <1>1, <1>2, <4>1, <4>2, <5>1 DEF Sent
      <4>3. CASE n # Len(sent') /\ sent' = sent
        BY <1>1, <1>2, <4>1, <4>3 DEF Sent
      <4>4. CASE n # Len(sent') /\ ~ MidFrame /\ Len(sent') = Len(sent) + 1
        <5>1. n \in 1 .. Len(sent) /\ sent'[n] = sent[n]
          BY <1>1, <1>2, <4>1, <4>4
        <5>2. Sent(n)' = Length[sent[n]]
          BY <4>4, <5>1 DEF Sent
        <5>3. n = Len(sent) => Length[sent[n]] <= next
          <6>1. next > 0 <=> Len(sent) > 0
            BY DEF TypeInv, LineType
          <6>2. Length[sent[n]] \in Nat
            BY <5>1, InsideTypes, LengthTypes
          <6> QED
            BY <1>2, <4>4, <5>1, <6>1, <6>2 DEF MidFrame
        <5>4. Length[sent[n]] \in Nat
          BY <5>1, InsideTypes, LengthTypes
        <5> QED
          BY <1>2, <4>1, <5>1, <5>2, <5>3, <5>4 DEF Sent
      <4> QED
        BY <1>1, <4>2, <4>3, <4>4
    <3> QED
      BY <2>1, <2>2, <2>3, <3>1
  <2> QED
    BY <2>4, <2>5
<1> QED
  BY <1>4, <1>5, <1>6, <1>7, <1>8, <1>9, <1>10, <1>11, <1>12 DEF CleanInv, TimeInv

\* A byte gets its time stamp.
LEMMA StoreStamps ==
  ASSUME TypeInv, Interrupt, ~ RingFull
  PROVE  /\ Stamped' = Stamped \cup {[byte |-> data, stamp |-> now]}
         /\ UnreadSlot' = UnreadSlot \cup {head} /\ spoiled' = spoiled
         /\ ring'[head] = [byte |-> data, stamp |-> now]
         /\ \A i \in UnreadSlot : ring'[i] = ring[i]
<1>1. /\ ring' = [ring EXCEPT ![head] = [byte |-> data, stamp |-> now]]
      /\ head' = NextIndex(head) /\ UNCHANGED <<tail, spoiled, stream>>
  BY DEF Interrupt, Store, main
<1>2. UnreadSlot' = UnreadSlot \cup {head} /\ head \notin UnreadSlot
  BY <1>1, InsideTypes, StoreSlots
<1>3. /\ ring'[head] = [byte |-> data, stamp |-> now]
      /\ \A i \in UnreadSlot : ring'[i] = ring[i]
  BY <1>1, <1>2, InsideTypes
<1>4. {ring'[i] : i \in UnreadSlot'}
        = {ring[i] : i \in UnreadSlot} \cup {[byte |-> data, stamp |-> now]}
  BY <1>2, <1>3
<1>5. LastByte' = LastByte
  BY <1>1 DEF LastByte
<1> QED
  BY <1>1, <1>2, <1>3, <1>4, <1>5 DEF Stamped

\* The byte in the data register gets its time stamp, or is dropped.
LEMMA InterruptClean ==
  ASSUME TypeInv, OrderInv, CleanInv, Interrupt
  PROVE  CleanInv'
<1>1. /\ data # NoByte /\ data' = NoByte /\ armed' = TRUE
      /\ UNCHANGED <<now, sent, next, silence, pc, stream, handed, tail>>
  BY DEF Interrupt, Pending, Rearm, line, main, Store, buffer
<1>2. /\ Len(sent) \in Nat /\ next \in Nat /\ silence \in Nat /\ now \in Clock
      /\ data \in Byte /\ data.frame \in 1 .. Len(sent) /\ data.index \in Nat
  <2>1. data.frame \in Nat \ {0} /\ data.frame <= Len(sent) /\ data.index \in Nat
    BY <1>1, InsideTypes, Numbers DEF OrderInv, RingOrder, Out, Byte
  <2>2. silence \in Nat /\ now \in Clock
    BY Numbers DEF TypeInv, LineType, NodeType
  <2> QED
    BY <1>1, <2>1, <2>2, InsideTypes
<1>3. LineInv' /\ DataInv'
  BY <1>1 DEF CleanInv, LineInv, DataInv, MidFrame
<1>4. \A x : Age(x)' = Age(x)
  BY <1>1 DEF Age, Elapsed
<1>5. CASE RingFull
  <2>1. UNCHANGED <<ring, head>> /\ spoiled' = spoiled \cup {data.frame}
    BY <1>5 DEF Interrupt, Store, buffer
  <2>2. Stamped' = Stamped /\ UnreadSlot' = UnreadSlot
    BY <1>1, <2>1, SameStamps
  <2>3. ByteInv'
    BY <1>1, <2>1, <2>2 DEF CleanInv, ByteInv, Clean
  <2>4. OldInv' /\ YoungInv'
    BY <1>1, <1>4, <2>1, <2>2 DEF CleanInv, TimeInv, OldInv, YoungInv
  <2>5. GapInv' /\ PollInv'
    BY <1>1, <2>1, <2>2 DEF CleanInv, TimeInv, GapInv, Apart, Together, Elapsed, PollInv
  <2>6. StreamInv'
    BY <1>1, <2>1, SameStream DEF CleanInv
  <2>7. HeldInv'
    <3> SUFFICES ASSUME NEW n \in (1 .. Len(sent)) \ spoiled', ~ IsHanded(n),
                        NEW k \in 1 .. Sent(n)
                 PROVE  [frame |-> n, index |-> k] \in Held'
      BY <1>1 DEF HeldInv, IsHanded, Sent
    <3>1. [frame |-> n, index |-> k] \in Held /\ [frame |-> n, index |-> k] # data
      BY <2>1 DEF CleanInv, HeldInv
    <3> QED
      BY <1>1, <2>1, <2>2, <3>1 DEF Held
  <2> QED
    BY <1>3, <2>3, <2>4, <2>5, <2>6, <2>7 DEF CleanInv, TimeInv
<1>6. CASE ~ RingFull
  <2> DEFINE z == [byte |-> data, stamp |-> now]
  <2>1. /\ Stamped' = Stamped \cup {z} /\ UnreadSlot' = UnreadSlot \cup {head}
        /\ spoiled' = spoiled /\ ring'[head] = z
        /\ \A i \in UnreadSlot : ring'[i] = ring[i]
    BY <1>6, StoreStamps
  <2>2. z.byte = data /\ z.stamp = now /\ Age(z) = 0 /\ Elapsed(z.stamp, z.stamp) = 0
    BY <1>2, ElapsedIs DEF Age
  <2> HIDE DEF z
  <2>3. \A x \in Stamped :
          /\ x.byte \in Byte /\ x.byte.frame \in Nat /\ x.byte.index \in Nat
          /\ Before(x.byte, data) /\ Elapsed(x.stamp, z.stamp) = Age(x)
    BY <1>1, <2>2, StampedTypes, StampedOrder DEF Age
  <2>4. DataInv /\ ByteInv /\ OldInv /\ YoungInv /\ GapInv
    BY DEF CleanInv, TimeInv
  <2>5. ByteInv'
    <3>1. \A b : Clean(b)' <=> Clean(b)
      BY <1>1, <2>1 DEF Clean
    <3> QED
      BY <1>1, <2>1, <2>2, <2>4, <3>1 DEF ByteInv
  <2>6. OldInv'
    <3>1. /\ Age(z) >= silence \/ {data.frame, Len(sent) + 1} \subseteq spoiled
          /\ data.frame < Len(sent) =>
               Age(z) >= FrameGap \/ {data.frame, Len(sent)} \subseteq spoiled
      BY <1>1, <1>2, <2>2, <2>4 DEF DataInv
    <3> QED
      BY <1>1, <1>4, <2>1, <2>2, <2>4, <3>1 DEF OldInv
  <2>7. YoungInv'
    <3>1. Age(z) <= silence
      BY <1>2, <2>2
    <3> QED
      BY <1>1, <1>4, <2>1, <2>4, <3>1 DEF YoungInv
  <2>8. GapInv'
    <3>1. ASSUME NEW x \in Stamped
          PROVE  Apart(x, z) /\ Together(x, z)
      <4>1. Apart(x, z)
        <5> SUFFICES ASSUME x.byte.frame < data.frame
                     PROVE  Age(x) >= FrameGap \/ {x.byte.frame, data.frame} \subseteq spoiled
          BY <2>2, <2>3 DEF Apart
        <5>1. x.byte.frame < Len(sent)
          BY <1>2, <2>3
        <5>2. Age(x) >= FrameGap \/ {x.byte.frame, Len(sent)} \subseteq spoiled
          BY <2>4, <5>1 DEF OldInv
        <5>3. data.frame \in spoiled \/ data.frame = Len(sent)
          BY <1>1, <2>4 DEF DataInv
        <5> QED
          BY <5>2, <5>3
      <4>2. Together(x, z)
        <5> SUFFICES ASSUME x.byte.frame = data.frame, x.byte.frame \notin spoiled,
                            data.index = x.byte.index + 1
                     PROVE  Age(x) <= InterChar
          BY <2>2, <2>3 DEF Together
        <5>1. data.frame = Len(sent) /\ data.index = next
          BY <1>1, <2>4 DEF DataInv
        <5> QED
          BY <1>1, <2>4, <5>1 DEF YoungInv
      <4> QED
        BY <4>1, <4>2
    <3>2. ASSUME NEW x \in Stamped
          PROVE  Apart(z, x) /\ Together(z, x)
      <4>1. ~ (data.frame < x.byte.frame)
        BY <1>2, <2>3 DEF Before
      <4>2. data.frame = x.byte.frame /\ data.frame \notin spoiled =>
              x.byte.index # data.index + 1
        BY <1>1, <1>2, <2>3, <2>4 DEF Before, ByteInv, Clean
      <4> QED
        BY <2>2, <4>1, <4>2 DEF Apart, Together
    <3>3. Apart(z, z) /\ Together(z, z)
      BY <1>2, <2>2 DEF Apart, Together
    <3>4. \A x, y \in Stamped \cup {z} : Apart(x, y) /\ Together(x, y)
      BY <2>4, <3>1, <3>2, <3>3 DEF GapInv
    <3>5. \A x, y : Apart(x, y)' <=> Apart(x, y)
      BY <2>1 DEF Apart, Elapsed
    <3>6. \A x, y : Together(x, y)' <=> Together(x, y)
      BY <2>1 DEF Together, Elapsed
    <3> QED
      BY <2>1, <3>4, <3>5, <3>6 DEF GapInv
  <2>9. PollInv'
    BY <1>1, <2>1, <2>2 DEF CleanInv, TimeInv, PollInv
  <2>10. StreamInv'
    BY <1>1, <2>1, SameStream DEF CleanInv
  <2>11. HeldInv'
    <3>1. \A b \in Held : b \in Held'
      BY <1>1, <2>1, <2>2 DEF Held
    <3> QED
      BY <1>1, <2>1, <3>1 DEF CleanInv, HeldInv, IsHanded, Sent
  <2> QED
    BY <1>3, <2>5, <2>6, <2>7, <2>8, <2>9, <2>10, <2>11 DEF CleanInv, TimeInv
<1> QED
  BY <1>5, <1>6

\* What the time between two bytes says of them.
LEMMA FeedDecides ==
  ASSUME NEW s \in Frames, NEW b \in Byte, NEW at \in Clock
  PROVE  /\ s.current = <<>> =>
              /\ Feed(s, b, at).status = "NO_FRAME"
              /\ Feed(s, b, at).stream.current = <<b>>
         /\ s.current # <<>> /\ Elapsed(s.stamp, at) >= FrameGap =>
              /\ Feed(s, b, at).status = "FRAME_READY"
              /\ Feed(s, b, at).stream.completed = s.current
              /\ Feed(s, b, at).stream.current = <<b>>
         /\ s.current # <<>> /\ Elapsed(s.stamp, at) <= InterChar
                /\ Len(s.current) < MaxAdu =>
              /\ Feed(s, b, at).status = "NO_FRAME"
              /\ Feed(s, b, at).stream.current = Append(s.current, b)
         /\ Feed(s, b, at).status # "OVERFLOW" => Feed(s, b, at).stream.stamp = at
         /\ Feed(s, b, at).status # "BUSY"
<1> DEFINE started == StartFrame(s, b, at)
           done == StartFrame(Complete(s), b, at)
           longer == [s EXCEPT !.current = Append(@, b), !.stamp = at]
           dropped == [s EXCEPT !.current = <<>>]
           elapsed == Elapsed(s.stamp, at)
<1>1. s \in Stream /\ ~ s.ready /\ s.stamp \in Clock /\ Len(s.current) \in Nat
  BY DEF Frames, Stream
<1>2. elapsed \in Nat
  BY <1>1, ElapsedIs
<1>3. started.current = <<b>> /\ started.stamp = at
  BY <1>1 DEF StartFrame, Stream
<1>4. longer.current = Append(s.current, b) /\ longer.stamp = at
  BY <1>1 DEF Stream
<1>5. done.current = <<b>> /\ done.stamp = at /\ done.completed = s.current
  BY DEF StartFrame, Complete
<1>6. \A x, st : Result(x, st).stream = x /\ Result(x, st).status = st
  BY DEF Result
<1> HIDE DEF started, done, longer, elapsed, dropped
<1>7. Feed(s, b, at) =
        IF s.current = <<>> THEN Result(started, "NO_FRAME")
        ELSE IF elapsed >= FrameGap THEN Result(done, "FRAME_READY")
        ELSE IF elapsed > InterChar THEN Result(started, "INTERCHAR_TIMEOUT")
        ELSE IF Len(s.current) >= MaxAdu THEN Result(dropped, "OVERFLOW")
        ELSE Result(longer, "NO_FRAME")
  BY <1>1, Zenon DEF Feed, started, done, longer, elapsed, dropped
<1>8. CASE s.current = <<>>
  BY <1>3, <1>6, <1>7, <1>8
<1>9. CASE s.current # <<>> /\ elapsed >= FrameGap
  <2>1. Feed(s, b, at) = Result(done, "FRAME_READY")
    BY <1>7, <1>9
  <2>2. ~ (elapsed <= InterChar)
    BY <1>2, <1>9, Numbers
  <2> QED
    BY <1>5, <1>6, <1>9, <2>1, <2>2 DEF elapsed
<1>10. CASE s.current # <<>> /\ ~ (elapsed >= FrameGap) /\ elapsed > InterChar
  <2>1. Feed(s, b, at) = Result(started, "INTERCHAR_TIMEOUT")
    BY <1>7, <1>10
  <2>2. ~ (elapsed <= InterChar)
    BY <1>2, <1>10, Numbers
  <2> QED
    BY <1>3, <1>6, <1>10, <2>1, <2>2 DEF elapsed
<1>11. CASE s.current # <<>> /\ ~ (elapsed >= FrameGap) /\ ~ (elapsed > InterChar)
              /\ Len(s.current) >= MaxAdu
  <2>1. Feed(s, b, at) = Result(dropped, "OVERFLOW")
    BY <1>7, <1>11
  <2>2. ~ (Len(s.current) < MaxAdu)
    BY <1>1, <1>11, Numbers
  <2> QED
    BY <1>6, <1>11, <2>1, <2>2 DEF elapsed
<1>12. CASE s.current # <<>> /\ ~ (elapsed >= FrameGap) /\ ~ (elapsed > InterChar)
              /\ ~ (Len(s.current) >= MaxAdu)
  <2>1. Feed(s, b, at) = Result(longer, "NO_FRAME")
    BY <1>7, <1>12
  <2> QED
    BY <1>4, <1>6, <1>12, <2>1 DEF elapsed
<1> QED
  BY <1>8, <1>9, <1>10, <1>11, <1>12

\* What the stream holds after the oldest byte was fed to it.
LEMMA PopGives ==
  ASSUME TypeInv, PopEnd
  PROVE  /\ stream'.current # <<>> => stream'.stamp = item.stamp
         /\ stream.current = <<>> => stream'.current = <<item.byte>>
         /\ stream.current # <<>> /\ Elapsed(stream.stamp, item.stamp) >= FrameGap =>
              /\ stream'.current = <<item.byte>>
              /\ Whole(stream.current) => handed' = Append(handed, LastByte.frame)
         /\ stream.current # <<>> /\ Elapsed(stream.stamp, item.stamp) <= InterChar
                /\ Len(stream.current) < MaxAdu =>
              stream'.current = Append(stream.current, item.byte)
         /\ pc' # "poll"
<1> DEFINE fed == Feed(stream, item.byte, item.stamp)
<1>1. stream \in Frames /\ item.byte \in Byte /\ item.stamp \in Clock
  BY PopTypes DEF TypeInv, MainType, Item
<1>2. CASE fed.status = "FRAME_READY"
  <2>1. HandOver(fed.stream) /\ fed.stream.completed = stream.current
    <3>1. HandOver(fed.stream)
      BY <1>2 DEF PopEnd
    <3>2. fed.stream.completed = stream.current
      BY <1>1, <1>2, FeedGives
    <3> QED
      BY <3>1, <3>2
  <2>2. fed.stream.stamp = item.stamp
    BY <1>1, <1>2, FeedDecides
  <2>3. stream.current # <<>> /\ Take(fed.stream).current = <<item.byte>>
    BY <1>1, <1>2, FeedGives
  <2>4. ~ (Elapsed(stream.stamp, item.stamp) <= InterChar /\ Len(stream.current) < MaxAdu)
    BY <1>1, <1>2, <2>3, FeedDecides
  <2>5. Take(fed.stream).stamp = fed.stream.stamp
    <3> HIDE DEF fed
    <3>1. fed.stream \in Stream => Take(fed.stream).stamp = fed.stream.stamp
      BY TakeTypes
    <3>2. fed.stream \in Stream
      <4>1. stream \in Stream /\ <<item.byte>> \in Seq(Byte)
        BY <1>1 DEF Frames
      <4>2. Complete(stream) \in Stream
        BY <4>1, Numbers DEF Complete, Stream
      <4>3. /\ StartFrame(stream, item.byte, item.stamp) \in Stream
            /\ StartFrame(Complete(stream), item.byte, item.stamp) \in Stream
        BY <1>1, <4>1, <4>2 DEF StartFrame, Stream
      <4>4. fed = Result(StartFrame(Complete(stream), item.byte, item.stamp), "FRAME_READY")
        <5>1. stream.ready = FALSE
          BY <1>1 DEF Frames, Stream
        <5> QED
          BY <1>2, <5>1 DEF fed, Feed, Result
      <4> QED
        BY <4>3, <4>4 DEF Result
    <3> QED
      BY <3>1, <3>2
  <2> HIDE DEF fed
  <2> QED
    BY <2>1, <2>2, <2>3, <2>4, <2>5 DEF HandOver, LastByte
<1>3. CASE fed.status # "FRAME_READY"
  <2>1. /\ stream' = IF fed.status = "OVERFLOW" THEN NoStream ELSE fed.stream
        /\ pc' = IF fed.status = "BUSY" THEN "poll" ELSE "pop"
    BY <1>3 DEF PopEnd
  <2>2. NoStream.current = <<>>
    BY DEF NoStream
  <2>3. /\ stream.current = <<>> =>
             fed.status = "NO_FRAME" /\ fed.stream.current = <<item.byte>>
        /\ ~ (stream.current # <<>> /\ Elapsed(stream.stamp, item.stamp) >= FrameGap)
        /\ stream.current # <<>> /\ Elapsed(stream.stamp, item.stamp) <= InterChar
               /\ Len(stream.current) < MaxAdu =>
             /\ fed.status = "NO_FRAME"
             /\ fed.stream.current = Append(stream.current, item.byte)
        /\ fed.status # "OVERFLOW" => fed.stream.stamp = item.stamp
        /\ fed.status # "BUSY"
    BY <1>1, <1>3, FeedDecides
  <2> HIDE DEF fed
  <2> QED
    BY <2>1, <2>2, <2>3
<1> QED
  BY <1>2, <1>3

\* What it holds after a look at the clock.
LEMMA PollDecides ==
  ASSUME TypeInv, PollStream
  PROVE  \/ /\ stream.current # <<>> /\ Elapsed(stream.stamp, now) >= FrameGap
            /\ stream'.current = <<>>
            /\ Whole(stream.current) => handed' = Append(handed, LastByte.frame)
         \/ stream' = stream /\ handed' = handed
<1> DEFINE polled == Poll(stream, now)
<1>1. stream \in Frames /\ now \in Clock /\ ~ stream.ready
  BY DEF TypeInv, MainType, NodeType, Frames
<1>2. CASE polled.status = "FRAME_READY"
  <2>1. HandOver(polled.stream)
    BY <1>2 DEF PollStream
  <2>2. /\ stream.current # <<>> /\ polled.stream.completed = stream.current
        /\ Take(polled.stream).current = <<>>
    BY <1>1, <1>2, PollGives
  <2>3. Elapsed(stream.stamp, now) >= FrameGap
    BY <1>1, <1>2 DEF Poll, Result
  <2> HIDE DEF polled
  <2> QED
    BY <2>1, <2>2, <2>3 DEF HandOver, LastByte
<1>3. CASE polled.status # "FRAME_READY"
  BY <1>3 DEF PollStream
<1> QED
  BY <1>2, <1>3

\* A frame up to a byte has that byte's index for its length.
LEMMA UpToIs ==
  ASSUME NEW b \in Byte
  PROVE  /\ UpTo(b) \in Seq(Byte) /\ Len(UpTo(b)) = b.index
         /\ DOMAIN UpTo(b) = 1 .. b.index
         /\ \A k \in 1 .. b.index : UpTo(b)[k] = [frame |-> b.frame, index |-> k]
<1>1. b.index \in Nat /\ b.index <= MaxAdu /\ b.frame \in 1 .. MaxFrames
  BY Numbers DEF Byte
<1>2. \A k \in 1 .. b.index : [frame |-> b.frame, index |-> k] \in Byte
  BY <1>1, Numbers DEF Byte
<1>3. UpTo(b) \in [1 .. b.index -> Byte]
  BY <1>2 DEF UpTo
<1>4. UpTo(b) \in Seq(Byte) /\ Len(UpTo(b)) = b.index
  BY <1>1, <1>3
<1> QED
  BY <1>3, <1>4 DEF UpTo

\* A frame grows by its next byte.
LEMMA UpToGrows ==
  ASSUME NEW a \in Byte, NEW b \in Byte
  PROVE  /\ b.index = 1 => <<b>> = UpTo(b)
         /\ a.frame = b.frame /\ b.index = a.index + 1 => Append(UpTo(a), b) = UpTo(b)
<1>1. /\ a.index \in Nat /\ b.index \in Nat
      /\ b = [frame |-> b.frame, index |-> b.index]
  BY Numbers DEF Byte
<1>2. /\ UpTo(b) \in Seq(Byte) /\ Len(UpTo(b)) = b.index
      /\ DOMAIN UpTo(b) = 1 .. b.index
      /\ \A k \in 1 .. b.index : UpTo(b)[k] = [frame |-> b.frame, index |-> k]
  BY UpToIs
<1>3. /\ UpTo(a) \in Seq(Byte) /\ Len(UpTo(a)) = a.index
      /\ \A k \in 1 .. a.index : UpTo(a)[k] = [frame |-> a.frame, index |-> k]
  BY UpToIs
<1>4. ASSUME b.index = 1 PROVE <<b>> = UpTo(b)
  <2>1. UpTo(b)[1] = b
    BY <1>1, <1>2, <1>4
  <2> QED
    BY <1>2, <1>4, <2>1
<1>5. ASSUME a.frame = b.frame, b.index = a.index + 1
      PROVE  Append(UpTo(a), b) = UpTo(b)
  <2> DEFINE longer == Append(UpTo(a), b)
  <2>1. /\ longer \in Seq(Byte) /\ Len(longer) = a.index + 1
        /\ \A k \in 1 .. a.index : longer[k] = UpTo(a)[k]
        /\ longer[a.index + 1] = b
    BY <1>3
  <2> HIDE DEF longer
  <2>2. \A k \in 1 .. b.index : longer[k] = UpTo(b)[k]
    <3> SUFFICES ASSUME NEW k \in 1 .. b.index PROVE longer[k] = UpTo(b)[k]
      OBVIOUS
    <3>1. CASE k = b.index
      BY <1>1, <1>2, <1>5, <2>1, <3>1
    <3>2. CASE k # b.index
      <4>1. k \in 1 .. a.index
        BY <1>1, <1>5, <3>2
      <4>2. longer[k] = UpTo(a)[k] /\ UpTo(a)[k] = [frame |-> a.frame, index |-> k]
        BY <1>3, <2>1, <4>1
      <4>3. UpTo(b)[k] = [frame |-> b.frame, index |-> k]
        BY <1>2
      <4> QED
        BY <1>5, <4>2, <4>3
    <3> QED
      BY <3>1, <3>2
  <2> QED
    BY <1>2, <1>5, <2>1, <2>2 DEF longer
<1> QED
  BY <1>4, <1>5

\* A clean frame that has come to its end is whole.
LEMMA WholeUpTo ==
  ASSUME NEW b \in Byte, sent[b.frame] \in Content, b.index = Length[sent[b.frame]]
  PROVE  Whole(UpTo(b))
<1>1. Len(UpTo(b)) = Length[sent[b.frame]]
  BY UpToIs
<1>2. \A i \in DOMAIN UpTo(b) :
        UpTo(b)[i].index = i /\ sent[UpTo(b)[i].frame] = sent[b.frame]
  <2> SUFFICES ASSUME NEW i \in DOMAIN UpTo(b)
               PROVE  UpTo(b)[i].index = i /\ UpTo(b)[i].frame = b.frame
    OBVIOUS
  <2>1. UpTo(b)[i] = [frame |-> b.frame, index |-> i]
    BY UpToIs
  <2> QED
    BY <2>1
<1> QED
  BY <1>1, <1>2 DEF Whole

\* A byte that is inside and clean belongs to a frame that was not handed over.
LEMMA StampedLeft ==
  ASSUME TypeInv, OrderInv, CleanInv, NEW x \in Stamped, x.byte.frame \notin spoiled
  PROVE  /\ ~ IsHanded(x.byte.frame)
         /\ x.byte.frame \in 1 .. Len(sent) /\ sent[x.byte.frame] \in Content
         /\ x.byte.index \in 1 .. Sent(x.byte.frame) /\ Sent(x.byte.frame) \in Nat
         /\ Length[sent[x.byte.frame]] \in 1 .. MaxAdu
         /\ x.byte.index <= Length[sent[x.byte.frame]]
<1>1. /\ x.byte.frame \in Nat \ {0} /\ x.byte.index \in Nat
      /\ Out(sent, next, x.byte) /\ Later(handed, sent, x.byte)
      /\ Len(sent) \in Nat /\ next \in Nat /\ sent \in Seq(Content)
  BY StampedTypes, StampedOrder, InsideTypes, Numbers
<1>2. Clean(x.byte)
  BY DEF CleanInv, ByteInv
<1>3. x.byte.index >= 1 /\ x.byte.index <= Length[sent[x.byte.frame]]
  BY <1>2 DEF Clean
<1>4. x.byte.frame \in 1 .. Len(sent)
  BY <1>1 DEF Out
<1>5. sent[x.byte.frame] \in Content
  BY <1>1, <1>4
<1>6. Length[sent[x.byte.frame]] \in 1 .. MaxAdu
  BY <1>5, LengthTypes
<1>7. ~ IsHanded(x.byte.frame)
  BY <1>1, <1>3, <1>6, Numbers DEF Later, IsHanded
<1>8. x.byte.index \in 1 .. Sent(x.byte.frame) /\ Sent(x.byte.frame) \in Nat
  BY <1>1, <1>3, <1>4, <1>6, Numbers DEF Sent, Out
<1> QED
  BY <1>3, <1>4, <1>5, <1>6, <1>7, <1>8

\* What the stream holds of a clean frame is all that was received of it so far.
LEMMA StreamHolds ==
  ASSUME TypeInv, OrderInv, CleanInv, NEW b \in Held, b # NoByte, b.frame \notin spoiled,
         b \notin {ring[i].byte : i \in UnreadSlot}, b # data
  PROVE  /\ stream.current # <<>> /\ LastByte.frame = b.frame
         /\ LastByte.frame \notin spoiled /\ stream.current = UpTo(LastByte)
         /\ LastByte \in Byte /\ b.index \in 1 .. LastByte.index
<1>1. PICK k \in DOMAIN stream.current : b = stream.current[k]
  BY DEF Held
<1>2. stream.current # <<>> /\ LastByte \in Byte
  BY <1>1, InsideTypes
<1>3. LastByte.frame \notin spoiled /\ stream.current = UpTo(LastByte)
  BY <1>1, <1>2 DEF CleanInv, StreamInv
<1>4. b.frame = LastByte.frame /\ b.index \in 1 .. LastByte.index
  <2>1. k \in 1 .. LastByte.index /\ UpTo(LastByte)[k] = [frame |-> LastByte.frame, index |-> k]
    BY <1>1, <1>2, <1>3, UpToIs
  <2> QED
    BY <1>1, <1>3, <2>1
<1> QED
  BY <1>2, <1>3, <1>4

\* The oldest byte of the ring becomes the last of the stream, if it is kept.
LEMMA PopStamps ==
  ASSUME TypeInv, OrderInv, PopEnd
  PROVE  /\ item = ring[tail] /\ item \in Stamped /\ item.byte \in Byte
         /\ UnreadSlot' = UnreadSlot \ {tail} /\ tail \in UnreadSlot
         /\ \A i \in UnreadSlot' : ring'[i] = ring[i] /\ Before(item.byte, ring[i].byte)
         /\ data # NoByte => Before(item.byte, data)
         /\ stream.current # <<>> => Before(LastByte, item.byte)
         /\ stream'.current # <<>> => LastByte' = item.byte
         /\ Stamped' \subseteq Stamped
         /\ UNCHANGED <<now, sent, next, silence, data, armed, spoiled>>
<1>1. /\ tail # head /\ tail' = NextIndex(tail) /\ ring' = [ring EXCEPT ![tail] = NoItem]
      /\ UNCHANGED <<now, sent, next, silence, data, armed, head, spoiled>>
  BY DEF PopEnd, TypeInv, MainType, line, usart
<1>2. /\ UnreadSlot' = UnreadSlot \ {tail} /\ tail \in UnreadSlot
      /\ \A i \in UnreadSlot \ {tail} : Pos(tail) < Pos(i)
  BY <1>1, InsideTypes, PopSlots
<1>3. /\ item = ring[tail] /\ item.byte \in Byte /\ item \in Item
      /\ \/ stream'.current = <<>>
         \/ stream'.current = <<item.byte>>
         \/ stream'.current = Append(stream.current, item.byte)
  BY PopTypes DEF TypeInv, MainType
<1>4. \A i \in UnreadSlot' : ring'[i] = ring[i] /\ Before(item.byte, ring[i].byte)
  BY <1>1, <1>2, <1>3, InsideTypes DEF OrderInv, RingOrder
<1>5. /\ data # NoByte => Before(item.byte, data)
      /\ stream.current # <<>> => Before(LastByte, item.byte)
  BY <1>2, <1>3 DEF OrderInv, RingOrder, StreamOrder
<1>6. stream'.current # <<>> => LastByte' = item.byte
  <2>1. stream.current \in Seq(Byte)
    BY DEF TypeInv, MainType, Frames, Stream
  <2> QED
    BY <1>3, <2>1 DEF LastByte
<1>7. item \in Stamped
  BY <1>2, <1>3 DEF Stamped
<1>8. Stamped' \subseteq Stamped
  <2>1. {ring'[i] : i \in UnreadSlot'} \subseteq Stamped
    BY <1>2, <1>4 DEF Stamped
  <2>2. stream'.current # <<>> =>
          [byte |-> LastByte', stamp |-> stream'.stamp] = item
    BY <1>3, <1>6, PopGives DEF Item
  <2>3. Stamped' = {ring'[i] : i \in UnreadSlot'}
                     \cup (IF stream'.current = <<>> THEN {}
                           ELSE {[byte |-> LastByte', stamp |-> stream'.stamp]})
    BY DEF Stamped
  <2> QED
    BY <1>7, <2>1, <2>2, <2>3
<1> QED
  BY <1>1, <1>2, <1>3, <1>4, <1>5, <1>6, <1>7, <1>8

\* The byte received last is among the stamped.
LEMMA LastStamped ==
  ASSUME TypeInv, stream.current # <<>>
  PROVE  /\ [byte |-> LastByte, stamp |-> stream.stamp] \in Stamped
         /\ LastByte \in Byte /\ stream.stamp \in Clock
  BY InsideTypes DEF Stamped, TypeInv, MainType, Frames, Stream

\* What is not in the stream comes after the byte that is being fed, or is that byte.
LEMMA HeldLater ==
  ASSUME TypeInv, OrderInv, CleanInv, PopEnd, NEW b \in Held, b # NoByte
  PROVE  \/ b = item.byte
         \/ Before(item.byte, b) /\ b \in Held'
         \/ b \notin {ring[i].byte : i \in UnreadSlot} /\ b # data
<1>1. CASE b \in {ring[i].byte : i \in UnreadSlot}
  <2>1. PICK i \in UnreadSlot : b = ring[i].byte
    BY <1>1
  <2>2. CASE i = tail
    BY <2>1, <2>2, PopStamps
  <2>3. CASE i # tail
    <3>1. i \in UnreadSlot' /\ ring'[i] = ring[i] /\ Before(item.byte, ring[i].byte)
      BY <2>3, PopStamps
    <3> QED
      BY <2>1, <3>1 DEF Held
  <2> QED
    BY <2>2, <2>3
<1>2. CASE b = data
  BY <1>2, PopStamps DEF Held
<1> QED
  BY <1>1, <1>2

\* A clean byte continues its frame in the stream, or begins it.
LEMMA FeedClean ==
  ASSUME TypeInv, OrderInv, CleanInv, PopEnd, item.byte.frame \notin spoiled
  PROVE  stream'.current = UpTo(item.byte)
<1> DEFINE y == item.byte
           last == [byte |-> LastByte, stamp |-> stream.stamp]
<1>1. /\ y \in Byte /\ item \in Stamped /\ y.frame \in Nat /\ y.index \in Nat \ {0}
      /\ ~ IsHanded(y.frame) /\ y.frame \in 1 .. Len(sent) /\ y.index \in 1 .. Sent(y.frame)
      /\ Sent(y.frame) \in Nat /\ y.index <= MaxAdu
  <2>1. item \in Stamped /\ y \in Byte
    BY PopStamps
  <2>2. /\ ~ IsHanded(y.frame) /\ y.frame \in 1 .. Len(sent)
        /\ y.index \in 1 .. Sent(y.frame) /\ Sent(y.frame) \in Nat
        /\ Length[sent[y.frame]] \in 1 .. MaxAdu /\ y.index <= Length[sent[y.frame]]
    BY <2>1, StampedLeft
  <2> QED
    BY <2>1, <2>2, Numbers DEF Byte
<1>2. ASSUME NEW k \in Nat \ {0}, k < y.index
      PROVE  /\ stream.current # <<>> /\ LastByte.frame = y.frame /\ LastByte \in Byte
             /\ stream.current = UpTo(LastByte) /\ k \in 1 .. LastByte.index
  <2> DEFINE b == [frame |-> y.frame, index |-> k]
  <2>1. b \in Held
    <3>1. k \in 1 .. Sent(y.frame)
      BY <1>1, <1>2
    <3> QED
      BY <1>1, <3>1 DEF CleanInv, HeldInv
  <2>2. b # NoByte /\ b # y /\ ~ Before(y, b)
    BY <1>1, <1>2 DEF NoByte, Before
  <2>3. b \notin {ring[i].byte : i \in UnreadSlot} /\ b # data
    BY <2>1, <2>2, HeldLater
  <2> QED
    BY <2>1, <2>2, <2>3, StreamHolds
<1>3. CASE stream.current = <<>>
  <2>1. y.index = 1
    <3>1. ~ (1 < y.index)
      BY <1>2, <1>3
    <3> QED
      BY <1>1, <3>1
  <2> QED
    BY <1>1, <1>3, <2>1, PopGives, UpToGrows
<1>4. CASE stream.current # <<>>
  <2>1. /\ LastByte \in Byte /\ last \in Stamped /\ LastByte.index \in Nat
        /\ LastByte.frame \in Nat /\ Before(LastByte, y)
    BY <1>4, LastStamped, PopStamps, Numbers DEF Byte
  <2>2. Apart(last, item) /\ Together(last, item)
    BY <1>1, <2>1 DEF CleanInv, TimeInv, GapInv
  <2>3. CASE LastByte.frame < y.frame
    <3>1. Elapsed(stream.stamp, item.stamp) >= FrameGap
      BY <2>2, <2>3 DEF Apart
    <3>2. y.index = 1
      <4>1. ~ (1 < y.index)
        BY <1>1, <1>2, <2>1, <2>3
      <4> QED
        BY <1>1, <4>1
    <3> QED
      BY <1>1, <1>4, <3>1, <3>2, PopGives, UpToGrows
  <2>4. CASE LastByte.frame = y.frame
    <3>1. LastByte.index >= 1 /\ LastByte.index < y.index
      BY <1>1, <2>1, <2>4 DEF Before, CleanInv, ByteInv, Clean
    <3>2. y.index = LastByte.index + 1 /\ stream.current = UpTo(LastByte)
      <4>1. stream.current = UpTo(LastByte)
        BY <1>2, <2>1, <3>1
      <4>2. ~ (LastByte.index + 1 < y.index)
        <5>1. LastByte.index + 1 < y.index => LastByte.index + 1 \in 1 .. LastByte.index
          BY <1>2, <2>1
        <5> QED
          BY <2>1, <5>1
      <4> QED
        BY <1>1, <2>1, <3>1, <4>1, <4>2
    <3>3. Elapsed(stream.stamp, item.stamp) <= InterChar
      BY <2>2, <2>4, <3>2 DEF Together
    <3>4. Len(stream.current) < MaxAdu
      <4>1. Len(stream.current) = LastByte.index
        BY <2>1, <3>2, UpToIs
      <4> QED
        BY <1>1, <2>1, <3>1, <4>1, Numbers
    <3>5. stream'.current = Append(stream.current, y)
      BY <1>4, <3>3, <3>4, PopGives
    <3> QED
      BY <1>1, <2>1, <2>4, <3>2, <3>5, UpToGrows
  <2> QED
    BY <2>1, <2>3, <2>4 DEF Before
<1> QED
  BY <1>3, <1>4

\* A clean frame in the stream is continued, or was complete and is handed over.
LEMMA FeedEnds ==
  ASSUME TypeInv, OrderInv, CleanInv, PopEnd, stream.current # <<>>,
         LastByte.frame \notin spoiled, LastByte.frame # item.byte.frame
  PROVE  /\ stream'.current = <<item.byte>>
         /\ \E k \in DOMAIN handed' : handed'[k] = LastByte.frame
<1> DEFINE y == item.byte
           last == [byte |-> LastByte, stamp |-> stream.stamp]
           n == LastByte.frame
<1>1. /\ LastByte \in Byte /\ last \in Stamped /\ LastByte.index \in Nat /\ n \in Nat
      /\ y \in Byte /\ y.frame \in Nat /\ item \in Stamped /\ n < y.frame
  <2>1. LastByte \in Byte /\ last \in Stamped /\ Before(LastByte, y)
    BY LastStamped, PopStamps
  <2> QED
    BY <2>1, PopStamps, Numbers DEF Before, Byte
<1>2. /\ ~ IsHanded(n) /\ n \in 1 .. Len(sent) /\ sent[n] \in Content
      /\ LastByte.index \in 1 .. Sent(n) /\ Length[sent[n]] \in 1 .. MaxAdu
      /\ LastByte.index <= Length[sent[n]]
  BY <1>1, StampedLeft
<1>3. Elapsed(stream.stamp, item.stamp) >= FrameGap
  <2>1. Apart(last, item)
    BY <1>1 DEF CleanInv, TimeInv, GapInv
  <2> QED
    BY <1>1, <2>1 DEF Apart
<1>4. Sent(n) = Length[sent[n]]
  <2>1. y.frame <= Len(sent) /\ Len(sent) \in Nat
    BY <1>1, StampedOrder, InsideTypes DEF Out
  <2> QED
    BY <1>1, <2>1 DEF Sent
<1>5. stream.current = UpTo(LastByte)
  BY DEF CleanInv, StreamInv
<1>6. LastByte.index = Length[sent[n]]
  <2> SUFFICES ASSUME LastByte.index < Length[sent[n]] PROVE FALSE
    BY <1>1, <1>2
  <2> DEFINE b == [frame |-> n, index |-> LastByte.index + 1]
  <2>1. b \in Held
    <3>1. LastByte.index + 1 \in 1 .. Sent(n)
      BY <1>1, <1>2, <1>4
    <3> QED
      BY <1>2, <3>1 DEF CleanInv, HeldInv
  <2>2. b # NoByte /\ b # y /\ ~ Before(y, b)
    BY <1>1, <1>2 DEF NoByte, Before
  <2>3. b \notin {ring[i].byte : i \in UnreadSlot} /\ b # data
    BY <2>1, <2>2, HeldLater
  <2>4. LastByte.index + 1 \in 1 .. LastByte.index
    BY <2>1, <2>2, <2>3, StreamHolds
  <2> QED
    BY <1>1, <2>4
<1>7. Whole(stream.current)
  BY <1>1, <1>2, <1>5, <1>6, WholeUpTo
<1>8. stream'.current = <<y>> /\ handed' = Append(handed, n)
  BY <1>3, <1>7, PopGives
<1>9. \E k \in DOMAIN handed' : handed'[k] = n
  <2>1. handed \in Seq(1 .. MaxFrames) /\ n \in 1 .. MaxFrames
    BY <1>1, InsideTypes DEF Byte
  <2>2. Len(handed) + 1 \in DOMAIN handed' /\ handed'[Len(handed) + 1] = n
    BY <1>8, <2>1
  <2> QED
    BY <2>2
<1> QED
  BY <1>8, <1>9

\* The oldest byte goes to the stream.
LEMMA PopClean ==
  ASSUME TypeInv, OrderInv, CleanInv, PopEnd
  PROVE  CleanInv'
<1> DEFINE y == item.byte
<1>1. /\ item = ring[tail] /\ item \in Stamped /\ y \in Byte
      /\ UnreadSlot' = UnreadSlot \ {tail} /\ tail \in UnreadSlot
      /\ \A i \in UnreadSlot' : ring'[i] = ring[i] /\ Before(y, ring[i].byte)
      /\ data # NoByte => Before(y, data)
      /\ stream.current # <<>> => Before(LastByte, y)
      /\ stream'.current # <<>> => LastByte' = y
      /\ Stamped' \subseteq Stamped
      /\ UNCHANGED <<now, sent, next, silence, data, armed, spoiled>>
  BY PopStamps
<1>2. \A x : Age(x)' = Age(x)
  BY <1>1 DEF Age, Elapsed
<1>3. LineInv' /\ DataInv'
  BY <1>1 DEF CleanInv, LineInv, DataInv, MidFrame
<1>4. ByteInv'
  <2>1. \A b : Clean(b) => Clean(b)'
    BY <1>1 DEF Clean
  <2> QED
    BY <1>1, <2>1 DEF CleanInv, ByteInv
<1>5. OldInv' /\ YoungInv'
  BY <1>1, <1>2 DEF CleanInv, TimeInv, OldInv, YoungInv
<1>6. GapInv'
  BY <1>1 DEF CleanInv, TimeInv, GapInv, Apart, Together, Elapsed
<1>7. PollInv'
  BY PopGives DEF PollInv
<1>8. StreamInv'
  <2>1. CASE y.frame \notin spoiled
    <3>1. stream'.current = UpTo(y)
      BY <2>1, FeedClean
    <3>2. stream'.current # <<>> => UpTo(LastByte)' = UpTo(y)
      BY <1>1 DEF UpTo
    <3> QED
      BY <1>1, <2>1, <3>1, <3>2 DEF StreamInv
  <2>2. CASE y.frame \in spoiled
    <3>1. \A k \in DOMAIN stream'.current : stream'.current[k].frame \in spoiled
      <4>1. CASE stream'.current = <<>>
        BY <4>1
      <4>2. CASE stream'.current = <<y>>
        BY <2>2, <4>2
      <4>3. CASE stream.current # <<>> /\ stream'.current = Append(stream.current, y)
                   /\ stream'.current # <<y>>
        <5>1. LastByte.frame \in spoiled
          BY <2>2, <4>3, FeedEnds
        <5>2. \A k \in DOMAIN stream.current : stream.current[k].frame \in spoiled
          BY <4>3, <5>1 DEF CleanInv, StreamInv
        <5>3. stream.current \in Seq(Byte)
          BY DEF TypeInv, MainType, Frames, Stream
        <5> QED
          BY <1>1, <2>2, <4>3, <5>2, <5>3
      <4> QED
        BY <4>1, <4>2, <4>3, PopTypes, PopGives
    <3> QED
      BY <1>1, <2>2, <3>1 DEF StreamInv
  <2> QED
    BY <2>1, <2>2
<1>9. HeldInv'
  <2> SUFFICES ASSUME NEW n \in (1 .. Len(sent)) \ spoiled, ~ IsHanded(n)',
                      NEW k \in 1 .. Sent(n)
               PROVE  [frame |-> n, index |-> k] \in Held'
    BY <1>1 DEF HeldInv, Sent
  <2> DEFINE b == [frame |-> n, index |-> k]
  <2>1. ~ IsHanded(n)
    <3>1. handed \in Seq(1 .. MaxFrames)
      BY InsideTypes
    <3>2. handed' = handed
            \/ (LastByte \in Byte /\ handed' = Append(handed, LastByte.frame))
      BY PopTypes
    <3>3. CASE LastByte \in Byte /\ handed' = Append(handed, LastByte.frame)
      <4>1. PICK f \in 1 .. MaxFrames : f = LastByte.frame
        BY <3>3 DEF Byte
      <4>2. handed' = Append(handed, f)
        BY <3>3, <4>1
      <4> QED
        BY <3>1, <4>2 DEF IsHanded
    <3> QED
      BY <3>2, <3>3 DEF IsHanded
  <2>2. b \in Held
    BY <2>1 DEF CleanInv, HeldInv
  <2>3. b # NoByte /\ b.frame = n /\ b.index = k /\ n \notin spoiled
    BY DEF NoByte
  <2> HIDE DEF b
  <2>4. CASE b = y
    <3>1. stream'.current = UpTo(y)
      BY <2>3, <2>4, FeedClean
    <3>2. y.index \in 1 .. y.index /\ y = [frame |-> y.frame, index |-> y.index]
      BY <1>1, <2>3, <2>4 DEF Byte
    <3>3. y.index \in DOMAIN stream'.current /\ stream'.current[y.index] = y
      BY <1>1, <3>1, <3>2, UpToIs
    <3> QED
      BY <2>4, <3>3 DEF Held, b
  <2>5. CASE b \notin {ring[i].byte : i \in UnreadSlot} /\ b # data
    <3>1. /\ stream.current # <<>> /\ LastByte.frame = n /\ LastByte.frame \notin spoiled
          /\ LastByte \in Byte /\ k \in 1 .. LastByte.index
      BY <2>2, <2>3, <2>5, StreamHolds
    <3>2. LastByte.frame = y.frame
      BY <3>1, FeedEnds DEF IsHanded
    <3>3. stream'.current = UpTo(y)
      BY <3>1, <3>2, FeedClean
    <3>4. k \in 1 .. y.index
      <4>1. y.index \in Nat /\ LastByte.index \in Nat /\ Clean(y)
        BY <1>1, <3>1, Numbers DEF Byte, CleanInv, ByteInv
      <4>2. y.index >= 1
        BY <3>1, <3>2, <4>1 DEF Clean
      <4> QED
        BY <1>1, <3>1, <3>2, <4>1, <4>2 DEF Before
    <3>5. k \in DOMAIN stream'.current /\ stream'.current[k] = [frame |-> n, index |-> k]
      <4>1. k \in DOMAIN UpTo(y) /\ UpTo(y)[k] = [frame |-> y.frame, index |-> k]
        BY <1>1, <3>4, UpToIs
      <4> QED
        BY <3>1, <3>2, <3>3, <4>1
    <3> QED
      BY <3>5 DEF Held
  <2> QED
    BY <2>2, <2>3, <2>4, <2>5, HeldLater DEF b
<1> QED
  BY <1>3, <1>4, <1>5, <1>6, <1>7, <1>8, <1>9 DEF CleanInv, TimeInv

\* The silence that ends a clean frame comes after its last byte.
LEMMA PollEnds ==
  ASSUME TypeInv, OrderInv, CleanInv, pc = "poll", stream.current # <<>>,
         LastByte.frame \notin spoiled, Elapsed(stream.stamp, now) >= FrameGap
  PROVE  Whole(stream.current)
<1> DEFINE last == [byte |-> LastByte, stamp |-> stream.stamp]
           n == LastByte.frame
<1>1. /\ LastByte \in Byte /\ last \in Stamped /\ LastByte.index \in Nat /\ n \in Nat
      /\ ~ IsHanded(n) /\ n \in 1 .. Len(sent) /\ sent[n] \in Content
      /\ LastByte.index \in 1 .. Sent(n) /\ Sent(n) \in Nat
      /\ Length[sent[n]] \in 1 .. MaxAdu /\ LastByte.index <= Length[sent[n]]
  <2>1. LastByte \in Byte /\ last \in Stamped
    BY LastStamped
  <2> QED
    BY <2>1, StampedLeft, Numbers DEF Byte
<1>2. Age(last) \in Nat /\ ~ (Age(last) <= InterChar)
  <2>1. stream.stamp \in Clock /\ now \in Clock
    BY LastStamped DEF TypeInv, NodeType
  <2>2. Age(last) \in Nat /\ Age(last) >= FrameGap
    BY <2>1, ElapsedIs DEF Age
  <2> QED
    BY <2>2, Numbers
<1>3. ~ (LastByte.index < Sent(n))
  <2> SUFFICES ASSUME LastByte.index < Sent(n) PROVE FALSE
    OBVIOUS
  <2> DEFINE b == [frame |-> n, index |-> LastByte.index + 1]
  <2>1. b \in Held /\ b # NoByte
    <3>1. LastByte.index + 1 \in 1 .. Sent(n)
      BY <1>1
    <3> QED
      BY <1>1, <3>1 DEF CleanInv, HeldInv, NoByte
  <2>2. CASE b \in {ring[i].byte : i \in UnreadSlot}
    <3>1. PICK i \in UnreadSlot : b = ring[i].byte
      BY <2>2
    <3>2. ring[i] \in Stamped /\ ring[i].stamp = now
      BY DEF Stamped, CleanInv, TimeInv, PollInv
    <3>3. Together(last, ring[i])
      BY <1>1, <3>2 DEF CleanInv, TimeInv, GapInv
    <3>4. Elapsed(stream.stamp, now) <= InterChar
      BY <3>1, <3>2, <3>3 DEF Together
    <3> QED
      BY <1>2, <3>4 DEF Age
  <2>3. CASE b = data
    <3>1. data # NoByte /\ n = Len(sent) /\ LastByte.index + 1 = next
      BY <2>1, <2>3 DEF CleanInv, DataInv
    <3>2. Age(last) <= InterChar
      BY <1>1, <3>1 DEF CleanInv, TimeInv, YoungInv
    <3> QED
      BY <1>2, <3>2
  <2>4. CASE b \notin {ring[i].byte : i \in UnreadSlot} /\ b # data
    <3>1. LastByte.index + 1 \in 1 .. LastByte.index
      BY <2>1, <2>4, StreamHolds
    <3> QED
      BY <1>1, <3>1
  <2> QED
    BY <2>2, <2>3, <2>4
<1>4. LastByte.index = Length[sent[n]]
  <2> SUFFICES ASSUME LastByte.index < Length[sent[n]] PROVE FALSE
    BY <1>1
  <2>1. n = Len(sent) /\ LastByte.index = next
    BY <1>1, <1>3 DEF Sent
  <2>2. silence <= InterChar
    BY <1>1, <2>1 DEF CleanInv, LineInv, MidFrame
  <2>3. Age(last) <= silence \/ silence = FrameGap
    BY <1>1, <2>1 DEF CleanInv, TimeInv, YoungInv
  <2>4. silence \in Nat
    BY Numbers DEF TypeInv, LineType
  <2> QED
    BY <1>2, <2>2, <2>3, <2>4, Numbers
<1>5. stream.current = UpTo(LastByte)
  BY DEF CleanInv, StreamInv
<1> QED
  BY <1>1, <1>4, <1>5, WholeUpTo

\* The main loop looks at the clock.
LEMMA PollClean ==
  ASSUME TypeInv, OrderInv, CleanInv, PollStream
  PROVE  CleanInv'
<1>1. /\ pc = "poll" /\ pc' # "poll"
      /\ UNCHANGED <<now, sent, next, silence, data, armed, ring, head, tail, spoiled>>
  BY DEF PollStream, HandOver, line, usart, buffer
<1>2. \/ /\ stream.current # <<>> /\ Elapsed(stream.stamp, now) >= FrameGap
         /\ stream'.current = <<>>
         /\ Whole(stream.current) => handed' = Append(handed, LastByte.frame)
      \/ stream' = stream /\ handed' = handed
  BY PollDecides
<1>3. UnreadSlot' = UnreadSlot /\ Stamped' \subseteq Stamped
  <2>1. UnreadSlot' = UnreadSlot
    BY <1>1 DEF UnreadSlot, Pos
  <2>2. CASE stream' = stream
    BY <1>1, <2>1, <2>2 DEF Stamped, LastByte
  <2>3. CASE stream'.current = <<>>
    BY <1>1, <2>1, <2>3 DEF Stamped
  <2> QED
    BY <1>2, <2>1, <2>2, <2>3
<1>4. \A x : Age(x)' = Age(x)
  BY <1>1 DEF Age, Elapsed
<1>5. LineInv' /\ DataInv'
  BY <1>1 DEF CleanInv, LineInv, DataInv, MidFrame
<1>6. ByteInv'
  <2>1. \A b : Clean(b) => Clean(b)'
    BY <1>1 DEF Clean
  <2> QED
    BY <1>1, <1>3, <2>1 DEF CleanInv, ByteInv
<1>7. OldInv' /\ YoungInv'
  BY <1>1, <1>3, <1>4 DEF CleanInv, TimeInv, OldInv, YoungInv
<1>8. GapInv' /\ PollInv'
  BY <1>1, <1>3 DEF CleanInv, TimeInv, GapInv, Apart, Together, Elapsed, PollInv
<1>9. CASE stream' = stream /\ handed' = handed
  <2>1. StreamInv'
    BY <1>1, <1>9, SameStream DEF CleanInv
  <2>2. HeldInv'
    BY <1>1, <1>3, <1>9 DEF CleanInv, HeldInv, IsHanded, Held, Sent
  <2> QED
    BY <1>5, <1>6, <1>7, <1>8, <2>1, <2>2 DEF CleanInv, TimeInv
<1>10. CASE /\ stream.current # <<>> /\ Elapsed(stream.stamp, now) >= FrameGap
            /\ stream'.current = <<>>
            /\ Whole(stream.current) => handed' = Append(handed, LastByte.frame)
  <2>1. StreamInv'
    BY <1>10 DEF StreamInv
  <2>2. \A n : IsHanded(n) => IsHanded(n)'
    <3>1. handed \in Seq(1 .. MaxFrames)
      BY InsideTypes
    <3>2. handed' = handed
            \/ (LastByte \in Byte /\ handed' = Append(handed, LastByte.frame))
      BY PollTypes
    <3>3. CASE LastByte \in Byte /\ handed' = Append(handed, LastByte.frame)
      <4>1. PICK f \in 1 .. MaxFrames : f = LastByte.frame
        BY <3>3 DEF Byte
      <4>2. handed' = Append(handed, f)
        BY <3>3, <4>1
      <4> QED
        BY <3>1, <4>2 DEF IsHanded
    <3> QED
      BY <3>2, <3>3 DEF IsHanded
  <2>3. LastByte.frame \notin spoiled => \E k \in DOMAIN handed' : handed'[k] = LastByte.frame
    <3> SUFFICES ASSUME LastByte.frame \notin spoiled
                 PROVE  \E k \in DOMAIN handed' : handed'[k] = LastByte.frame
      OBVIOUS
    <3>1. handed' = Append(handed, LastByte.frame)
      BY <1>1, <1>10, PollEnds
    <3>2. handed \in Seq(1 .. MaxFrames) /\ LastByte.frame \in 1 .. MaxFrames
      BY <1>10, InsideTypes DEF Byte
    <3>3. Len(handed) + 1 \in DOMAIN handed' /\ handed'[Len(handed) + 1] = LastByte.frame
      BY <3>1, <3>2
    <3> QED
      BY <3>3
  <2>4. HeldInv'
    <3> SUFFICES ASSUME NEW n \in (1 .. Len(sent)) \ spoiled, ~ IsHanded(n)',
                        NEW k \in 1 .. Sent(n)
                 PROVE  [frame |-> n, index |-> k] \in Held'
      BY <1>1 DEF HeldInv, Sent
    <3> DEFINE b == [frame |-> n, index |-> k]
    <3>1. b \in Held /\ b # NoByte
      BY <2>2 DEF CleanInv, HeldInv, NoByte
    <3>2. CASE b \notin {ring[i].byte : i \in UnreadSlot} /\ b # data
      <4>1. LastByte.frame = n
        BY <3>1, <3>2, StreamHolds
      <4> QED
        BY <2>3, <4>1 DEF IsHanded
    <3> QED
      BY <1>1, <1>3, <3>1, <3>2 DEF Held
  <2> QED
    BY <1>5, <1>6, <1>7, <1>8, <2>1, <2>4 DEF CleanInv, TimeInv
<1> QED
  BY <1>2, <1>9, <1>10

\* Nothing else moves a byte or a clock.
LEMMA OtherClean ==
  ASSUME TypeInv, CleanInv, PopStart \/ Handled \/ StallBegins \/ StallEnds \/ UNCHANGED vars
  PROVE  CleanInv'
<1>1. UNCHANGED <<now, sent, next, silence, data, armed, ring, head, tail, stream, handed,
                  spoiled>>
  BY DEF PopStart, Handled, StallBegins, StallEnds, vars, line, usart, buffer, main
<1>2. /\ Stamped' = Stamped /\ UnreadSlot' = UnreadSlot
      /\ \A x : Age(x)' = Age(x)
  BY <1>1, SameStamps DEF Age, Elapsed
<1>3. LineInv' /\ DataInv'
  BY <1>1 DEF CleanInv, LineInv, DataInv, MidFrame
<1>4. ByteInv'
  BY <1>1, <1>2 DEF CleanInv, ByteInv, Clean
<1>5. OldInv' /\ YoungInv'
  BY <1>1, <1>2 DEF CleanInv, TimeInv, OldInv, YoungInv
<1>6. GapInv'
  BY <1>1, <1>2 DEF CleanInv, TimeInv, GapInv, Apart, Together, Elapsed
<1>7. PollInv'
  <2>1. CASE PopStart
    <3>1. pc' = "poll" => tail = head
      BY <2>1 DEF PopStart
    <3>2. tail = head => UnreadSlot = {}
      <4>1. \A i \in Slot : Pos(i) \in Nat /\ (tail = head => Pos(head) = 0)
        BY InsideTypes, BehindTypes DEF Pos
      <4> QED
        BY <4>1 DEF UnreadSlot
    <3> QED
      BY <1>2, <3>1, <3>2 DEF PollInv
  <2>2. CASE Handled \/ StallBegins \/ StallEnds \/ UNCHANGED vars
    <3>1. pc' = "poll" => pc = "poll"
      BY <2>2 DEF Handled, StallBegins, StallEnds, vars, main
    <3> QED
      BY <1>1, <1>2, <3>1 DEF CleanInv, TimeInv, PollInv
  <2> QED
    BY <2>1, <2>2
<1>8. StreamInv'
  BY <1>1, SameStream DEF CleanInv
<1>9. HeldInv'
  BY <1>1, <1>2 DEF CleanInv, HeldInv, IsHanded, Held, Sent
<1> QED
  BY <1>3, <1>4, <1>5, <1>6, <1>7, <1>8, <1>9 DEF CleanInv, TimeInv

\* Every step keeps what is clean.
LEMMA CleanStep ==
  ASSUME TypeInv, OrderInv, CleanInv, [Next]_vars
  PROVE  CleanInv'
  BY TickClean, SendClean, InterruptClean, PopClean, PollClean, OtherClean DEF Next

\* The line is silent and the node has nothing at the start.
LEMMA CleanInit == Init => CleanInv
<1> SUFFICES ASSUME Init PROVE CleanInv
  OBVIOUS
<1>1. /\ UnreadSlot = {} /\ stream.current = <<>> /\ data = NoByte /\ sent = <<>>
      /\ armed /\ next = 0 /\ pc = "pop" /\ Len(sent) = 0
  <2>1. tail \in Slot /\ head = tail
    BY Numbers DEF Init
  <2>2. \A i \in Slot : Behind(tail, i) \in Nat /\ Behind(tail, head) = 0
    BY <2>1, BehindTypes
  <2>3. UnreadSlot = {}
    BY <2>2 DEF UnreadSlot, Pos
  <2> QED
    BY <2>3 DEF Init, NoStream
<1>2. Stamped = {}
  BY <1>1 DEF Stamped
<1>3. LineInv /\ DataInv /\ ByteInv /\ TimeInv /\ StreamInv
  BY <1>1, <1>2
  DEF LineInv, MidFrame, DataInv, ByteInv, TimeInv, OldInv, YoungInv, GapInv, PollInv,
      StreamInv
<1>4. HeldInv
  BY <1>1 DEF HeldInv
<1> QED
  BY <1>3, <1>4 DEF CleanInv

\* The times of what is inside show where each clean frame begins and ends.
THEOREM CleanHolds == Spec => [](TypeInv /\ OrderInv /\ CleanInv)
<1>1. TypeInv /\ OrderInv /\ CleanInv /\ [Next]_vars => (TypeInv /\ OrderInv /\ CleanInv)'
  BY TypeStep, OrderStep, CleanStep
<1>2. Init => TypeInv /\ OrderInv /\ CleanInv
  BY TypeInit, OrderInit, CleanInit
<1> QED
  BY <1>1, <1>2, PTL DEF Spec

\* The slots that Inside reads are the unread ones, oldest first.
LEMMA SlotAt ==
  ASSUME TypeInv, NEW k \in 1 .. Pos(head)
  PROVE  /\ (tail + k - 1) % RingCapacity \in UnreadSlot
         /\ Pos((tail + k - 1) % RingCapacity) = k - 1
<1> DEFINE s == (tail + k - 1) % RingCapacity
<1>1. /\ tail \in Int /\ 0 <= tail /\ tail < RingCapacity /\ RingCapacity \in Nat \ {0}
      /\ k \in Int /\ 1 <= k /\ k <= Pos(head) /\ Pos(head) \in Int
      /\ Pos(head) < RingCapacity
  <2>1. Pos(head) \in 0 .. (RingCapacity - 1) /\ tail \in Slot
    BY InsideTypes, BehindTypes DEF Pos
  <2> QED
    BY <2>1, Numbers
<1>2. s = IF tail + k - 1 < RingCapacity THEN tail + k - 1 ELSE tail + k - 1 - RingCapacity
  <2>1. CASE tail + k - 1 < RingCapacity
    BY <1>1, <2>1
  <2>2. CASE ~ (tail + k - 1 < RingCapacity)
    <3> DEFINE r == tail + k - 1 - RingCapacity
    <3>1. r \in Int /\ 0 <= r /\ r < RingCapacity /\ tail + k - 1 = r + RingCapacity
      BY <1>1, <2>2
    <3>2. (r + RingCapacity) % RingCapacity = r
      BY <1>1, <3>1
    <3> QED
      BY <2>2, <3>1, <3>2
  <2> QED
    BY <2>1, <2>2
<1> HIDE DEF s
<1>3. s \in Slot /\ Pos(s) = k - 1
  BY <1>1, <1>2, Numbers DEF Pos, Behind
<1>4. s \in UnreadSlot
  BY <1>1, <1>3 DEF UnreadSlot
<1> QED
  BY <1>3, <1>4 DEF s

\* Three parts in a row.
LEMMA InARow ==
  ASSUME NEW S, NEW a \in Seq(S), NEW b \in Seq(S), NEW c \in Seq(S)
  PROVE  /\ DOMAIN (a \o b \o c) = 1 .. (Len(a) + Len(b) + Len(c))
         /\ Len(a) \in Nat /\ Len(b) \in Nat /\ Len(c) \in Nat
         /\ \A i \in 1 .. (Len(a) + Len(b) + Len(c)) :
              (a \o b \o c)[i] =
                IF i <= Len(a) THEN a[i]
                ELSE IF i <= Len(a) + Len(b) THEN b[i - Len(a)]
                ELSE c[i - Len(a) - Len(b)]
<1> DEFINE d == a \o b
<1>1. d \in Seq(S) /\ Len(d) = Len(a) + Len(b)
  OBVIOUS
<1>2. \A i \in 1 .. Len(d) : d[i] = IF i <= Len(a) THEN a[i] ELSE b[i - Len(a)]
  OBVIOUS
<1> HIDE DEF d
<1>3. d \o c \in Seq(S) /\ Len(d \o c) = Len(d) + Len(c)
  <2>1. d \in Seq(S) /\ c \in Seq(S)
    BY <1>1
  <2>2. d \o c \in Seq(S)
    BY ONLY <2>1
  <2>3. Len(d \o c) = Len(d) + Len(c)
    BY ONLY <2>1
  <2> QED
    BY <2>2, <2>3
<1>4. DOMAIN (d \o c) = 1 .. (Len(d) + Len(c))
  BY <1>3
<1>5. \A i \in 1 .. (Len(d) + Len(c)) :
        (d \o c)[i] = IF i <= Len(d) THEN d[i] ELSE c[i - Len(d)]
  BY <1>1
<1>6. Len(a) \in Nat /\ Len(b) \in Nat /\ Len(c) \in Nat
  OBVIOUS
<1>7. \A i \in 1 .. (Len(a) + Len(b) + Len(c)) :
        (d \o c)[i] =
          IF i <= Len(a) THEN a[i]
          ELSE IF i <= Len(a) + Len(b) THEN b[i - Len(a)]
          ELSE c[i - Len(a) - Len(b)]
  BY <1>1, <1>2, <1>5, <1>6
<1> QED
  BY <1>1, <1>4, <1>6, <1>7 DEF d

\* A place inside is one in the stream, in the ring or in the data register.
LEMMA InsideIs ==
  ASSUME TypeInv
  PROVE  /\ DOMAIN Inside \subseteq Nat
         /\ \A i \in DOMAIN Inside :
              \/ i \in DOMAIN stream.current /\ Inside[i] = stream.current[i]
              \/ /\ i > Len(stream.current) /\ i <= Len(stream.current) + Pos(head)
                 /\ \E s \in UnreadSlot : /\ Inside[i] = ring[s].byte
                                          /\ Pos(s) = i - Len(stream.current) - 1
              \/ /\ i = Len(stream.current) + Pos(head) + 1
                 /\ data # NoByte /\ Inside[i] = data
         /\ \A b \in Held \ {NoByte} : \E i \in DOMAIN Inside : Inside[i] = b
<1> DEFINE C == stream.current
           R == [k \in 1 .. Pos(head) |-> ring[(tail + k - 1) % RingCapacity].byte]
           D == IF data = NoByte THEN <<>> ELSE <<data>>
<1>1. /\ C \in Seq(Byte) /\ Len(C) \in Nat /\ DOMAIN C = 1 .. Len(C)
      /\ Pos(head) \in Nat
  <2>1. C \in Seq(Byte)
    BY DEF TypeInv, MainType, Frames, Stream
  <2>2. Pos(head) \in Nat
    BY InsideTypes, BehindTypes DEF Pos
  <2> QED
    BY <2>1, <2>2
<1>2. R \in Seq(Byte) /\ Len(R) = Pos(head)
  <2>1. R \in [1 .. Pos(head) -> Byte]
    BY SlotAt, InsideTypes
  <2> HIDE DEF R
  <2> QED
    BY <1>1, <2>1
<1>3. /\ D \in Seq(Byte) /\ (data = NoByte => Len(D) = 0)
      /\ data # NoByte => Len(D) = 1 /\ D[1] = data
  <2>1. CASE data = NoByte
    BY <2>1
  <2>2. CASE data # NoByte
    <3>1. data \in Byte
      BY <2>2, InsideTypes
    <3> QED
      BY <2>2, <3>1
  <2> QED
    BY <2>1, <2>2
<1>4. \A k \in 1 .. Pos(head) : R[k] = ring[(tail + k - 1) % RingCapacity].byte
  OBVIOUS
<1>5. Inside = C \o R \o D
  BY DEF Inside
<1> HIDE DEF R, D
<1>6. /\ DOMAIN Inside = 1 .. (Len(C) + Pos(head) + Len(D)) /\ Len(D) \in Nat
      /\ \A i \in 1 .. (Len(C) + Pos(head) + Len(D)) :
           Inside[i] =
             IF i <= Len(C) THEN C[i]
             ELSE IF i <= Len(C) + Pos(head) THEN R[i - Len(C)]
             ELSE D[i - Len(C) - Pos(head)]
  <2> HIDE DEF C
  <2>1. C \in Seq(Byte) /\ R \in Seq(Byte) /\ D \in Seq(Byte)
    BY <1>1, <1>2, <1>3
  <2>2. /\ DOMAIN (C \o R \o D) = 1 .. (Len(C) + Len(R) + Len(D)) /\ Len(D) \in Nat
        /\ \A i \in 1 .. (Len(C) + Len(R) + Len(D)) :
             (C \o R \o D)[i] =
               IF i <= Len(C) THEN C[i]
               ELSE IF i <= Len(C) + Len(R) THEN R[i - Len(C)]
               ELSE D[i - Len(C) - Len(R)]
    BY ONLY <2>1, InARow
  <2> QED
    BY ONLY <1>2, <1>5, <2>2, Zenon
<1>7. ASSUME NEW i \in DOMAIN Inside
      PROVE  \/ i \in DOMAIN C /\ Inside[i] = C[i]
             \/ /\ i > Len(C) /\ i <= Len(C) + Pos(head)
                /\ \E s \in UnreadSlot : /\ Inside[i] = ring[s].byte
                                         /\ Pos(s) = i - Len(C) - 1
             \/ /\ i = Len(C) + Pos(head) + 1
                /\ data # NoByte /\ Inside[i] = data
  <2>1. i \in Nat /\ i >= 1 /\ i <= Len(C) + Pos(head) + Len(D)
    BY <1>1, <1>6
  <2>2. CASE i <= Len(C)
    BY <1>1, <1>6, <2>1, <2>2
  <2>3. CASE i > Len(C) /\ i <= Len(C) + Pos(head)
    <3> DEFINE k == i - Len(C)
    <3>1. k \in 1 .. Pos(head) /\ Inside[i] = R[k]
      BY <1>1, <1>6, <2>1, <2>3
    <3>2. PICK s \in UnreadSlot : s = (tail + k - 1) % RingCapacity /\ Pos(s) = k - 1
      BY <3>1, SlotAt
    <3> QED
      BY <1>4, <2>3, <3>1, <3>2
  <2>4. CASE i > Len(C) + Pos(head)
    <3>1. data # NoByte /\ i = Len(C) + Pos(head) + 1
      <4>1. Len(D) \in Nat /\ Len(D) >= 1
        BY <1>1, <1>6, <2>1, <2>4
      <4>2. data # NoByte /\ Len(D) = 1
        BY <1>3, <4>1
      <4> QED
        BY <1>1, <2>1, <2>4, <4>2
    <3>2. Inside[i] = D[i - Len(C) - Pos(head)] /\ i - Len(C) - Pos(head) = 1
      BY <1>1, <1>6, <3>1
    <3> QED
      BY <1>3, <3>1, <3>2
  <2> QED
    BY <1>1, <2>1, <2>2, <2>3, <2>4
<1>8. ASSUME NEW b \in Held \ {NoByte}
      PROVE  \E i \in DOMAIN Inside : Inside[i] = b
  <2>1. CASE b \in {C[k] : k \in DOMAIN C}
    <3>1. PICK k \in DOMAIN C : b = C[k]
      BY <2>1
    <3>2. k \in DOMAIN Inside /\ Inside[k] = C[k]
      BY <1>1, <1>6
    <3> QED
      BY <3>1, <3>2
  <2>2. CASE b \in {ring[i].byte : i \in UnreadSlot}
    <3>1. PICK s \in UnreadSlot : b = ring[s].byte
      BY <2>2
    <3> DEFINE k == Pos(s) + 1
    <3>2. Pos(s) \in Nat /\ Pos(s) < Pos(head) /\ s \in Slot
      BY InsideTypes, BehindTypes DEF Pos, UnreadSlot
    <3>3. k \in 1 .. Pos(head)
      BY <1>1, <3>2
    <3>4. (tail + k - 1) % RingCapacity = s
      <4>1. PICK t \in UnreadSlot : t = (tail + k - 1) % RingCapacity /\ Pos(t) = k - 1
        BY <3>3, SlotAt
      <4>2. Pos(t) = Pos(s) /\ t \in Slot
        BY <3>2, <4>1, InsideTypes
      <4>3. t = s
        BY <3>2, <4>2, InsideTypes, BehindTypes DEF Pos
      <4> QED
        BY <4>1, <4>3
    <3> HIDE DEF k
    <3>5. Len(C) + k \in DOMAIN Inside /\ Inside[Len(C) + k] = R[k]
      BY <1>1, <1>6, <3>3
    <3> QED
      BY <1>4, <3>1, <3>3, <3>4, <3>5
  <2>3. CASE b = data
    <3>1. Len(D) = 1 /\ D[1] = data
      BY <1>3, <2>3
    <3>2. /\ Len(C) + Pos(head) + 1 \in DOMAIN Inside
          /\ Inside[Len(C) + Pos(head) + 1] = D[1]
      BY <1>1, <1>6, <3>1
    <3> QED
      BY <2>3, <3>1, <3>2
  <2> QED
    BY <2>1, <2>2, <2>3 DEF Held
<1> QED
  BY <1>1, <1>6, <1>7, <1>8

\* So a clean frame is inside, in order.
LEMMA CleanIsInside ==
  ASSUME TypeInv, OrderInv, CleanInv, NEW n \in (1 .. Len(sent)) \ spoiled, ~ IsHanded(n)
  PROVE  IsInside(n)
<1> DEFINE places == {i \in DOMAIN Inside : Inside[i].frame = n}
           P == Len(stream.current)
           InStream(i) == i \in DOMAIN stream.current /\ Inside[i] = stream.current[i]
           InRing(i) == /\ i > P /\ i <= P + Pos(head)
                        /\ \E s \in UnreadSlot : Inside[i] = ring[s].byte
                                                   /\ Pos(s) = i - P - 1
           InData(i) == i = P + Pos(head) + 1 /\ data # NoByte /\ Inside[i] = data
<1>1. /\ P \in Nat /\ Pos(head) \in Nat /\ DOMAIN stream.current = 1 .. P
      /\ DOMAIN Inside \subseteq Nat
      /\ \A i \in DOMAIN Inside : InStream(i) \/ InRing(i) \/ InData(i)
      /\ \A b \in Held \ {NoByte} : \E i \in DOMAIN Inside : Inside[i] = b
  <2>1. stream.current \in Seq(Byte)
    BY DEF TypeInv, MainType, Frames, Stream
  <2>2. Pos(head) \in Nat
    BY InsideTypes, BehindTypes DEF Pos
  <2>3. P \in Nat /\ DOMAIN stream.current = 1 .. P
    BY <2>1
  <2> QED
    BY <2>2, <2>3, InsideIs
<1>2. ASSUME NEW i \in places, InStream(i)
      PROVE  /\ stream.current # <<>> /\ LastByte \in Byte /\ LastByte.frame = n
             /\ Inside[i].index = i /\ i \in 1 .. LastByte.index
             /\ LastByte.index \in 1 .. Sent(n) /\ Sent(n) \in Nat
  <2>1. stream.current # <<>> /\ LastByte \in Byte
    BY <1>2, InsideTypes
  <2>2. LastByte.frame \notin spoiled /\ stream.current = UpTo(LastByte)
    BY <1>2, <2>1 DEF CleanInv, StreamInv
  <2>3. i \in 1 .. LastByte.index /\ Inside[i] = [frame |-> LastByte.frame, index |-> i]
    <3>1. i \in DOMAIN UpTo(LastByte) /\ Inside[i] = UpTo(LastByte)[i]
      BY <1>2, <2>2
    <3> QED
      BY <2>1, <3>1, UpToIs
  <2>4. LastByte.frame = n /\ Inside[i].index = i
    BY <2>3
  <2>5. PICK x \in Stamped : x.byte = LastByte
    BY <2>1, LastStamped
  <2> QED
    BY <2>1, <2>2, <2>3, <2>4, <2>5, StampedLeft
<1>3. ASSUME NEW i \in places, NEW s \in UnreadSlot, Inside[i] = ring[s].byte
      PROVE  ring[s].byte.index \in 1 .. Sent(n) /\ Sent(n) \in Nat /\ ring[s].byte.frame = n
  <2>1. ring[s] \in Stamped /\ ring[s].byte.frame = n
    BY <1>3 DEF Stamped
  <2> QED
    BY <2>1, StampedLeft
<1>4. ASSUME NEW i \in places, InData(i)
      PROVE  /\ data.frame = n /\ data.index \in 1 .. Sent(n) /\ Sent(n) \in Nat
             /\ data # NoByte /\ Inside[i] = data
  <2>1. data.frame = n /\ data # NoByte /\ Inside[i] = data
    BY <1>4
  <2>2. n = Len(sent) /\ data.index = next /\ data.index >= 1
    BY <2>1 DEF CleanInv, DataInv, ByteInv, Clean
  <2>3. next \in Nat
    BY InsideTypes
  <2> QED
    BY <2>1, <2>2, <2>3 DEF Sent
<1>5. \A i \in places : Inside[i].index \in 1 .. Sent(n)
  <2> SUFFICES ASSUME NEW i \in places
               PROVE  Inside[i].index \in 1 .. Sent(n)
    OBVIOUS
  <2>1. CASE InStream(i)
    BY <1>2, <2>1
  <2>2. CASE InRing(i)
    BY <1>3, <2>2
  <2>3. CASE InData(i)
    BY <1>4, <2>3
  <2> QED
    BY <1>1, <2>1, <2>2, <2>3
<1>6. \A k \in 1 .. Sent(n) : \E i \in places : Inside[i].index = k
  <2> SUFFICES ASSUME NEW k \in 1 .. Sent(n)
               PROVE  \E i \in places : Inside[i].index = k
    OBVIOUS
  <2>1. [frame |-> n, index |-> k] \in Held \ {NoByte}
    BY DEF CleanInv, HeldInv, NoByte
  <2>2. PICK i \in DOMAIN Inside : Inside[i] = [frame |-> n, index |-> k]
    BY <1>1, <2>1
  <2> QED
    BY <2>2
<1>7. ASSUME NEW i \in places, NEW j \in places, i < j
      PROVE  Inside[i].index < Inside[j].index
  <2>1. i \in Nat /\ j \in Nat
    BY <1>1
  <2>2. CASE InStream(i)
    <3>1. /\ stream.current # <<>> /\ LastByte.frame = n /\ Inside[i].index = i
          /\ i <= LastByte.index /\ LastByte.index \in Nat \ {0}
      BY <1>2, <2>2
    <3>2. CASE InStream(j)
      BY <1>2, <1>7, <2>2, <3>2
    <3>3. CASE InRing(j)
      <4>1. PICK s \in UnreadSlot : Inside[j] = ring[s].byte
        BY <3>3
      <4>2. ring[s].byte.index \in Nat \ {0} /\ ring[s].byte.frame = n
        BY <1>3, <4>1
      <4>3. Before(LastByte, ring[s].byte)
        BY <3>1 DEF OrderInv, StreamOrder
      <4>4. LastByte.index < ring[s].byte.index
        BY <3>1, <4>2, <4>3 DEF Before
      <4> QED
        BY <2>1, <3>1, <4>1, <4>2, <4>4
    <3>4. CASE InData(j)
      <4>1. data.frame = n /\ data.index \in Nat \ {0} /\ data # NoByte /\ Inside[j] = data
        BY <1>4, <3>4
      <4>2. Before(LastByte, data)
        BY <3>1, <4>1 DEF OrderInv, StreamOrder
      <4>3. LastByte.index < data.index
        BY <3>1, <4>1, <4>2 DEF Before
      <4> QED
        BY <2>1, <3>1, <4>1, <4>3
    <3> QED
      BY <1>1, <3>2, <3>3, <3>4
  <2>3. CASE InRing(i)
    <3>1. PICK s \in UnreadSlot : Inside[i] = ring[s].byte /\ Pos(s) = i - P - 1
      BY <2>3
    <3>2. ring[s].byte.index \in Nat \ {0} /\ ring[s].byte.frame = n
      BY <1>3, <3>1
    <3>3. ~ InStream(j)
      BY <1>1, <1>7, <2>1, <2>3
    <3>4. CASE InRing(j)
      <4>1. PICK t \in UnreadSlot : Inside[j] = ring[t].byte /\ Pos(t) = j - P - 1
        BY <3>4
      <4>2. ring[t].byte.index \in Nat \ {0} /\ ring[t].byte.frame = n
        BY <1>3, <4>1
      <4>3. Pos(s) < Pos(t)
        BY <1>1, <1>7, <2>1, <3>1, <4>1
      <4>4. Before(ring[s].byte, ring[t].byte)
        BY <4>3 DEF OrderInv, RingOrder
      <4> QED
        BY <3>1, <3>2, <4>1, <4>2, <4>4 DEF Before
    <3>5. CASE InData(j)
      <4>1. data.frame = n /\ data.index \in Nat \ {0} /\ data # NoByte /\ Inside[j] = data
        BY <1>4, <3>5
      <4>2. Before(ring[s].byte, data)
        BY <4>1 DEF OrderInv, RingOrder
      <4> QED
        BY <3>1, <3>2, <4>1, <4>2 DEF Before
    <3> QED
      BY <1>1, <3>3, <3>4, <3>5
  <2>4. CASE InData(i)
    <3>1. ~ InStream(j) /\ ~ InRing(j) /\ ~ InData(j)
      BY <1>1, <1>7, <2>1, <2>4
    <3> QED
      BY <1>1, <3>1
  <2> QED
    BY <1>1, <2>2, <2>3, <2>4
<1> HIDE DEF InStream, InRing, InData
<1>8. {Inside[i].index : i \in places} = 1 .. Sent(n)
  BY <1>5, <1>6
<1> QED
  BY <1>7, <1>8 DEF IsInside

\* For every ring, clock, stall and noise: a frame that none of them spoiled is kept to
\* its last byte until it is handed over.
THEOREM CleanKept == Spec => []CleanFramesAreKept
<1>1. TypeInv /\ OrderInv /\ CleanInv => CleanFramesAreKept
  BY CleanIsInside DEF CleanFramesAreKept, IsHanded
<1> QED
  BY <1>1, CleanHolds, PTL
=============================================================================
