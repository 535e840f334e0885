------------------------------ MODULE UartRtu -------------------------------
(***************************************************************************)
(* The node's receiver (uart_rtu_transport.c): an interrupt stores time-   *)
(* stamped bytes in a ring, the main loop takes them out and cuts them     *)
(* into frames.  The interrupt comes between any two steps of the main     *)
(* loop, except while a flash operation stalls the processor: the line     *)
(* does not wait, and bytes are overrun.                                   *)
(*                                                                         *)
(* The gateway is the sender.  It never starts a frame before the line has *)
(* been silent for FrameGap, and repeats a request with the same content.  *)
(* A CRC is taken to tell every whole frame from everything else.          *)
(***************************************************************************)
EXTENDS RtuStream

CONSTANTS
  RingCapacity,          \* UART_RTU_RING_CAPACITY, 512
  Content, Length,       \* contents of frames, bytes in each
  MaxBusy,               \* longest time the main loop is away, or is stalled
  MaxFrames,             \* bound: frames sent
  MaxNoise               \* bound: bytes damaged on the line

ASSUME UartAssumption ==
  /\ RingCapacity \in Nat /\ RingCapacity >= 2
  /\ Length \in [Content -> 1 .. MaxAdu]
  /\ MaxBusy \in Nat \ {0} /\ MaxFrames \in Nat /\ MaxNoise \in Nat

\* A byte on the line: of which frame sent, and its place there; 0 if damaged.
Byte == [frame : 1 .. MaxFrames, index : 0 .. MaxAdu]
NoByte == [frame |-> 0, index |-> 0]

NoItem == [byte |-> NoByte, stamp |-> 0]

Slot == 0 .. (RingCapacity - 1)

VARIABLES
  now,                   \* TIM2->CNT
  away,                  \* ticks since the main loop last asked for a frame
  sent,                  \* contents of the frames sent so far, the last begun
  next,                  \* bytes of the last one that are out
  silence,               \* ticks since the last byte, up to FrameGap
  noise,                 \* bytes damaged so far
  data, overrun,         \* USART1: the data register, the ORE flag
  armed,                 \* the HAL has a receive of one byte under way
  stalled,               \* the processor waits for the flash
  ring, head, tail,      \* s_rx_ring, s_rx_head, s_rx_tail
  pc, item,              \* the main loop in uart_rtu_transport_receive
  stream,                \* s_stream
  handed,                \* observer: the frames accepted, in order
  spoiled                \* observer: frames that something happened to

line == <<sent, next, silence, noise>>
usart == <<data, overrun, armed>>
buffer == <<ring, head, tail>>
main == <<pc, item, stream, handed>>
vars == <<now, away, line, usart, stalled, buffer, main, spoiled>>

Init ==
  /\ now = 0 /\ away = 0
  /\ sent = <<>> /\ next = 0 /\ silence = FrameGap /\ noise = 0
  /\ data = NoByte /\ overrun = FALSE /\ armed = TRUE /\ stalled = FALSE
  /\ ring = [i \in Slot |-> NoItem]
  /\ head = 0 /\ tail = 0
  /\ pc = "pop" /\ item = NoItem
  /\ stream = NoStream
  /\ handed = <<>> /\ spoiled = {}

-----------------------------------------------------------------------------
\* The line and the clock.

\* RXNE is set and RXNEIE too.
Pending == data # NoByte /\ armed

MidFrame == next > 0 /\ next < Length[sent[Len(sent)]]

\* The slots with bytes that were not taken out yet, by how far behind tail they are.
Behind(t, i) == IF i >= t THEN i - t ELSE i - t + RingCapacity

Pos(i) == Behind(tail, i)

UnreadSlot == {i \in Slot : Pos(i) < Pos(head)}

\* The byte the stream got last.
LastByte == stream.current[Len(stream.current)]

\* The time stamps that will be compared, with their bytes.
Stamped ==
  {ring[i] : i \in UnreadSlot}
    \cup (IF stream.current = <<>> THEN {}
          ELSE {[byte |-> LastByte, stamp |-> stream.stamp]})

\* The frames of bytes whose time stamp is wrong from the time at on: a byte that waits
\* in the data register while the processor is stalled gets a late one, and one that
\* waited for a whole period of the clock, 71 minutes, counts as new.
Mistimed(at) ==
  (IF stalled /\ Pending THEN {data.frame} ELSE {})
    \cup {x.byte.frame : x \in {y \in Stamped : y.stamp = at}}

\* The sender leaves no pause inside a frame; the interrupt is served at once
\* unless the processor is stalled; taking bytes out of the ring and looking at
\* the clock takes the main loop less than a tick.  A wrong time stamp is compared
\* with those of the frame that is on the line then, or of the one after it.
Tick ==
  /\ pc \in {"pop", "handle"}
  /\ MidFrame => silence < InterChar
  /\ Pending => stalled
  /\ away < MaxBusy
  /\ now' = (now + 1) % Wrap
  /\ away' = away + 1
  /\ silence' = IF silence < FrameGap THEN silence + 1 ELSE silence
  /\ spoiled' = IF Mistimed(now') = {} THEN spoiled
                ELSE spoiled \cup Mistimed(now') \cup {Len(sent), Len(sent) + 1}
  /\ UNCHANGED <<sent, next, noise, usart, stalled, buffer, main>>

\* A byte reaches the data register, or finds it full.
Receive(byte) ==
  /\ silence' = 0
  /\ IF data = NoByte THEN data' = byte /\ UNCHANGED overrun
                      ELSE overrun' = TRUE /\ UNCHANGED data
  /\ spoiled' = IF (stalled /\ Pending) \/ byte.index = 0
                THEN spoiled \cup {byte.frame} ELSE spoiled
  /\ UNCHANGED <<now, away, armed, stalled, buffer, main>>

SendByte ==
  /\ silence > 0
  /\ \/ /\ MidFrame
        /\ next' = next + 1 /\ UNCHANGED sent
     \/ /\ ~ MidFrame /\ silence = FrameGap /\ Len(sent) < MaxFrames
        /\ next' = 1 /\ \E c \in Content : sent' = Append(sent, c)
  /\ \/ Receive([frame |-> Len(sent'), index |-> next']) /\ UNCHANGED noise
     \/ /\ noise < MaxNoise /\ noise' = noise + 1
        /\ Receive([frame |-> Len(sent'), index |-> 0])

-----------------------------------------------------------------------------
\* The interrupt.

\* Mutant: the index is not masked.
MutNextIndex(i) == i + 1

NextIndex(i) == (i + 1) % RingCapacity

RingFull == NextIndex(head) = tail

\* Mutant: the ring is never full.
MutStore ==
  /\ ring' = [ring EXCEPT ![head] = [byte |-> data, stamp |-> now]]
  /\ head' = NextIndex(head)
  /\ UNCHANGED <<tail, spoiled>>

\* HAL_UART_RxCpltCallback: the byte is stored, or dropped if the ring is full.
Store ==
  IF RingFull
  THEN spoiled' = spoiled \cup {data.frame} /\ UNCHANGED buffer
  ELSE /\ ring' = [ring EXCEPT ![head] = [byte |-> data, stamp |-> now]]
       /\ head' = NextIndex(head)
       /\ UNCHANGED <<tail, spoiled>>

\* HAL_UART_Receive_IT at the end of the callback: it succeeds, since the HAL has
\* ended the receive that called it.  After an overrun or a damaged byte the HAL
\* also calls HAL_UART_ErrorCallback, which ends that receive and starts another.
Rearm == armed' = TRUE

Interrupt ==
  /\ Pending /\ ~ stalled
  /\ data' = NoByte /\ overrun' = FALSE
  /\ Store
  /\ Rearm
  /\ UNCHANGED <<now, away, line, stalled, main>>

-----------------------------------------------------------------------------
\* The main loop: uart_rtu_transport_receive, whose first check finds no frame
\* since every frame was taken by the call that completed it.

\* The bytes are those of one whole frame, or of two of the same content.
Whole(bytes) ==
  \E c \in Content :
    /\ Len(bytes) = Length[c]
    /\ \A i \in DOMAIN bytes : bytes[i].index = i /\ sent[bytes[i].frame] = c

\* The frame is taken and goes to the service, which drops it if its CRC is wrong.
HandOver(s) ==
  /\ stream' = Take(s)
  /\ pc' = "handle"
  /\ handed' = IF Whole(s.completed)
               THEN Append(handed, s.completed[Len(s.completed)].frame) ELSE handed

PopStart ==
  /\ pc = "pop" /\ ~ stalled
  /\ IF tail = head THEN pc' = "poll" /\ UNCHANGED item
                    ELSE pc' = "popped" /\ item' = ring[tail]
  /\ UNCHANGED <<now, away, line, usart, stalled, buffer, stream, handed, spoiled>>

\* The slot is given back (what it held is forgotten here: nobody may read it),
\* then the byte goes to the stream.  Overflow drops what there is; BUSY would
\* end the loop with the byte lost.
PopEnd ==
  /\ pc = "popped" /\ ~ stalled
  /\ tail' = NextIndex(tail) /\ ring' = [ring EXCEPT ![tail] = NoItem]
  /\ item' = NoItem
  /\ LET fed == Feed(stream, item.byte, item.stamp)
     IN IF fed.status = "FRAME_READY" THEN HandOver(fed.stream)
        ELSE /\ stream' = IF fed.status = "OVERFLOW" THEN NoStream ELSE fed.stream
             /\ pc' = IF fed.status = "BUSY" THEN "poll" ELSE "pop"
             /\ UNCHANGED handed
  /\ UNCHANGED <<now, away, line, usart, stalled, head, spoiled>>

\* Nothing left in the ring: is the frame complete by now?  If not, the main loop
\* comes back; the time it takes for that is that of any call.
PollStream ==
  /\ pc = "poll" /\ ~ stalled
  /\ LET polled == Poll(stream, now)
     IN IF polled.status = "FRAME_READY"
        THEN HandOver(polled.stream) /\ UNCHANGED away
        ELSE pc' = "pop" /\ away' = 0 /\ UNCHANGED <<stream, handed>>
  /\ UNCHANGED <<now, line, usart, stalled, buffer, item, spoiled>>

\* The service handles the frame; a flash operation may stall it meanwhile.
Handled ==
  /\ pc = "handle" /\ ~ stalled
  /\ pc' = "pop" /\ away' = 0
  /\ UNCHANGED <<now, line, usart, stalled, buffer, item, stream, handed, spoiled>>

StallBegins ==
  /\ pc = "handle" /\ ~ stalled
  /\ stalled' = TRUE
  /\ UNCHANGED <<now, away, line, usart, buffer, main, spoiled>>

StallEnds ==
  /\ stalled
  /\ stalled' = FALSE
  /\ UNCHANGED <<now, away, line, usart, buffer, main, spoiled>>

-----------------------------------------------------------------------------
Next ==
  \/ Tick \/ SendByte \/ Interrupt
  \/ PopStart \/ PopEnd \/ PollStream \/ Handled
  \/ StallBegins \/ StallEnds

Spec == Init /\ [][Next]_vars

\* The clock runs, a frame that was begun is sent to its end, and whatever the
\* processor executes it goes on executing.
Fairness ==
  /\ SF_vars(Tick)
  /\ WF_vars(MidFrame /\ SendByte)
  /\ WF_vars(Interrupt)
  /\ WF_vars(PopStart \/ PopEnd \/ PollStream)
  /\ SF_vars(Handled)
  /\ WF_vars(StallEnds)

FairSpec == Spec /\ Fairness

-----------------------------------------------------------------------------
Item == [byte : Byte \cup {NoByte}, stamp : Clock]

\* Every variable has its type.
TypeOK ==
  /\ now \in Clock /\ away \in 0 .. MaxBusy
  /\ sent \in Seq(Content) /\ Len(sent) <= MaxFrames
  /\ next \in 0 .. MaxAdu /\ silence \in 0 .. FrameGap /\ noise \in 0 .. MaxNoise
  /\ data \in Byte \cup {NoByte}
  /\ overrun \in BOOLEAN /\ armed \in BOOLEAN /\ stalled \in BOOLEAN
  /\ ring \in [Slot -> Item] /\ head \in Slot /\ tail \in Slot
  /\ pc \in {"pop", "popped", "poll", "handle"} /\ item \in Item
  /\ stream \in [current : Seq(Byte), stamp : Clock, completed : Seq(Byte),
                 ready : BOOLEAN]
  /\ handed \in Seq(1 .. MaxFrames)
  /\ spoiled \in SUBSET (0 .. MaxFrames + 1)

\* The bytes inside the node, from the stream to the data register.
Inside ==
  stream.current \o [k \in 1 .. Pos(head) |-> ring[(tail + k - 1) % RingCapacity].byte]
    \o (IF data = NoByte THEN <<>> ELSE <<data>>)

\* The bytes of frame n that are out.
Sent(n) == IF n = Len(sent) THEN next ELSE Length[sent[n]]

\* The bytes of frame n are inside to the last that is out, in order and each once.
IsInside(n) ==
  LET places == {i \in DOMAIN Inside : Inside[i].frame = n}
  IN /\ {Inside[i].index : i \in places} = 1 .. Sent(n)
     /\ \A i, j \in places : i < j => Inside[i].index < Inside[j].index

\* The interrupt and the main loop share the ring without a lock, yet a frame
\* that no stall, full ring, noise or wait of a whole period of the clock touched is
\* inside, to its last byte and in order, until it is handed over: no unread slot is
\* overwritten, and a clock that wraps, the frame before it, a spoiled or repeated
\* one included, or a dropped byte cost nothing.
CleanFramesAreKept ==
  \A n \in (1 .. Len(sent)) \ spoiled :
    (\E i \in DOMAIN handed : handed[i] = n) \/ IsInside(n)

\* In order, at most once, none made up: the stream never hands a frame over
\* again and never one whose bytes are not all of one content.
Channel == INSTANCE FrameChannel WITH count <- Len(sent), handed <- handed
ChannelSpec == Channel!Spec

\* It is handed over in the end, also when nothing follows it on the line: polls less
\* than a period apart, by the silence they look for, cannot all miss its end.
CleanFramesArrive ==
  \A n \in 1 .. MaxFrames :
    (/\ n <= Len(sent) /\ n \notin spoiled
     /\ n = Len(sent) => ~ MidFrame /\ data = NoByte)
      ~> \/ \E i \in DOMAIN handed : handed[i] = n
         \/ n < Len(sent) /\ n \in spoiled
=============================================================================
