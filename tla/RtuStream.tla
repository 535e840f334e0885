----------------------------- MODULE RtuStream ------------------------------
(***************************************************************************)
(* modbus_rtu_stream.c: cutting a stream of time-stamped bytes into frames *)
(* at the silences between them.  A stream is a value; each operator is    *)
(* one function of the file.                                               *)
(***************************************************************************)
EXTENDS Integers, Sequences

CONSTANTS
  Wrap,                  \* the microsecond clock counts modulo this, 2^32
  InterChar, FrameGap,   \* MODBUS_RTU_115200_T1_5_US and _T3_5_US
  MaxAdu                 \* MODBUS_RTU_MAX_ADU_SIZE

\* What modbus_rtu_stream_init insists on, and a clock that can tell them apart.
ASSUME StreamAssumption ==
  /\ InterChar \in Nat \ {0} /\ FrameGap \in Nat /\ Wrap \in Nat
  /\ InterChar < FrameGap /\ FrameGap < Wrap
  /\ MaxAdu \in Nat \ {0}

Clock == 0 .. (Wrap - 1)

\* current_frame with its length is a sequence; it is empty if not receiving.
NoStream == [current |-> <<>>, stamp |-> 0, completed |-> <<>>, ready |-> FALSE]

\* Mutant: the difference is not taken modulo the width of the clock.
MutElapsed(from, to) == to - from

\* uint32_t subtraction
Elapsed(from, to) == (to - from + Wrap) % Wrap

StartFrame(s, byte, at) == [s EXCEPT !.current = <<byte>>, !.stamp = at]

\* last_byte_timestamp_us means nothing while there is no byte.
Complete(s) ==
  [current |-> <<>>, stamp |-> 0, completed |-> s.current, ready |-> TRUE]

Result(s, status) == [stream |-> s, status |-> status]

\* modbus_rtu_stream_feed
Feed(s, byte, at) ==
  LET elapsed == Elapsed(s.stamp, at)
  IN IF s.ready THEN Result(s, "BUSY")
     ELSE IF s.current = <<>> THEN Result(StartFrame(s, byte, at), "NO_FRAME")
     ELSE IF elapsed >= FrameGap
     THEN Result(StartFrame(Complete(s), byte, at), "FRAME_READY")
     ELSE IF elapsed > InterChar
     THEN Result(StartFrame(s, byte, at), "INTERCHAR_TIMEOUT")
     ELSE IF Len(s.current) >= MaxAdu
     THEN Result([s EXCEPT !.current = <<>>], "OVERFLOW")
     ELSE Result([s EXCEPT !.current = Append(@, byte), !.stamp = at], "NO_FRAME")

\* Mutant: only the next byte ends a frame.
MutPoll(s, at) == Result(s, IF s.ready THEN "FRAME_READY" ELSE "NO_FRAME")

\* modbus_rtu_stream_poll
Poll(s, at) ==
  IF s.ready THEN Result(s, "FRAME_READY")
  ELSE IF s.current # <<>> /\ Elapsed(s.stamp, at) >= FrameGap
  THEN Result(Complete(s), "FRAME_READY")
  ELSE Result(s, "NO_FRAME")

\* Mutant: the frame stays.
MutTake(s) == s

\* modbus_rtu_stream_take_frame; the caller's buffer holds any frame.
Take(s) == [s EXCEPT !.completed = <<>>, !.ready = FALSE]
=============================================================================
