----------------------------- MODULE MCUartRtu ------------------------------
(* Three frames of two bytes, the gateway repeating one request; a ring     *)
(* that holds two bytes, and a clock of the fewest ticks with which no       *)
(* silence is missed for ever, FrameGap + MaxBusy.                          *)
EXTENDS UartRtu

CONSTANTS request

MCContent == {request}
MCLength == [c \in MCContent |-> 2]
=============================================================================
