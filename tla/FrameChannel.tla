---------------------------- MODULE FrameChannel ----------------------------
(***************************************************************************)
(* What the receiver of the node promises the upgrade service about the    *)
(* serial line: frames are handed over in the order in which they were     *)
(* sent, each at most once, none that was not sent.  Frames may be lost.   *)
(***************************************************************************)
EXTENDS Naturals, Sequences

VARIABLES
  count,                 \* frames whose transmission has begun
  handed                 \* the frames handed over

vars == <<count, handed>>

Init == count = 0 /\ handed = <<>>

Send == count' = count + 1 /\ UNCHANGED handed

\* Later than all handed over before, and sent.
Deliver ==
  /\ \E f \in 1 .. count :
       /\ \A i \in DOMAIN handed : handed[i] < f
       /\ handed' = Append(handed, f)
  /\ UNCHANGED count

Next == Send \/ Deliver

Spec == Init /\ [][Next]_vars
=============================================================================
