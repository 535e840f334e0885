---------------------------- MODULE MCDownloader ----------------------------
(* Two releases of the wanted id, of which one replaces the other, and one   *)
(* of another id that is shorter: a tail of the longer one may stay behind.  *)
EXTENDS Downloader, TLC

CONSTANTS a, b, a1, a2, b1

MCIds == {a, b}
MCReleases == {a1, a2, b1}
MCIdOf == (a1 :> a) @@ (a2 :> a) @@ (b1 :> b)

\* Everything may go wrong, a little.
MCFaults == [network |-> 0, local |-> 1, reset |-> 2, cancel |-> 1,
             validate |-> 1,
             publish |-> 1]
\* The gateway itself works: only the network, the user and the server do not.
MCWorking == [network |-> 2, local |-> 0, reset |-> 0, cancel |-> 2,
              validate |-> 1,
              publish |-> 1]
\* One reset and nothing else.
MCOneReset == [network |-> 0, local |-> 0, reset |-> 1, cancel |-> 1,
               validate |-> 0,
               publish |-> 0]

MCSize == (a1 :> 3) @@ (a2 :> 3) @@ (b1 :> 2)
=============================================================================
