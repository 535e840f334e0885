----------------------------- MODULE MCUpgrade ------------------------------
(***************************************************************************)
(* A gateway and a node for TLC: image a from the factory, b to install.   *)
(***************************************************************************)
EXTENDS Upgrade, TLC

CONSTANTS a, b

MCSize == a :> 1 @@ b :> 2
MCVersion == a :> 1 @@ b :> 2
MCManifest == {[image |-> b, version |-> 2], [image |-> a, version |-> 1]}
=============================================================================
