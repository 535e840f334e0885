------------------------------ MODULE MCDevice ------------------------------
(***************************************************************************)
(* Small instances of Device for TLC.                                      *)
(***************************************************************************)
EXTENDS Device, TLC

CONSTANTS a, b

\* Image a fills three units and b two; one manifest misstates b's version.
MCSize == a :> 3 @@ b :> 2
MCVersion == a :> 1 @@ b :> 2
MCManifest == {[image |-> a, version |-> 1], [image |-> b, version |-> 2],
               [image |-> b, version |-> 3]}
=============================================================================
