--------------------------- MODULE MCBootMetadata ---------------------------
(***************************************************************************)
(* Small instances of BootMetadata for TLC.                                *)
(***************************************************************************)
EXTENDS BootMetadata

\* One state that may be compacted away and one that may not.
MCState == {"RECEIVING", "PENDING_BOOT"}
=============================================================================
