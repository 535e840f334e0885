---------------------------- MODULE JournalSpec ----------------------------
(***************************************************************************)
(* The promise of boot_metadata.h as a state machine.  A call that writes  *)
(* is answered OK once its effect is complete; when power or the flash     *)
(* fails it leaves one of the few values Journal names.  A call that does  *)
(* not write says why.  BootMetadata is shown to implement it.             *)
(***************************************************************************)
EXTENDS Journal

CONSTANT Payload                      \* the contents a record may carry

VARIABLES
  journal,               \* the journal between calls
  call,                  \* the call that is writing
  result                 \* what the last call returned; NONE during one

vars == <<journal, call, result>>

NoCall == [op |-> "none"]
Appending(p) == [op |-> "append", payload |-> p]
Compacting(p) == [op |-> "compact", payload |-> p]

Init == journal = EmptyJournal /\ call = NoCall /\ result = "NONE"

-----------------------------------------------------------------------------
Begin(c) ==
  /\ call = NoCall
  /\ call' = c
  /\ result' = "NONE"
  /\ UNCHANGED journal

BeginAppend(p) == CanAppend(journal) /\ Begin(Appending(p))

BeginCompact(n) == CanCompact(journal, n) /\ Begin(Compacting(journal.latest))

Return(j, r) == journal' = j /\ call' = NoCall /\ result' = r

\* An error is reported, or power is lost and nobody hears anything.
Interrupted(j) == \E r \in {"FAILED", "NONE"} : Return(j, r)

EndAppend(p) ==
  /\ call = Appending(p)
  /\ \/ Return(AppendDone(journal, p), "OK")
     \/ \E j \in AppendCut(journal, p) : Interrupted(j)

EndCompact ==
  /\ call = Compacting(journal.latest)
  /\ \/ Return(CompactDone(journal), "OK")
     \/ \E j \in CompactCut(journal) : Interrupted(j)

-----------------------------------------------------------------------------
\* Calls that write nothing.
Answer(r) == call = NoCall /\ Return(journal, r)

\* There was room already.
HadRoom(n) == HasRoom(journal, n) /\ Answer("OK")

\* The journal is corrupt, or full and not to be compacted.
Unavailable ==
  /\ \/ ~ CanAppend(journal)
     \/ \E n \in 1 .. (Capacity - 1) :
          ~ HasRoom(journal, n) /\ ~ CanCompact(journal, n)
  /\ Answer("UNAVAILABLE")

\* The caller's arguments, or the sequence numbers, are at an end.
Refused == Answer("REFUSED")

Next ==
  \/ \E p \in Payload : BeginAppend(p) \/ EndAppend(p)
  \/ \E n \in 1 .. (Capacity - 1) : BeginCompact(n) \/ HadRoom(n)
  \/ EndCompact \/ Unavailable \/ Refused

Spec == Init /\ [][Next]_vars
=============================================================================
