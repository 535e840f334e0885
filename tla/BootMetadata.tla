---------------------------- MODULE BootMetadata ----------------------------
(***************************************************************************)
(* boot_metadata.c: the append-only journal in flash sector 4, slot by     *)
(* slot.  One public call runs at a time (the firmware has one thread), so *)
(* the only thing that can happen inside a call is that the flash reports  *)
(* an error or that power is lost.  Each flash operation is one step.      *)
(***************************************************************************)
EXTENDS Journal, Sequences, FiniteSets, FiniteSetsExt

CONSTANTS
  State,                 \* the boot states the callers write
  Data,                  \* the rest of a payload: session, manifest, progress
  Malformed,             \* a payload that boot_metadata_payload_is_valid rejects
  SeqLimit,              \* the last sequence number given out, 0xFFFFFFFE
  PartialErase,          \* may an interrupted erase leave some slots behind?
  Erased, Torn           \* slot contents: all ones; programmed but not valid

ASSUME MetadataAssumption ==
  /\ State \subseteq BootState
  /\ SeqLimit \in Nat /\ SeqLimit >= 1
  /\ PartialErase \in BOOLEAN
  /\ Malformed \notin Data
  /\ Erased # Torn

Slot == 0 .. (Capacity - 1)

Payload == [state : State, data : Data]

Record == [seq : 1 .. SeqLimit, state : State, data : Data]

ASSUME ContentAssumption == Erased \notin Record /\ Torn \notin Record

VARIABLES
  slots,                 \* the sector
  pc,                    \* where the current call is: "idle" between calls
  scan,                  \* boot_metadata_scan_t on the stack of the call
  todo,                  \* the slots the call still has to program
  status,                \* what the last call returned
  acked                  \* the record the last successful call left as latest

vars == <<slots, pc, scan, todo, status, acked>>

-----------------------------------------------------------------------------
\* boot_metadata_scan

ValidSlots(sl) == {i \in Slot : sl[i] \in Record}

ErasedSlots(sl) == {i \in Slot : sl[i] = Erased}

\* Mutant: the scan keeps the first valid record it meets.
MutLatestSlot(sl) ==
  CHOOSE i \in ValidSlots(sl) : \A k \in ValidSlots(sl) : i <= k

\* The strictly greatest sequence number wins, the lower slot on a tie.
LatestSlot(sl) ==
  CHOOSE i \in ValidSlots(sl) :
    \A k \in ValidSlots(sl) : \/ sl[k].seq < sl[i].seq
                              \/ sl[k].seq = sl[i].seq /\ i <= k

Latest(sl) == IF ValidSlots(sl) = {} THEN NoRecord ELSE sl[LatestSlot(sl)]

LatestSeq(sl) == IF ValidSlots(sl) = {} THEN 0 ELSE sl[LatestSlot(sl)].seq

\* Mutant: the slot after the valid records, torn slots forgotten.
MutFirstErased(sl) ==
  IF ErasedSlots(sl) = {} THEN Capacity ELSE Cardinality(ValidSlots(sl))

FirstErased(sl) ==
  IF ErasedSlots(sl) = {} THEN Capacity ELSE Min(ErasedSlots(sl))

Scan(sl) == [latest |-> Latest(sl),
             first  |-> FirstErased(sl),
             free   |-> Cardinality(ErasedSlots(sl))]

HasUsedSlot(s) == s.free < Capacity

NoScan == [latest |-> NoRecord, first |-> Capacity, free |-> 0]

\* boot_metadata_load_latest
LoadStatus(s) == IF s.latest # NoRecord THEN "OK"
                 ELSE IF HasUsedSlot(s) THEN "CORRUPT" ELSE "EMPTY"

-----------------------------------------------------------------------------
\* The checks a call makes before it touches the flash, in the code's order.

\* Mutant: the sequence number may pass its limit.
MutAppendNoLimit(s, p) ==
  CASE p.data = Malformed                                 -> "INVALID_ARGUMENT"
    [] p.data # Malformed /\ LoadStatus(s) = "CORRUPT"    -> "CORRUPT"
    [] p.data # Malformed /\ LoadStatus(s) = "OK"
         /\ s.first = Capacity
         /\ ~ SafeToCompact(s.latest.state)               -> "UNSAFE_STATE"
    [] OTHER                                              -> "OK"

\* Mutant: a journal with no valid record is taken for an empty one.
MutAppendNoCorrupt(s, p) ==
  CASE p.data = Malformed                                 -> "INVALID_ARGUMENT"
    [] p.data # Malformed /\ s.latest # NoRecord
         /\ s.latest.seq >= SeqLimit                      -> "SEQUENCE_EXHAUSTED"
    [] p.data # Malformed /\ s.first = Capacity
         /\ ~ SafeToCompact(s.latest.state)               -> "UNSAFE_STATE"
    [] OTHER                                              -> "OK"

AppendStatus(s, p) ==
  CASE p.data = Malformed                                 -> "INVALID_ARGUMENT"
    [] p.data # Malformed /\ LoadStatus(s) = "CORRUPT"    -> "CORRUPT"
    [] p.data # Malformed /\ LoadStatus(s) = "OK"
         /\ s.latest.seq >= SeqLimit                      -> "SEQUENCE_EXHAUSTED"
    [] p.data # Malformed /\ LoadStatus(s) = "OK"
         /\ s.latest.seq < SeqLimit /\ s.first = Capacity
         /\ ~ SafeToCompact(s.latest.state)               -> "UNSAFE_STATE"
    [] OTHER                                              -> "OK"

\* Mutant: the state of the latest record is not looked at.
MutCompactStatus(s, n) ==
  CASE n \notin 1 .. (Capacity - 1)                       -> "INVALID_ARGUMENT"
    [] n \in 1 .. (Capacity - 1)
         /\ (s.free >= n \/ s.latest = NoRecord)          -> LoadStatus(s)
    [] OTHER                                              -> "COMPACT"

CompactStatus(s, n) ==
  CASE n \notin 1 .. (Capacity - 1)                       -> "INVALID_ARGUMENT"
    [] n \in 1 .. (Capacity - 1)
         /\ (s.free >= n \/ s.latest = NoRecord)          -> LoadStatus(s)
    [] n \in 1 .. (Capacity - 1) /\ s.free < n
         /\ s.latest # NoRecord
         /\ ~ SafeToCompact(s.latest.state)               -> "UNSAFE_STATE"
    [] OTHER                                              -> "COMPACT"

\* Mutant: the new record reuses the latest sequence number.
MutNextSeq(s) == IF s.latest = NoRecord THEN 1 ELSE s.latest.seq

NextSeq(s) == IF s.latest = NoRecord THEN 1 ELSE s.latest.seq + 1

Prepared(s, p) == [seq |-> NextSeq(s), state |-> p.state, data |-> p.data]

-----------------------------------------------------------------------------
Init ==
  /\ slots = [i \in Slot |-> Erased]
  /\ pc = "idle"
  /\ scan = NoScan
  /\ todo = << >>
  /\ status = "NONE"
  /\ acked = NoRecord

Return(st) ==
  /\ pc' = "idle"
  /\ scan' = NoScan
  /\ todo' = << >>
  /\ status' = st

\* boot_metadata_append, up to its first flash operation.  After a compaction
\* first_erased_slot is set to 1, not looked up again.
AppendRecord(p) ==
  /\ pc = "idle"
  /\ UNCHANGED <<slots, acked>>
  /\ LET s == Scan(slots)
         new == Prepared(s, p)
     IN IF AppendStatus(s, p) # "OK" THEN Return(AppendStatus(s, p))
        ELSE /\ scan' = s
             /\ status' = "NONE"
             /\ IF s.first < Capacity
                THEN /\ pc' = "program"
                     /\ todo' = <<[slot |-> s.first, rec |-> new]>>
                ELSE /\ pc' = "erase"
                     /\ todo' = <<[slot |-> 0, rec |-> s.latest],
                                  [slot |-> 1, rec |-> new]>>

\* boot_metadata_compact_if_needed, up to its first flash operation.
CompactIfNeeded(n) ==
  /\ pc = "idle"
  /\ UNCHANGED <<slots, acked>>
  /\ LET s == Scan(slots)
     IN IF CompactStatus(s, n) # "COMPACT" THEN Return(CompactStatus(s, n))
        ELSE /\ scan' = s
             /\ status' = "NONE"
             /\ pc' = "erase"
             /\ todo' = <<[slot |-> 0, rec |-> s.latest]>>

EraseSector ==
  /\ pc = "erase"
  /\ slots' = [i \in Slot |-> Erased]
  /\ pc' = "program"
  /\ UNCHANGED <<scan, todo, status, acked>>

Target == Head(todo).slot

\* boot_metadata_write_slot: everything but the commit marker.
ProgramBody ==
  /\ pc = "program"
  /\ UNCHANGED acked
  /\ IF slots[Target] = Erased
     THEN /\ slots' = [slots EXCEPT ![Target] = Torn]
          /\ pc' = "commit"
          /\ UNCHANGED <<scan, todo, status>>
     ELSE Return("INVALID_RECORD") /\ UNCHANGED slots

Committed == [slots EXCEPT ![Target] = Head(todo).rec]

\* The commit marker; the call returns after its last slot.
ProgramCommit ==
  /\ pc = "commit"
  /\ slots' = Committed
  /\ IF Len(todo) = 1
     THEN Return("OK") /\ acked' = Head(todo).rec
     ELSE /\ pc' = "program"
          /\ todo' = Tail(todo)
          /\ UNCHANGED <<scan, status, acked>>

-----------------------------------------------------------------------------
\* What a flash operation that did not finish may leave in the sector.

EraseCut ==
  IF PartialErase
  THEN {sl \in [Slot -> {slots[i] : i \in Slot} \cup {Erased, Torn}] :
          \A i \in Slot : sl[i] \in {slots[i], Erased, Torn}}
  ELSE {slots, [i \in Slot |-> Erased]}

ProgramCut ==
  IF slots[Target] = Erased THEN {slots, [slots EXCEPT ![Target] = Torn]}
                            ELSE {slots}

CommitCut == {slots, Committed}

\* Unlock, erase, program, read-back verification or the final lock fails: the
\* call returns an error, though its last word may have been programmed.
FlashError ==
  /\ \/ pc = "erase"   /\ slots' \in EraseCut   /\ Return("ERASE_ERROR")
     \/ pc = "program" /\ slots' \in ProgramCut /\ Return("PROGRAM_ERROR")
     \/ pc = "commit"  /\ slots' \in CommitCut  /\ Return("LOCK_ERROR")
  /\ UNCHANGED acked

\* Power is lost in the middle of a call.
PowerLoss ==
  /\ \/ pc = "erase"   /\ slots' \in EraseCut
     \/ pc = "program" /\ slots' \in ProgramCut
     \/ pc = "commit"  /\ slots' \in CommitCut
  /\ Return("NONE")
  /\ UNCHANGED acked

Next ==
  \/ \E p \in [state : State, data : Data \cup {Malformed}] : AppendRecord(p)
  \/ \E n \in 0 .. Capacity : CompactIfNeeded(n)
  \/ EraseSector
  \/ ProgramBody
  \/ ProgramCommit
  \/ FlashError
  \/ PowerLoss

Spec == Init /\ [][Next]_vars

-----------------------------------------------------------------------------
Write == [slot : Slot, rec : Record]

Status == {"NONE", "OK", "EMPTY", "CORRUPT", "INVALID_ARGUMENT", "INVALID_RECORD",
           "SEQUENCE_EXHAUSTED", "UNSAFE_STATE", "ERASE_ERROR", "PROGRAM_ERROR",
           "LOCK_ERROR"}

\* Every variable has its type.
TypeOK ==
  /\ slots \in [Slot -> Record \cup {Erased, Torn}]
  /\ pc \in {"idle", "erase", "program", "commit"}
  /\ scan \in [latest : Record \cup {NoRecord}, first : 0 .. Capacity,
               free : 0 .. Capacity]
  /\ \/ todo = << >> /\ pc = "idle"
     \/ todo \in [1 .. 1 -> Write] /\ pc # "idle"
     \/ todo \in [1 .. 2 -> Write] /\ pc # "idle"
  /\ status \in Status
  /\ acked \in Record \cup {NoRecord}

\* No two slots hold valid records with the same sequence number, so "the
\* latest record" is well defined whatever calls, flash errors and power losses
\* led here (boot_metadata_scan's strict comparison, append's sequence + 1).
SequencesDistinct ==
  \A i, k \in ValidSlots(slots) : slots[i].seq = slots[k].seq => i = k

\* Between calls the scan finds a record at least as new as the one the last
\* successful call reported, unless the sector was erased since.  The header
\* comment (boot_metadata.h) says so of compaction too: "compaction preserves
\* that latest record".
AckedRecordSurvives ==
  pc = "idle" /\ acked # NoRecord => LatestSeq(slots) >= acked.seq

\* The latest record goes back only in a compaction, and only from a state in
\* which an image may boot: no error or power loss takes back the record of an
\* update in progress (boot_metadata_compact_latest's state check, append's use
\* of erased slots only).
LatestLostOnlyByCompaction ==
  [][LatestSeq(slots') < LatestSeq(slots)
       => pc = "erase" /\ SafeToCompact(Latest(slots).state)]_vars

\* A call never finds the slot it chose already programmed: first_erased_slot,
\* and the slot 1 assumed after a compaction, are erased when written.
ChosenSlotIsErased == status # "INVALID_RECORD"

\* A journal found corrupt between calls stays as it is: append, and the
\* compaction that could clear the sector, both refuse it.
CorruptIsAbsorbing ==
  [][pc = "idle" /\ LoadStatus(Scan(slots)) = "CORRUPT"
       => pc' = "idle" /\ slots' = slots]_vars

-----------------------------------------------------------------------------
\* What the callers see: the sector between calls, the scan during one.

PayloadOf(r) == IF r = NoRecord THEN NoRecord
                ELSE [state |-> r.state, data |-> r.data]

Seen(s) == [latest |-> PayloadOf(s.latest), free |-> s.free]

\* The call that is writing: the record it writes last is the latest one again
\* if it compacts, and has a new sequence number if it appends.
CallInProgress ==
  IF pc = "idle" THEN [op |-> "none"]
  ELSE LET last == todo[Len(todo)].rec
       IN [op |-> IF last = scan.latest THEN "compact" ELSE "append",
           payload |-> PayloadOf(last)]

\* boot_metadata_status_t as the callers tell its values apart.
ResultOf(st) ==
  CASE st \in {"OK", "EMPTY"}                             -> "OK"
    [] st \in {"CORRUPT", "UNSAFE_STATE"}                 -> "UNAVAILABLE"
    [] st \in {"INVALID_ARGUMENT", "SEQUENCE_EXHAUSTED"}  -> "REFUSED"
    [] st \in {"ERASE_ERROR", "PROGRAM_ERROR", "LOCK_ERROR", "INVALID_RECORD"}
                                                          -> "FAILED"
    [] OTHER                                              -> "NONE"

Abstract == INSTANCE JournalSpec
              WITH journal <- Seen(IF pc = "idle" THEN Scan(slots) ELSE scan),
                   call <- CallInProgress,
                   result <- ResultOf(status)

\* Slot by slot, the journal implements the promise of JournalSpec (for a flash
\* whose interrupted erase is all or nothing): every interleaving of errors and
\* power losses with the three kinds of flash operation ends in a value that
\* JournalSpec allows, and OK is returned for an effect that is complete.
ImplementsJournal == Abstract!Spec
=============================================================================
