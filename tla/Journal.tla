------------------------------ MODULE Journal ------------------------------
(***************************************************************************)
(* What the upgrade journal of flash sector 4 means to its callers         *)
(* (boot_metadata.c seen through boot_metadata.h).  A journal is a value:  *)
(* the record a scan would select and the number of erased slots left.     *)
(* BootMetadata implements these operators slot by slot; JournalSpec is    *)
(* their state machine; Device is built on them.                           *)
(***************************************************************************)
EXTENDS Integers

CONSTANT Capacity                     \* BOOT_METADATA_RECORD_CAPACITY, 862

ASSUME CapacityAssumption == Capacity \in Nat /\ Capacity >= 2

BootState == {"EMPTY", "APP_VALID", "UPDATE_REQUESTED", "ERASING", "RECEIVING",
              "VERIFYING", "PENDING_BOOT", "CONFIRMED", "FAILED"}

\* No valid record: the scan's has_valid_record is false.
NoRecord == [state |-> "NONE"]

SafeToCompact(state) ==
  state \in {"EMPTY", "APP_VALID", "PENDING_BOOT", "CONFIRMED"}

\* Mutant: only a transfer in progress keeps the application from starting.
MutAllowsAppBoot(state) == state \notin {"ERASING", "RECEIVING", "VERIFYING"}

AllowsAppBoot(state) ==
  state \in {"EMPTY", "APP_VALID", "PENDING_BOOT", "CONFIRMED"}

JournalOf(Payload) == [latest : Payload \cup {NoRecord}, free : 0 .. Capacity]

EmptyJournal == [latest |-> NoRecord, free |-> Capacity]

\* Some slot is programmed and none holds a valid record.
Corrupt(j) == j.latest = NoRecord /\ j.free < Capacity

\* A slot whose programming stopped before the commit marker.
Tear(j) == [j EXCEPT !.free = @ - 1]

(***************************************************************************)
(* Compaction: erase the sector, write the latest record to slot 0.  Cut   *)
(* short it leaves the sector as it was, erased, or with slot 0 torn; an   *)
(* error may also be reported for a word that was programmed.              *)
(***************************************************************************)
CompactDone(j) == [latest |-> j.latest, free |-> Capacity - 1]

CompactCut(j) == {j, EmptyJournal, Tear(EmptyJournal), CompactDone(j)}

(***************************************************************************)
(* Appending: to the first erased slot, after a compaction if none is left *)
(* (the new record then goes to slot 1).                                   *)
(***************************************************************************)
CanAppend(j) == ~ Corrupt(j) /\ (j.free > 0 \/ SafeToCompact(j.latest.state))

AppendDone(j, p) ==
  [latest |-> p, free |-> IF j.free > 0 THEN j.free - 1 ELSE Capacity - 2]

AppendCut(j, p) ==
  IF j.free > 0 THEN {j, Tear(j), AppendDone(j, p)}
                ELSE CompactCut(j) \cup {Tear(CompactDone(j)), AppendDone(j, p)}

(***************************************************************************)
(* boot_metadata_compact_if_needed(n): the cases in which it succeeds      *)
(* (BOOT_METADATA_OK or BOOT_METADATA_EMPTY) and those in which it erases. *)
(***************************************************************************)
HasRoom(j, n) == n \in 1 .. (Capacity - 1) /\ j.free >= n /\ ~ Corrupt(j)

CanCompact(j, n) ==
  n \in 1 .. (Capacity - 1) /\ j.free < n /\ SafeToCompact(j.latest.state)
=============================================================================
