------------------------- MODULE BootMetadata_proofs -------------------------
(***************************************************************************)
(* What holds of the journal for every capacity and every sequence of      *)
(* calls, flash errors and power losses.                                   *)
(*                                                                         *)
(* The second half shows that boot_metadata.c, slot by slot, implements    *)
(* the journal that its callers rely on (JournalSpec).  A sector is seen   *)
(* as the record a scan finds and the number of erased slots; the          *)
(* invariant says what a call under way has made of both.                  *)
(***************************************************************************)
EXTENDS BootMetadata, FiniteSetTheorems, SequenceTheorems, WellFoundedInduction,
        TLAPS

-----------------------------------------------------------------------------
\* A set of naturals that is not empty has a smallest element (Min of the scan).
LEMMA SmallestOf ==
  ASSUME NEW T \in SUBSET Nat, T # {}
  PROVE  \E x \in T : \A y \in T : x <= y
<1> DEFINE R == OpToRel(<, Nat)
<1>1. IsWellFoundedOn(R, Nat)
  BY NatLessThanWellFounded
<1>2. \A x, y \in Nat : <<y, x>> \in R <=> y < x
  BY DEF OpToRel
<1> HIDE DEF R
<1>3. PICK x \in T : \A y \in T : ~ (<<y, x>> \in R)
  BY <1>1, WFMin
<1>4. ASSUME NEW y \in T  PROVE  x <= y
  <2>1. x \in Nat /\ y \in Nat
    OBVIOUS
  <2>2. ~ (y < x)
    BY <1>2, <1>3, <2>1, Zenon
  <2> QED
    BY <2>1, <2>2
<1> QED
  BY <1>4

-----------------------------------------------------------------------------
\* The scan.

Sector == [Slot -> Record \cup {Erased, Torn}]

\* Records are none of the special slot contents.
LEMMA RecordTypes ==
  /\ NoRecord \notin Record /\ Erased \notin Record /\ Torn \notin Record
  /\ \A r \in Record : r.seq \in 1 .. SeqLimit /\ r.state \in BootState
<1>1. NoRecord \notin Record
  BY DEF NoRecord, Record
<1> QED
  BY <1>1, ContentAssumption, MetadataAssumption DEF Record

\* The slots that the code names by number exist (slots 0 and 1).
LEMMA SlotTypes == Slot \subseteq Nat /\ 0 \in Slot /\ 1 \in Slot /\ Capacity \notin Slot
  BY CapacityAssumption DEF Slot

\* The scan finds a valid slot with the greatest sequence number, if any is valid.
LEMMA LatestSlotIsLatest ==
  ASSUME NEW sl \in Sector, ValidSlots(sl) # {}
  PROVE  /\ LatestSlot(sl) \in ValidSlots(sl)
         /\ \A k \in ValidSlots(sl) : sl[k].seq <= sl[LatestSlot(sl)].seq
<1> DEFINE V == ValidSlots(sl)
           T == {SeqLimit - sl[i].seq : i \in V}
<1>1. V \subseteq Nat /\ V # {} /\ \A i \in V : sl[i].seq \in 1 .. SeqLimit
  BY RecordTypes, SlotTypes DEF ValidSlots
<1>2. T \in SUBSET Nat /\ T # {}
  BY <1>1, MetadataAssumption
<1>3. PICK x \in T : \A y \in T : x <= y
  BY <1>2, SmallestOf
<1>4. \A k \in V : x <= SeqLimit - sl[k].seq
  BY <1>3
<1> DEFINE U == {i \in V : SeqLimit - sl[i].seq = x}
<1>5. U \in SUBSET Nat /\ U # {}
  BY <1>1
<1>6. PICK i \in U : \A k \in U : i <= k
  BY <1>5, SmallestOf
<1>7. \A k \in V : \/ sl[k].seq < sl[i].seq
                   \/ sl[k].seq = sl[i].seq /\ i <= k
  <2> SUFFICES ASSUME NEW k \in V
               PROVE  sl[k].seq < sl[i].seq \/ (sl[k].seq = sl[i].seq /\ i <= k)
    OBVIOUS
  <2>1. x <= SeqLimit - sl[k].seq /\ x = SeqLimit - sl[i].seq
    BY <1>4
  <2>2. sl[k].seq = sl[i].seq => i <= k
    BY <1>6, <2>1
  <2> QED
    BY <1>1, <2>1, <2>2, MetadataAssumption
<1>8. /\ LatestSlot(sl) \in V
      /\ \A k \in V : \/ sl[k].seq < sl[LatestSlot(sl)].seq
                      \/ sl[k].seq = sl[LatestSlot(sl)].seq /\ LatestSlot(sl) <= k
  BY <1>7 DEF LatestSlot
<1> QED
  BY <1>1, <1>8

\* The record and the sequence number boot_metadata_scan reports.
LEMMA LatestTypes ==
  ASSUME NEW sl \in Sector
  PROVE  /\ Latest(sl) \in Record \cup {NoRecord}
         /\ Latest(sl) = NoRecord <=> ValidSlots(sl) = {}
         /\ LatestSeq(sl) \in 0 .. SeqLimit
         /\ Latest(sl) # NoRecord => LatestSeq(sl) = Latest(sl).seq
         /\ \A k \in ValidSlots(sl) : sl[k].seq <= LatestSeq(sl)
<1>1. CASE ValidSlots(sl) = {}
  BY <1>1, MetadataAssumption DEF Latest, LatestSeq
<1>2. CASE ValidSlots(sl) # {}
  <2>1. sl[LatestSlot(sl)] \in Record
    BY <1>2, LatestSlotIsLatest DEF ValidSlots
  <2> QED
    BY <1>2, <2>1, LatestSlotIsLatest, RecordTypes, MetadataAssumption DEF Latest, LatestSeq
<1> QED
  BY <1>1, <1>2

\* first_erased_slot is an erased slot, or the capacity if there is none.
LEMMA FirstErasedTypes ==
  ASSUME NEW sl \in Sector
  PROVE  /\ FirstErased(sl) \in 0 .. Capacity
         /\ FirstErased(sl) < Capacity
              => FirstErased(sl) \in Slot /\ sl[FirstErased(sl)] = Erased
         /\ FirstErased(sl) = Capacity => ErasedSlots(sl) = {}
<1>1. CASE ErasedSlots(sl) = {}
  BY <1>1, CapacityAssumption DEF FirstErased
<1>2. CASE ErasedSlots(sl) # {}
  <2>1. ErasedSlots(sl) \in SUBSET Nat
    BY SlotTypes DEF ErasedSlots
  <2>2. \E x \in ErasedSlots(sl) : \A y \in ErasedSlots(sl) : x <= y
    BY <1>2, <2>1, SmallestOf
  <2>3. FirstErased(sl) \in ErasedSlots(sl)
    BY <1>2, <2>2 DEF FirstErased, Min
  <2> QED
    BY <2>3, CapacityAssumption DEF ErasedSlots, Slot
<1> QED
  BY <1>1, <1>2

\* erased_slot_count stays between none and all of the slots.
LEMMA FreeTypes ==
  ASSUME NEW sl \in Sector
  PROVE  /\ Cardinality(ErasedSlots(sl)) \in 0 .. Capacity
         /\ ErasedSlots(sl) = {} => Cardinality(ErasedSlots(sl)) = 0
<1>1. IsFiniteSet(Slot) /\ Cardinality(Slot) = Capacity
  BY FS_Interval, CapacityAssumption DEF Slot
<1>2. IsFiniteSet(ErasedSlots(sl)) /\ Cardinality(ErasedSlots(sl)) <= Capacity
  BY <1>1, FS_Subset DEF ErasedSlots
<1> QED
  BY <1>2, FS_CardinalityType, FS_EmptySet, CapacityAssumption

\* The result of boot_metadata_scan is well formed.
LEMMA ScanTypes ==
  ASSUME NEW sl \in Sector
  PROVE  /\ Scan(sl) \in [latest : Record \cup {NoRecord}, first : 0 .. Capacity,
                          free : 0 .. Capacity]
         /\ Scan(sl).latest = Latest(sl) /\ Scan(sl).first = FirstErased(sl)
         /\ Scan(sl).first = Capacity /\ Scan(sl).latest = NoRecord
              => LoadStatus(Scan(sl)) = "CORRUPT"
<1>1. Scan(sl) \in [latest : Record \cup {NoRecord}, first : 0 .. Capacity,
                    free : 0 .. Capacity]
  BY LatestTypes, FirstErasedTypes, FreeTypes DEF Scan
<1>2. Scan(sl).first = Capacity => Scan(sl).free = 0
  BY FirstErasedTypes, FreeTypes DEF Scan
<1> QED
  BY <1>1, <1>2, CapacityAssumption DEF Scan, LoadStatus, HasUsedSlot

-----------------------------------------------------------------------------
\* The calls.

\* A call has one slot to write, or two after a compaction.
LEMMA TodoTypes ==
  ASSUME NEW t, t \in [1 .. 1 -> Write] \/ t \in [1 .. 2 -> Write]
  PROVE  /\ Head(t) = t[1] /\ t[1] \in Write
         /\ t \in [1 .. 1 -> Write] => Len(t) = 1
         /\ t \in [1 .. 2 -> Write] =>
              /\ Len(t) = 2 /\ t[2] \in Write
              /\ Tail(t) \in [1 .. 1 -> Write] /\ Tail(t)[1] = t[2]
<1>1. CASE t \in [1 .. 1 -> Write]
  <2>1. DOMAIN t = 1 .. 1 /\ t[1] \in Write /\ t \notin [1 .. 2 -> Write]
    BY <1>1
  <2>2. Len(t) = 1
    BY <1>1
  <2> QED
    BY <1>1, <2>1, <2>2
<1>2. CASE t \in [1 .. 2 -> Write]
  <2>1. t \in Seq(Write) /\ Len(t) = 2
    BY <1>2
  <2>2. DOMAIN t = 1 .. 2 /\ t[1] \in Write /\ t[2] \in Write /\ t \notin [1 .. 1 -> Write]
    BY <1>2
  <2>3. Head(t) = t[1]
    BY <2>1
  <2>4. Tail(t) \in Seq(Write) /\ Len(Tail(t)) = 1 /\ Tail(t)[1] = t[2]
    <3>1. t # << >>
      BY <2>1
    <3> QED
      BY <2>1, <3>1, HeadTailProperties
  <2>5. Tail(t) \in [1 .. 1 -> Write]
    BY <2>4, LenProperties
  <2> QED
    BY <2>1, <2>2, <2>3, <2>4, <2>5
<1> QED
  BY <1>1, <1>2

\* What append may return before it touches the flash.
LEMMA AppendStatuses ==
  ASSUME NEW s, NEW p
  PROVE  AppendStatus(s, p) \in Status /\ AppendStatus(s, p) # "INVALID_RECORD"
<1>1. AppendStatus(s, p) \in {"INVALID_ARGUMENT", "CORRUPT", "SEQUENCE_EXHAUSTED",
                              "UNSAFE_STATE", "OK"}
  BY SMT DEF AppendStatus
<1> QED
  BY <1>1 DEF Status

\* What append's checks guarantee about the record it prepares.
LEMMA AppendAccepted ==
  ASSUME slots \in Sector, NEW p \in [state : State, data : Data \cup {Malformed}],
         AppendStatus(Scan(slots), p) = "OK"
  PROVE  /\ Prepared(Scan(slots), p) \in Record
         /\ \A k \in ValidSlots(slots) : slots[k].seq < Prepared(Scan(slots), p).seq
         /\ Scan(slots).first = Capacity =>
              /\ Latest(slots) \in Record /\ SafeToCompact(Latest(slots).state)
              /\ Latest(slots).seq < Prepared(Scan(slots), p).seq
<1> DEFINE s == Scan(slots)
<1>1. s.latest = Latest(slots) /\ s.latest \in Record \cup {NoRecord}
        /\ (s.first = Capacity /\ s.latest = NoRecord => LoadStatus(s) = "CORRUPT")
  BY ScanTypes
<1>2. p.data # Malformed /\ LoadStatus(s) # "CORRUPT"
  BY DEF AppendStatus
<1>3. s.latest # NoRecord => s.latest.seq \in 1 .. SeqLimit /\ s.latest.seq < SeqLimit
  <2> SUFFICES ASSUME s.latest # NoRecord
               PROVE  s.latest.seq \in 1 .. SeqLimit /\ s.latest.seq < SeqLimit
    OBVIOUS
  <2>1. LoadStatus(s) = "OK" /\ s.latest.seq \in 1 .. SeqLimit
    BY <1>1, RecordTypes DEF LoadStatus
  <2>2. ~ (s.latest.seq >= SeqLimit)
    BY <1>2, <2>1 DEF AppendStatus
  <2> QED
    BY <2>1, <2>2, MetadataAssumption
<1>4. s.first = Capacity => s.latest # NoRecord /\ SafeToCompact(s.latest.state)
  <2>1. s.first = Capacity => s.latest # NoRecord
    BY <1>1, <1>2
  <2>2. s.latest # NoRecord => LoadStatus(s) = "OK"
    BY DEF LoadStatus
  <2> QED
    BY <1>2, <1>3, <2>1, <2>2 DEF AppendStatus
<1>5. NextSeq(s) \in 1 .. SeqLimit
  BY <1>1, <1>3, MetadataAssumption DEF NextSeq
<1>6. \A k \in ValidSlots(slots) : slots[k].seq < NextSeq(s)
  <2> SUFFICES ASSUME NEW k \in ValidSlots(slots)  PROVE slots[k].seq < NextSeq(s)
    OBVIOUS
  <2>1. s.latest # NoRecord /\ slots[k].seq <= s.latest.seq /\ slots[k].seq \in 1 .. SeqLimit
    BY <1>1, LatestTypes, RecordTypes DEF ValidSlots
  <2> QED
    BY <1>3, <2>1, MetadataAssumption DEF NextSeq
<1>7. Prepared(s, p) \in Record /\ Prepared(s, p).seq = NextSeq(s)
  BY <1>2, <1>5 DEF Prepared, Record
<1> QED
  BY <1>1, <1>3, <1>4, <1>6, <1>7, MetadataAssumption DEF NextSeq

\* The inductive invariant.  What a call is about to program is newer than every
\* valid record; the slot is erased before and torn during the programming; a
\* call that compacts writes slots 0 and 1 of an erased sector.
JournalInv ==
  /\ SequencesDistinct
  /\ pc = "erase" => SafeToCompact(Latest(slots).state)
  /\ pc = "program" => slots[todo[1].slot] = Erased
  /\ pc = "commit" => slots[todo[1].slot] = Torn
  /\ pc \in {"program", "commit"} =>
       \A k \in ValidSlots(slots) : slots[k].seq < todo[1].rec.seq
  /\ todo \in [1 .. 2 -> Write] =>
       /\ todo[1].slot = 0 /\ todo[2].slot = 1
       /\ todo[1].rec.seq < todo[2].rec.seq
       /\ pc # "erase" => \A i \in Slot \ {0} : slots[i] = Erased
  /\ ChosenSlotIsErased

Inv == TypeOK /\ JournalInv

\* The invariant holds of the erased sector.
LEMMA InitInv == Init => Inv
<1> SUFFICES ASSUME Init PROVE Inv
  OBVIOUS
<1>1. TypeOK
  <2>1. NoScan \in [latest : Record \cup {NoRecord}, first : 0 .. Capacity,
                    free : 0 .. Capacity]
    BY CapacityAssumption DEF NoScan
  <2>2. slots \in Sector
    BY DEF Init, Sector
  <2> QED
    BY <2>1, <2>2 DEF Init, TypeOK, Sector, Status
<1>2. ValidSlots(slots) = {}
  BY RecordTypes DEF Init, ValidSlots
<1> QED
  BY <1>1, <1>2 DEF Init, Inv, JournalInv, SequencesDistinct, ChosenSlotIsErased

\* A call that returns with the sector as it was, or with less in it.
LEMMA ReturnInv ==
  ASSUME Inv, NEW st \in Status, st # "INVALID_RECORD", Return(st), slots' \in Sector,
         acked' \in Record \cup {NoRecord}, SequencesDistinct'
  PROVE  Inv'
<1>1. TypeOK'
  <2>1. NoScan \in [latest : Record \cup {NoRecord}, first : 0 .. Capacity,
                    free : 0 .. Capacity]
    BY CapacityAssumption DEF NoScan
  <2> QED
    BY <2>1 DEF TypeOK, Return, Sector
<1> QED
  BY <1>1 DEF Inv, JournalInv, Return, ChosenSlotIsErased

\* A sector with fewer valid records keeps their numbers distinct.
LEMMA FewerDistinct ==
  ASSUME Inv, NEW sl \in Sector, \A i \in ValidSlots(sl) : sl[i] = slots[i], slots' = sl
  PROVE  SequencesDistinct'
<1>1. ValidSlots(sl) \subseteq ValidSlots(slots)
  BY DEF ValidSlots
<1> QED
  BY <1>1 DEF Inv, JournalInv, SequencesDistinct

\* boot_metadata_append, up to the flash, keeps the invariant.
LEMMA AppendInv ==
  ASSUME Inv, NEW p \in [state : State, data : Data \cup {Malformed}], AppendRecord(p)
  PROVE  Inv'
<1> DEFINE s == Scan(slots)
           new == Prepared(s, p)
<1>1. slots \in Sector /\ slots' = slots /\ acked' = acked /\ pc = "idle"
        /\ acked \in Record \cup {NoRecord}
  BY DEF AppendRecord, Inv, TypeOK, Sector
<1>2. SequencesDistinct'
  BY <1>1 DEF Inv, JournalInv, SequencesDistinct
<1>3. CASE AppendStatus(s, p) # "OK"
  <2>1. AppendStatus(s, p) \in Status /\ AppendStatus(s, p) # "INVALID_RECORD"
    BY AppendStatuses, Zenon
  <2> QED
    BY <1>1, <1>2, <1>3, <2>1, ReturnInv DEF AppendRecord
<1>4. CASE AppendStatus(s, p) = "OK" /\ s.first < Capacity
  <2>1. /\ scan' = s /\ status' = "NONE" /\ pc' = "program"
        /\ todo' = <<[slot |-> s.first, rec |-> new]>>
    BY <1>4 DEF AppendRecord
  <2>2. s.first \in Slot /\ slots[s.first] = Erased
    BY <1>1, <1>4, ScanTypes, FirstErasedTypes
  <2>3. new \in Record /\ \A k \in ValidSlots(slots) : slots[k].seq < new.seq
    BY <1>1, <1>4, AppendAccepted
  <2>4. todo' \in [1 .. 1 -> Write] /\ todo'[1].slot = s.first /\ todo'[1].rec = new
    BY <2>1, <2>2, <2>3 DEF Write
  <2>5. TypeOK'
    BY <1>1, <2>1, <2>4, ScanTypes DEF TypeOK, Sector, Status
  <2>6. todo' \notin [1 .. 2 -> Write]
    BY <2>4
  <2> QED
    BY <1>1, <1>2, <2>1, <2>2, <2>3, <2>4, <2>5, <2>6
    DEF Inv, JournalInv, ChosenSlotIsErased
<1>5. CASE AppendStatus(s, p) = "OK" /\ ~ (s.first < Capacity)
  <2>1. /\ scan' = s /\ status' = "NONE" /\ pc' = "erase"
        /\ todo' = <<[slot |-> 0, rec |-> s.latest], [slot |-> 1, rec |-> new]>>
    BY <1>5 DEF AppendRecord
  <2>2. s.first = Capacity
    BY <1>1, <1>5, ScanTypes, CapacityAssumption
  <2>3. /\ new \in Record /\ s.latest = Latest(slots) /\ s.latest \in Record
        /\ SafeToCompact(s.latest.state) /\ s.latest.seq < new.seq
    BY <1>1, <1>5, <2>2, AppendAccepted, ScanTypes
  <2>4. /\ todo' \in [1 .. 2 -> Write]
        /\ todo'[1].slot = 0 /\ todo'[1].rec = s.latest
        /\ todo'[2].slot = 1 /\ todo'[2].rec = new
    BY <2>1, <2>3, SlotTypes DEF Write
  <2>5. TypeOK'
    BY <1>1, <2>1, <2>4, ScanTypes DEF TypeOK, Sector, Status
  <2> QED
    BY <1>1, <1>2, <2>1, <2>3, <2>4, <2>5 DEF Inv, JournalInv, ChosenSlotIsErased
<1> QED
  BY <1>3, <1>4, <1>5

\* boot_metadata_compact_if_needed, up to the flash, keeps the invariant.
LEMMA CompactInv ==
  ASSUME Inv, NEW n \in 0 .. Capacity, CompactIfNeeded(n)
  PROVE  Inv'
<1> DEFINE s == Scan(slots)
<1>1. slots \in Sector /\ slots' = slots /\ acked' = acked /\ pc = "idle"
        /\ acked \in Record \cup {NoRecord}
  BY DEF CompactIfNeeded, Inv, TypeOK, Sector
<1>2. SequencesDistinct'
  BY <1>1 DEF Inv, JournalInv, SequencesDistinct
<1>3. CASE CompactStatus(s, n) # "COMPACT"
  <2>1. CompactStatus(s, n) \in Status /\ CompactStatus(s, n) # "INVALID_RECORD"
    <3>1. CompactStatus(s, n) \in {"INVALID_ARGUMENT", "OK", "CORRUPT", "EMPTY", "UNSAFE_STATE"}
      BY <1>3, SMT DEF CompactStatus, LoadStatus
    <3> QED
      BY <3>1 DEF Status
  <2> QED
    BY <1>1, <1>2, <1>3, <2>1, ReturnInv DEF CompactIfNeeded
<1>4. CASE CompactStatus(s, n) = "COMPACT"
  <2>1. /\ scan' = s /\ status' = "NONE" /\ pc' = "erase"
        /\ todo' = <<[slot |-> 0, rec |-> s.latest]>>
    BY <1>4 DEF CompactIfNeeded
  <2>2. s.latest # NoRecord /\ SafeToCompact(s.latest.state)
    <3>1. LoadStatus(s) # "COMPACT"
      BY DEF LoadStatus
    <3>2. s.free \in Nat /\ n \in Nat
      BY <1>1, ScanTypes, CapacityAssumption
    <3>3. n \in 1 .. (Capacity - 1) /\ ~ (s.free >= n) /\ s.latest # NoRecord
      BY <1>4, <3>1 DEF CompactStatus
    <3>4. s.free < n
      BY <3>2, <3>3
    <3> QED
      BY <1>4, <3>3, <3>4 DEF CompactStatus
  <2>3. s.latest = Latest(slots) /\ s.latest \in Record
    BY <1>1, <2>2, ScanTypes
  <2>4. todo' \in [1 .. 1 -> Write] /\ todo' \notin [1 .. 2 -> Write]
    BY <2>1, <2>3, SlotTypes DEF Write
  <2>5. TypeOK'
    BY <1>1, <2>1, <2>4, ScanTypes DEF TypeOK, Sector, Status
  <2> QED
    BY <1>1, <1>2, <2>1, <2>2, <2>3, <2>4, <2>5 DEF Inv, JournalInv, ChosenSlotIsErased
<1> QED
  BY <1>3, <1>4

\* What a call in progress has left to write.
LEMMA TodoInv ==
  ASSUME Inv, pc # "idle"
  PROVE  /\ todo \in [1 .. 1 -> Write] \/ todo \in [1 .. 2 -> Write]
         /\ Target = todo[1].slot /\ Target \in Slot
         /\ Head(todo) = todo[1] /\ todo[1].rec \in Record
<1>1. todo \in [1 .. 1 -> Write] \/ todo \in [1 .. 2 -> Write]
  BY DEF Inv, TypeOK
<1> QED
  BY <1>1, TodoTypes DEF Target, Write

\* The erase of boot_metadata_erase_sector keeps the invariant.
LEMMA EraseSectorInv ==
  ASSUME Inv, EraseSector
  PROVE  Inv'
<1>1. /\ pc = "erase" /\ pc' = "program" /\ slots' = [i \in Slot |-> Erased]
      /\ scan' = scan /\ todo' = todo /\ status' = status /\ acked' = acked
  BY DEF EraseSector
<1>2. TypeOK'
  BY <1>1 DEF Inv, TypeOK
<1>3. ValidSlots(slots') = {}
  BY <1>1, RecordTypes DEF ValidSlots
<1>4. slots'[todo'[1].slot] = Erased
  BY <1>1, TodoInv
<1> QED
  BY <1>1, <1>2, <1>3, <1>4 DEF Inv, JournalInv, SequencesDistinct, ChosenSlotIsErased

\* A slot that is not valid can be torn without a change to the valid ones.
LEMMA TornSlot ==
  ASSUME NEW sl \in Sector, NEW i \in Slot, sl[i] = Erased
  PROVE  /\ [sl EXCEPT ![i] = Torn] \in Sector
         /\ ValidSlots([sl EXCEPT ![i] = Torn]) = ValidSlots(sl)
         /\ \A k \in ValidSlots(sl) : [sl EXCEPT ![i] = Torn][k] = sl[k]
  BY RecordTypes DEF Sector, ValidSlots

\* The body words of boot_metadata_write_slot keep the invariant.
LEMMA ProgramBodyInv ==
  ASSUME Inv, ProgramBody
  PROVE  Inv'
<1>1. pc = "program" /\ slots[Target] = Erased /\ slots \in Sector
  BY TodoInv DEF ProgramBody, Inv, JournalInv, TypeOK, Sector
<1>2. /\ slots' = [slots EXCEPT ![Target] = Torn] /\ pc' = "commit"
      /\ scan' = scan /\ todo' = todo /\ status' = status /\ acked' = acked
  BY <1>1 DEF ProgramBody
<1>3. /\ slots' \in Sector /\ ValidSlots(slots') = ValidSlots(slots)
      /\ \A k \in ValidSlots(slots) : slots'[k] = slots[k]
  BY <1>1, <1>2, TodoInv, TornSlot, ZenonT(40)
<1>4. TypeOK'
  BY <1>1, <1>2, <1>3 DEF Inv, TypeOK, Sector
<1>5. slots'[todo'[1].slot] = Torn
  BY <1>1, <1>2, TodoInv DEF Sector
<1>6. todo \in [1 .. 2 -> Write] => \A i \in Slot \ {0} : slots'[i] = Erased
  BY <1>1, <1>2, TodoInv DEF Inv, JournalInv, Sector
<1>7. SequencesDistinct'
  BY <1>3 DEF Inv, JournalInv, SequencesDistinct
<1> QED
  BY <1>1, <1>2, <1>3, <1>4, <1>5, <1>6, <1>7 DEF Inv, JournalInv, ChosenSlotIsErased

\* The commit marker adds one valid record, newer than all others.
LEMMA CommitAdds ==
  ASSUME Inv, pc = "commit"
  PROVE  /\ Committed \in Sector
         /\ ValidSlots(Committed) = ValidSlots(slots) \cup {Target}
         /\ Committed[Target] = todo[1].rec
         /\ \A k \in ValidSlots(slots) : k # Target /\ Committed[k] = slots[k]
         /\ slots' = Committed => SequencesDistinct'
<1>1. slots \in Sector /\ slots[Target] = Torn
  BY TodoInv DEF Inv, JournalInv, TypeOK, Sector
<1>2. Committed = [slots EXCEPT ![Target] = todo[1].rec]
  BY TodoInv DEF Committed
<1>3. \A k \in ValidSlots(slots) : k # Target /\ k \in Slot
  BY <1>1, RecordTypes DEF ValidSlots
<1>4. Committed \in Sector /\ Committed[Target] = todo[1].rec
  BY <1>1, <1>2, TodoInv DEF Sector
<1>5. \A k \in Slot : k # Target => Committed[k] = slots[k]
  BY <1>1, <1>2 DEF Sector
<1>6. ValidSlots(Committed) = ValidSlots(slots) \cup {Target}
  BY <1>3, <1>4, <1>5, TodoInv DEF ValidSlots
<1>7. slots' = Committed => SequencesDistinct'
  <2> SUFFICES ASSUME slots' = Committed,
                      NEW i \in ValidSlots(Committed), NEW k \in ValidSlots(Committed),
                      Committed[i].seq = Committed[k].seq
               PROVE  i = k
    BY DEF SequencesDistinct
  <2>1. \A j \in ValidSlots(slots) : /\ Committed[j] = slots[j] /\ j # Target
                                     /\ slots[j].seq < todo[1].rec.seq
                                     /\ slots[j].seq \in Nat
    <3>1. \A j \in ValidSlots(slots) : slots[j].seq < todo[1].rec.seq
      BY DEF Inv, JournalInv
    <3> QED
      BY <1>3, <1>5, <3>1, RecordTypes, MetadataAssumption DEF ValidSlots
  <2>2. todo[1].rec.seq \in Nat
    BY TodoInv, RecordTypes, MetadataAssumption
  <2>3. \A j, m \in ValidSlots(slots) : slots[j].seq = slots[m].seq => j = m
    BY DEF Inv, JournalInv, SequencesDistinct
  <2> QED
    BY <1>4, <1>6, <2>1, <2>2, <2>3
<1> QED
  BY <1>3, <1>4, <1>5, <1>6, <1>7

\* The commit marker of boot_metadata_write_slot keeps the invariant.
LEMMA ProgramCommitInv ==
  ASSUME Inv, ProgramCommit
  PROVE  Inv'
<1>1. pc = "commit" /\ slots' = Committed
  BY DEF ProgramCommit
<1>2. slots' \in Sector /\ SequencesDistinct'
  BY <1>1, CommitAdds
<1>3. CASE Len(todo) = 1
  <2>1. Return("OK") /\ acked' = todo[1].rec
    BY <1>1, <1>3, TodoInv DEF ProgramCommit
  <2>2. "OK" \in Status /\ acked' \in Record \cup {NoRecord}
    BY <1>1, <2>1, TodoInv DEF Status
  <2> QED
    BY <1>2, <2>1, <2>2, ReturnInv
<1>4. CASE Len(todo) # 1
  <2>1. /\ pc' = "program" /\ todo' = Tail(todo)
        /\ scan' = scan /\ status' = status /\ acked' = acked
    BY <1>1, <1>4 DEF ProgramCommit
  <2>2. todo \in [1 .. 2 -> Write]
    BY <1>1, <1>4, TodoInv, TodoTypes
  <2>3. todo' \in [1 .. 1 -> Write] /\ todo'[1] = todo[2] /\ todo' \notin [1 .. 2 -> Write]
    <3>1. todo' \in [1 .. 1 -> Write] /\ todo'[1] = todo[2]
      BY <2>1, <2>2, TodoTypes
    <3> QED
      BY <3>1
  <2>4. TypeOK'
    BY <1>2, <2>1, <2>3 DEF Inv, TypeOK, Sector
  <2>5. /\ Target = 0 /\ todo[2].slot = 1 /\ todo[1].rec.seq < todo[2].rec.seq
        /\ \A i \in Slot \ {0} : slots[i] = Erased
    BY <1>1, <2>2, TodoInv DEF Inv, JournalInv
  <2>6. ValidSlots(slots) = {}
    <3>1. slots[0] = Torn
      BY <1>1, <2>5, TodoInv DEF Inv, JournalInv
    <3> QED
      BY <2>5, <3>1, RecordTypes DEF ValidSlots
  <2>7. slots'[1] = Erased
    BY <1>1, <2>5, SlotTypes DEF Committed, Inv, TypeOK
  <2>8. \A k \in ValidSlots(slots') : slots'[k].seq < todo'[1].rec.seq
    BY <1>1, <2>3, <2>5, <2>6, CommitAdds
  <2> QED
    BY <1>2, <2>1, <2>3, <2>4, <2>5, <2>7, <2>8 DEF Inv, JournalInv, ChosenSlotIsErased
<1> QED
  BY <1>3, <1>4

\* An operation cut short: only the slot being committed may become valid.
LEMMA CutDistinct ==
  ASSUME Inv,
         \/ pc = "erase"   /\ slots' \in EraseCut
         \/ pc = "program" /\ slots' \in ProgramCut
         \/ pc = "commit"  /\ slots' \in CommitCut
  PROVE  slots' \in Sector /\ SequencesDistinct'
<1>0. slots \in Sector /\ [i \in Slot |-> Erased] \in Sector
  BY DEF Inv, TypeOK, Sector
<1>1. CASE pc = "erase" /\ slots' \in EraseCut
  <2>1. /\ slots' \in [Slot -> {slots[i] : i \in Slot} \cup {Erased, Torn}]
        /\ \A i \in Slot : slots'[i] \in {slots[i], Erased, Torn}
    BY <1>0, <1>1 DEF EraseCut, Sector
  <2>2. slots' \in Sector
    BY <1>0, <2>1 DEF Sector
  <2>3. \A i \in ValidSlots(slots') : slots'[i] = slots[i]
    BY <2>1, RecordTypes DEF ValidSlots
  <2> QED
    BY <2>2, <2>3, FewerDistinct
<1>2. CASE pc = "program" /\ slots' \in ProgramCut
  <2>1. slots' \in Sector /\ \A i \in ValidSlots(slots') : slots'[i] = slots[i]
    <3>1. slots' = slots \/ (slots[Target] = Erased /\ slots' = [slots EXCEPT ![Target] = Torn])
      BY <1>2 DEF ProgramCut
    <3>2. Target \in Slot
      BY <1>2, TodoInv
    <3>3. CASE slots' = slots
      BY <1>0, <3>3
    <3>4. CASE slots[Target] = Erased /\ slots' = [slots EXCEPT ![Target] = Torn]
      <4>1. /\ slots' \in Sector /\ ValidSlots(slots') = ValidSlots(slots)
            /\ \A i \in ValidSlots(slots) : slots'[i] = slots[i]
        BY <1>0, <3>2, <3>4, TornSlot
      <4> QED
        BY <4>1
    <3> QED
      BY <3>1, <3>3, <3>4
  <2> QED
    BY <2>1, FewerDistinct
<1>3. CASE pc = "commit" /\ slots' \in CommitCut
  <2>1. CASE slots' = slots
    BY <1>0, <2>1, FewerDistinct
  <2>2. CASE slots' = Committed
    BY <1>3, <2>2, CommitAdds
  <2> QED
    BY <1>3, <2>1, <2>2 DEF CommitCut
<1> QED
  BY <1>1, <1>2, <1>3

\* Every step, whole or cut short, keeps the invariant.
LEMMA StepInv == Inv /\ [Next]_vars => Inv'
<1> SUFFICES ASSUME Inv, [Next]_vars  PROVE Inv'
  OBVIOUS
<1>1. ASSUME NEW p \in [state : State, data : Data \cup {Malformed}], AppendRecord(p)
      PROVE  Inv'
  BY <1>1, AppendInv
<1>2. ASSUME NEW n \in 0 .. Capacity, CompactIfNeeded(n)  PROVE Inv'
  BY <1>2, CompactInv
<1>3. CASE EraseSector
  BY <1>3, EraseSectorInv
<1>4. CASE ProgramBody
  BY <1>4, ProgramBodyInv
<1>5. CASE ProgramCommit
  BY <1>5, ProgramCommitInv
<1>6. CASE FlashError
  <2>1. slots' \in Sector /\ SequencesDistinct'
    BY <1>6, CutDistinct DEF FlashError
  <2>2. PICK st \in {"ERASE_ERROR", "PROGRAM_ERROR", "LOCK_ERROR"} : Return(st)
    BY <1>6 DEF FlashError
  <2>3. st \in Status /\ st # "INVALID_RECORD" /\ acked' \in Record \cup {NoRecord}
    BY <1>6 DEF FlashError, Status, Inv, TypeOK
  <2> QED
    BY <2>1, <2>2, <2>3, ReturnInv
<1>7. CASE PowerLoss
  <2>1. slots' \in Sector /\ SequencesDistinct'
    BY <1>7, CutDistinct DEF PowerLoss
  <2>2. Return("NONE") /\ "NONE" \in Status /\ acked' \in Record \cup {NoRecord}
    BY <1>7 DEF PowerLoss, Status, Inv, TypeOK
  <2> QED
    BY <2>1, <2>2, ReturnInv
<1>8. CASE UNCHANGED vars
  BY <1>8 DEF vars, Inv, TypeOK, JournalInv, SequencesDistinct, ChosenSlotIsErased
<1> QED
  BY <1>1, <1>2, <1>3, <1>4, <1>5, <1>6, <1>7, <1>8 DEF Next

-----------------------------------------------------------------------------
\* The inductive invariant: what a call has left to write goes to erased slots, with
\* numbers greater than all that will be valid beside it (boot_metadata_append).
THEOREM JournalInvariant == Spec => []Inv
  BY InitInv, StepInv, PTL DEF Spec

\* Every variable of the journal has its type, for every capacity and limit.
THEOREM TypeCorrect == Spec => []TypeOK
<1>1. Inv => TypeOK
  BY DEF Inv
<1> QED
  BY <1>1, JournalInvariant, PTL

\* Whatever calls, flash errors and power losses happen, two valid records never
\* have the same sequence number: boot_metadata_scan's answer is unambiguous.
THEOREM RecordsAreOrdered == Spec => []SequencesDistinct
<1>1. Inv => SequencesDistinct
  BY DEF Inv, JournalInv
<1> QED
  BY <1>1, JournalInvariant, PTL

\* boot_metadata_write_slot never finds the slot it was given programmed, the
\* slot 1 that boot_metadata_append assumes after a compaction included.
THEOREM ChosenSlotsAreErased == Spec => []ChosenSlotIsErased
<1>1. Inv => ChosenSlotIsErased
  BY DEF Inv, JournalInv
<1> QED
  BY <1>1, JournalInvariant, PTL

\* A sector that keeps its valid records keeps its latest sequence number.
LEMMA LatestGrows ==
  ASSUME NEW sl \in Sector, NEW sm \in Sector,
         \A k \in ValidSlots(sl) : k \in ValidSlots(sm) /\ sm[k] = sl[k]
  PROVE  ~ (LatestSeq(sm) < LatestSeq(sl))
<1>1. LatestSeq(sl) \in 0 .. SeqLimit /\ LatestSeq(sm) \in 0 .. SeqLimit
  BY LatestTypes
<1>2. CASE ValidSlots(sl) = {}
  BY <1>1, <1>2, MetadataAssumption DEF LatestSeq
<1>3. CASE ValidSlots(sl) # {}
  <2>1. LatestSlot(sl) \in ValidSlots(sl) /\ LatestSeq(sl) = sl[LatestSlot(sl)].seq
    BY <1>3, LatestSlotIsLatest DEF LatestSeq
  <2>2. sm[LatestSlot(sl)].seq <= LatestSeq(sm)
    BY <2>1, LatestTypes
  <2> QED
    BY <1>1, <2>1, <2>2, MetadataAssumption
<1> QED
  BY <1>2, <1>3

\* No step but the erase of a sector takes a valid record away.
LEMMA OnlyEraseLosesRecords ==
  ASSUME Inv, [Next]_vars, pc # "erase"
  PROVE  /\ slots \in Sector /\ slots' \in Sector
         /\ \A k \in ValidSlots(slots) : k \in ValidSlots(slots') /\ slots'[k] = slots[k]
<1>1. slots \in Sector
  BY DEF Inv, TypeOK, Sector
<1>2. CASE slots' = slots
  BY <1>1, <1>2
<1>3. CASE pc = "program" /\ slots[Target] = Erased /\ slots' = [slots EXCEPT ![Target] = Torn]
  <2>1. /\ slots' \in Sector /\ ValidSlots(slots') = ValidSlots(slots)
        /\ \A i \in ValidSlots(slots) : slots'[i] = slots[i]
    BY <1>1, <1>3, TodoInv, TornSlot, ZenonT(40)
  <2> QED
    BY <1>1, <2>1
<1>4. CASE pc = "commit" /\ slots' = Committed
  BY <1>1, <1>4, CommitAdds
<1>5. \/ slots' = slots
      \/ pc = "program" /\ slots[Target] = Erased /\ slots' = [slots EXCEPT ![Target] = Torn]
      \/ pc = "commit" /\ slots' = Committed
  BY DEF Next, vars, AppendRecord, CompactIfNeeded, EraseSector, ProgramBody,
         ProgramCommit, FlashError, PowerLoss, ProgramCut, CommitCut
<1> QED
  BY <1>2, <1>3, <1>4, <1>5

\* The latest record goes back only in a compaction of a state in which an image
\* may boot: no flash error and no power loss takes back an update in progress.
THEOREM UpdatesAreNotLost == Spec => LatestLostOnlyByCompaction
<1>1. Inv /\ [Next]_vars =>
        (LatestSeq(slots') < LatestSeq(slots)
           => pc = "erase" /\ SafeToCompact(Latest(slots).state))
  <2> SUFFICES ASSUME Inv, [Next]_vars, LatestSeq(slots') < LatestSeq(slots)
               PROVE  pc = "erase" /\ SafeToCompact(Latest(slots).state)
    OBVIOUS
  <2>1. pc = "erase"
    BY OnlyEraseLosesRecords, LatestGrows
  <2> QED
    BY <2>1 DEF Inv, JournalInv
<1> QED
  BY <1>1, JournalInvariant, PTL DEF Spec, LatestLostOnlyByCompaction

\* A corrupt journal is never cleared: append and compaction refuse to touch it.
THEOREM CorruptJournalsStay == Spec => CorruptIsAbsorbing
<1>1. Inv /\ [Next]_vars =>
        (pc = "idle" /\ LoadStatus(Scan(slots)) = "CORRUPT"
           => pc' = "idle" /\ slots' = slots)
  <2> SUFFICES ASSUME Inv, [Next]_vars, pc = "idle", LoadStatus(Scan(slots)) = "CORRUPT"
               PROVE  pc' = "idle" /\ slots' = slots
    OBVIOUS
  <2>1. Scan(slots).latest = NoRecord
    BY DEF LoadStatus
  <2>2. ASSUME NEW p \in [state : State, data : Data \cup {Malformed}], AppendRecord(p)
        PROVE  pc' = "idle" /\ slots' = slots
    <3>1. AppendStatus(Scan(slots), p) # "OK"
      BY DEF AppendStatus
    <3> QED
      BY <2>2, <3>1 DEF AppendRecord, Return
  <2>3. ASSUME NEW n \in 0 .. Capacity, CompactIfNeeded(n)
        PROVE  pc' = "idle" /\ slots' = slots
    <3>1. CompactStatus(Scan(slots), n) # "COMPACT"
      BY <2>1 DEF CompactStatus
    <3> QED
      BY <2>3, <3>1 DEF CompactIfNeeded, Return
  <2> QED
    BY <2>2, <2>3 DEF Next, vars, EraseSector, ProgramBody, ProgramCommit,
                      FlashError, PowerLoss
<1> QED
  BY <1>1, JournalInvariant, PTL DEF Spec, CorruptIsAbsorbing

-----------------------------------------------------------------------------
Viewed(sl) == [latest |-> Latest(sl), free |-> Cardinality(ErasedSlots(sl))]

\* The slot the call programs next gets the latest record again: it compacts.
Rewriting == todo[1].rec = scan.latest

\* The sector before that slot is programmed: a compaction starts from nothing,
\* and an append adds to what the scan found or to what the compaction left.
Base == IF Rewriting THEN EmptyJournal
        ELSE IF scan.free > 0 THEN [latest |-> scan.latest, free |-> scan.free]
        ELSE [latest |-> scan.latest, free |-> Capacity - 1]

CallInv ==
  pc # "idle" =>
    /\ status = "NONE"
    /\ todo \in [1 .. 2 -> Write] =>
         Rewriting /\ scan.free = 0 /\ todo[2].rec # scan.latest
    /\ pc = "erase" =>
         Rewriting /\ Viewed(slots) = [latest |-> scan.latest, free |-> scan.free]
    /\ pc = "program" => Viewed(slots) = Base
    /\ pc = "commit" => Viewed(slots) = Tear(Base)

-----------------------------------------------------------------------------
\* What one flash operation does to the view of a sector.

\* A record newer than all others is the one a scan finds.
LEMMA LatestIs ==
  ASSUME NEW sl \in Sector, NEW i \in ValidSlots(sl),
         \A k \in ValidSlots(sl) : k # i => sl[k].seq < sl[i].seq
  PROVE  Latest(sl) = sl[i]
<1>1. LatestSlot(sl) \in ValidSlots(sl) /\ sl[i].seq <= sl[LatestSlot(sl)].seq
  BY LatestSlotIsLatest
<1>2. \A k \in ValidSlots(sl) : sl[k].seq \in Nat
  BY RecordTypes, MetadataAssumption DEF ValidSlots
<1>3. LatestSlot(sl) = i
  BY <1>1, <1>2
<1> QED
  BY <1>3 DEF Latest

\* The number of erased slots is a number, and that of the slots left when one is
\* programmed is one less.
LEMMA ErasedCount ==
  ASSUME NEW sl \in Sector
  PROVE  /\ IsFiniteSet(ErasedSlots(sl)) /\ Cardinality(ErasedSlots(sl)) \in 0 .. Capacity
         /\ \A i \in ErasedSlots(sl) :
              Cardinality(ErasedSlots(sl) \ {i}) = Cardinality(ErasedSlots(sl)) - 1
<1>1. IsFiniteSet(Slot)
  BY FS_Interval, CapacityAssumption DEF Slot
<1>2. IsFiniteSet(ErasedSlots(sl))
  BY <1>1, FS_Subset DEF ErasedSlots
<1> QED
  BY <1>2, FreeTypes, FS_RemoveElement

\* Programming the body of a slot uses it up and leaves the latest record.
LEMMA TearView ==
  ASSUME NEW sl \in Sector, NEW i \in Slot, sl[i] = Erased,
         \A j, k \in ValidSlots(sl) : sl[j].seq = sl[k].seq => j = k
  PROVE  Viewed([sl EXCEPT ![i] = Torn]) = Tear(Viewed(sl))
<1> DEFINE torn == [sl EXCEPT ![i] = Torn]
<1>1. /\ torn \in Sector /\ ValidSlots(torn) = ValidSlots(sl)
      /\ \A k \in ValidSlots(sl) : torn[k] = sl[k]
  BY TornSlot
<1>2. ErasedSlots(torn) = ErasedSlots(sl) \ {i} /\ i \in ErasedSlots(sl)
  BY MetadataAssumption DEF ErasedSlots, Sector
<1>3. Cardinality(ErasedSlots(torn)) = Cardinality(ErasedSlots(sl)) - 1
  BY <1>2, ErasedCount
<1>4. Latest(torn) = Latest(sl)
  <2>1. CASE ValidSlots(sl) = {}
    BY <1>1, <2>1, LatestTypes
  <2>2. CASE ValidSlots(sl) # {}
    <3> DEFINE m == LatestSlot(sl)
    <3>1. m \in ValidSlots(sl) /\ \A k \in ValidSlots(sl) : sl[k].seq <= sl[m].seq
      BY <2>2, LatestSlotIsLatest
    <3>2. \A k \in ValidSlots(sl) : sl[k].seq \in Nat
      BY RecordTypes, MetadataAssumption DEF ValidSlots
    <3>3. Latest(sl) = sl[m]
      BY <2>2 DEF Latest
    <3> HIDE DEF m, torn
    <3>4. \A k \in ValidSlots(torn) : k # m => torn[k].seq < torn[m].seq
      BY <1>1, <3>1, <3>2
    <3>5. Latest(torn) = torn[m]
      BY <1>1, <3>1, <3>4, LatestIs
    <3> QED
      BY <1>1, <3>1, <3>3, <3>5
  <2> QED
    BY <2>1, <2>2
<1> QED
  BY <1>3, <1>4 DEF Viewed, Tear

\* The commit marker makes the slot the latest record.
LEMMA CommitView ==
  ASSUME NEW sl \in Sector, NEW i \in Slot, sl[i] = Torn, NEW r \in Record,
         \A k \in ValidSlots(sl) : sl[k].seq < r.seq
  PROVE  Viewed([sl EXCEPT ![i] = r])
           = [latest |-> r, free |-> Cardinality(ErasedSlots(sl))]
<1> DEFINE new == [sl EXCEPT ![i] = r]
<1>1. new \in Sector /\ new[i] = r /\ \A k \in Slot : k # i => new[k] = sl[k]
  BY DEF Sector
<1>2. i \in ValidSlots(new) /\ \A k \in ValidSlots(new) : k # i => k \in ValidSlots(sl)
  BY <1>1 DEF ValidSlots
<1>3. \A k \in ValidSlots(new) : k # i => new[k].seq < new[i].seq
  BY <1>1, <1>2 DEF ValidSlots
<1>4. ErasedSlots(new) = ErasedSlots(sl)
  BY <1>1, RecordTypes, MetadataAssumption DEF ErasedSlots
<1> HIDE DEF new
<1>5. Latest(new) = r
  BY <1>1, <1>2, <1>3, LatestIs
<1> QED
  BY <1>4, <1>5 DEF Viewed, new

\* An erased sector.
LEMMA BlankView == Viewed([i \in Slot |-> Erased]) = EmptyJournal
<1> DEFINE blank == [i \in Slot |-> Erased]
<1>1. blank \in Sector /\ ValidSlots(blank) = {} /\ ErasedSlots(blank) = Slot
  BY RecordTypes DEF Sector, ValidSlots, ErasedSlots
<1>2. Cardinality(Slot) = Capacity
  BY FS_Interval, CapacityAssumption DEF Slot
<1>3. Latest(blank) = NoRecord
  BY <1>1, LatestTypes
<1> QED
  BY <1>1, <1>2, <1>3 DEF Viewed, EmptyJournal

\* What a scan tells and what a call remembers of it.
LEMMA ViewOfScan ==
  ASSUME NEW sl \in Sector
  PROVE  /\ Scan(sl).latest = Viewed(sl).latest /\ Scan(sl).free = Viewed(sl).free
         /\ Viewed(sl) = [latest |-> Scan(sl).latest, free |-> Scan(sl).free]
         /\ Seen(Scan(sl)) = Seen(Viewed(sl))
         /\ Viewed(sl).latest \in Record \cup {NoRecord}
         /\ Viewed(sl).free \in 0 .. Capacity
         /\ Scan(sl).first = Capacity => Viewed(sl).free = 0
         /\ Scan(sl).first < Capacity => Viewed(sl).free > 0
         /\ Scan(sl).first \in 0 .. Capacity
<1>1. Scan(sl).first = FirstErased(sl) /\ FirstErased(sl) \in 0 .. Capacity
  BY ScanTypes, FirstErasedTypes
<1>2. FirstErased(sl) = Capacity => Cardinality(ErasedSlots(sl)) = 0
  BY FirstErasedTypes, FreeTypes
<1>3. FirstErased(sl) < Capacity => Cardinality(ErasedSlots(sl)) > 0
  <2> SUFFICES ASSUME FirstErased(sl) < Capacity
               PROVE  Cardinality(ErasedSlots(sl)) # 0
    BY FreeTypes
  <2>1. FirstErased(sl) \in ErasedSlots(sl)
    BY FirstErasedTypes DEF ErasedSlots
  <2> QED
    BY <2>1, ErasedCount, FS_EmptySet
<1>4. Latest(sl) \in Record \cup {NoRecord} /\ Cardinality(ErasedSlots(sl)) \in 0 .. Capacity
  BY LatestTypes, FreeTypes
<1> QED
  BY <1>1, <1>2, <1>3, <1>4 DEF Scan, Viewed, Seen
-----------------------------------------------------------------------------
\* The calls and the invariant.

\* What append prepares is not the record that is there.
LEMMA NewRecord ==
  ASSUME slots \in Sector, NEW p \in [state : State, data : Data \cup {Malformed}],
         AppendStatus(Scan(slots), p) = "OK"
  PROVE  /\ Prepared(Scan(slots), p) \in Record
         /\ Prepared(Scan(slots), p) # Scan(slots).latest
         /\ p \in Payload /\ PayloadOf(Prepared(Scan(slots), p)) = p
<1> DEFINE s == Scan(slots)
<1>1. Prepared(s, p) \in Record /\ s.latest \in Record \cup {NoRecord}
  BY AppendAccepted, ScanTypes
<1>2. Prepared(s, p) # s.latest
  <2>1. CASE s.latest = NoRecord
    BY <1>1, <2>1, RecordTypes
  <2>2. CASE s.latest # NoRecord
    <3>1. s.latest.seq \in Nat /\ Prepared(s, p).seq = s.latest.seq + 1
      BY <1>1, <2>2, RecordTypes, MetadataAssumption DEF Prepared, NextSeq
    <3> QED
      BY <3>1
  <2> QED
    BY <2>1, <2>2
<1>3. p.data # Malformed
  BY DEF AppendStatus
<1>4. p \in Payload
  BY <1>3 DEF Payload
<1>5. PayloadOf(Prepared(s, p)) = p
  <2>1. Prepared(s, p) # NoRecord
    BY <1>1, RecordTypes
  <2>2. Prepared(s, p).state = p.state /\ Prepared(s, p).data = p.data
    BY DEF Prepared
  <2>3. p = [state |-> p.state, data |-> p.data]
    BY <1>4 DEF Payload
  <2> QED
    BY <2>1, <2>2, <2>3 DEF PayloadOf
<1> QED
  BY <1>1, <1>2, <1>4, <1>5

\* What append does when its checks are passed.
LEMMA AppendBegins ==
  ASSUME Inv, NEW p \in [state : State, data : Data \cup {Malformed}],
         AppendRecord(p), AppendStatus(Scan(slots), p) = "OK"
  PROVE  /\ scan' = Scan(slots) /\ status' = "NONE" /\ slots' = slots /\ pc = "idle"
         /\ slots \in Sector /\ pc' # "idle"
         /\ todo'[Len(todo')].rec = Prepared(Scan(slots), p)
         /\ CallInv'
<1> DEFINE s == Scan(slots)
           new == Prepared(s, p)
<1>1. slots \in Sector /\ slots' = slots /\ pc = "idle" /\ scan' = s /\ status' = "NONE"
  BY DEF AppendRecord, Inv, TypeOK, Sector
<1>2. new \in Record /\ new # s.latest
  BY <1>1, NewRecord
<1>3. CASE s.first < Capacity
  <2>1. pc' = "program" /\ todo' = <<[slot |-> s.first, rec |-> new]>>
    BY <1>3 DEF AppendRecord
  <2>2. Len(todo') = 1 /\ todo'[1].rec = new /\ todo' \notin [1 .. 2 -> Write]
    BY <2>1
  <2>3. ~ Rewriting' /\ scan'.free > 0
    BY <1>1, <1>2, <1>3, <2>2, ViewOfScan DEF Rewriting
  <2>4. Viewed(slots') = Base'
    BY <1>1, <2>3, ViewOfScan DEF Base
  <2> QED
    BY <1>1, <2>1, <2>2, <2>4 DEF CallInv
<1>4. CASE ~ (s.first < Capacity)
  <2>1. /\ pc' = "erase"
        /\ todo' = <<[slot |-> 0, rec |-> s.latest], [slot |-> 1, rec |-> new]>>
    BY <1>4 DEF AppendRecord
  <2>2. Len(todo') = 2 /\ todo'[1].rec = s.latest /\ todo'[2].rec = new
    BY <2>1
  <2>3. Rewriting' /\ scan'.free = 0
    <3>1. s.first = Capacity
      BY <1>1, <1>4, ViewOfScan, CapacityAssumption
    <3> QED
      BY <1>1, <2>2, <3>1, ViewOfScan DEF Rewriting
  <2>4. Viewed(slots') = [latest |-> scan'.latest, free |-> scan'.free]
    BY <1>1, ViewOfScan
  <2> QED
    BY <1>1, <1>2, <2>1, <2>2, <2>3, <2>4 DEF CallInv
<1> QED
  BY <1>3, <1>4

\* What boot_metadata_compact_if_needed does when there is something to compact.
LEMMA CompactBegins ==
  ASSUME Inv, NEW n \in 0 .. Capacity,
         CompactIfNeeded(n), CompactStatus(Scan(slots), n) = "COMPACT"
  PROVE  /\ scan' = Scan(slots) /\ status' = "NONE" /\ slots' = slots /\ pc = "idle"
         /\ slots \in Sector /\ pc' # "idle"
         /\ todo'[Len(todo')].rec = Scan(slots).latest
         /\ CallInv'
<1> DEFINE s == Scan(slots)
<1>1. slots \in Sector /\ slots' = slots /\ pc = "idle" /\ scan' = s /\ status' = "NONE"
  BY DEF CompactIfNeeded, Inv, TypeOK, Sector
<1>2. pc' = "erase" /\ todo' = <<[slot |-> 0, rec |-> s.latest]>>
  BY DEF CompactIfNeeded
<1>3. Len(todo') = 1 /\ todo'[1].rec = s.latest /\ todo' \notin [1 .. 2 -> Write]
  BY <1>2
<1>4. Viewed(slots') = [latest |-> scan'.latest, free |-> scan'.free]
  BY <1>1, ViewOfScan
<1> QED
  BY <1>1, <1>2, <1>3, <1>4 DEF CallInv, Rewriting

\* The sector after the two halves of a slot's programming.
LEMMA SlotViews ==
  ASSUME Inv, CallInv
  PROVE  /\ pc = "program" => /\ slots[Target] = Erased
                              /\ Viewed([slots EXCEPT ![Target] = Torn]) = Tear(Base)
         /\ pc = "commit" =>
              Viewed(Committed) = [latest |-> todo[1].rec, free |-> Tear(Base).free]
<1>1. slots \in Sector
  BY DEF Inv, TypeOK, Sector
<1>2. CASE pc = "program"
  <2>1. slots[Target] = Erased /\ Target \in Slot
    BY <1>2, TodoInv DEF Inv, JournalInv
  <2>2. \A j, k \in ValidSlots(slots) : slots[j].seq = slots[k].seq => j = k
    BY DEF Inv, JournalInv, SequencesDistinct
  <2>3. Viewed([slots EXCEPT ![Target] = Torn]) = Tear(Viewed(slots))
    BY <1>1, <2>1, <2>2, TearView
  <2> QED
    BY <1>2, <2>1, <2>3 DEF CallInv
<1>3. CASE pc = "commit"
  <2>1. slots[Target] = Torn /\ Target \in Slot /\ todo[1].rec \in Record
          /\ Committed = [slots EXCEPT ![Target] = todo[1].rec]
    BY <1>3, TodoInv DEF Inv, JournalInv, Committed
  <2>2. \A k \in ValidSlots(slots) : slots[k].seq < todo[1].rec.seq
    BY <1>3 DEF Inv, JournalInv
  <2>3. Viewed(Committed) = [latest |-> todo[1].rec, free |-> Cardinality(ErasedSlots(slots))]
    BY <1>1, <2>1, <2>2, CommitView
  <2>4. Cardinality(ErasedSlots(slots)) = Tear(Base).free
    BY <1>3 DEF CallInv, Viewed
  <2> QED
    BY <1>3, <2>3, <2>4
<1> QED
  BY <1>2, <1>3

\* The types a running call relies on.
LEMMA CallTypes ==
  ASSUME Inv, pc # "idle"
  PROVE  /\ scan.latest \in Record \cup {NoRecord} /\ scan.free \in 0 .. Capacity
         /\ \/ todo \in [1 .. 1 -> Write] /\ Len(todo) = 1 /\ todo \notin [1 .. 2 -> Write]
            \/ /\ todo \in [1 .. 2 -> Write] /\ Len(todo) = 2 /\ todo[2].rec \in Record
               /\ Tail(todo) \in [1 .. 1 -> Write] /\ Tail(todo)[1] = todo[2]
         /\ todo[1].rec \in Record /\ Head(todo) = todo[1]
<1>1. scan.latest \in Record \cup {NoRecord} /\ scan.free \in 0 .. Capacity
  BY DEF Inv, TypeOK
<1>2. todo[1].rec \in Record /\ Head(todo) = todo[1]
  BY TodoInv
<1>3. CASE todo \in [1 .. 1 -> Write]
  BY <1>1, <1>2, <1>3, TodoTypes
<1>4. CASE todo \in [1 .. 2 -> Write]
  <2>1. /\ Len(todo) = 2 /\ todo[2] \in Write
        /\ Tail(todo) \in [1 .. 1 -> Write] /\ Tail(todo)[1] = todo[2]
    BY <1>4, TodoTypes
  <2> QED
    BY <1>1, <1>2, <1>4, <2>1 DEF Write
<1> QED
  BY <1>3, <1>4, TodoInv

\* The commit marker of the first of two slots: the compaction is done, the
\* append is not.
LEMMA SecondSlot ==
  ASSUME Inv, CallInv, ProgramCommit, Len(todo) # 1
  PROVE  /\ CallInv' /\ pc = "commit" /\ pc' = "program" /\ scan' = scan /\ status' = status
         /\ todo'[Len(todo')].rec = todo[Len(todo)].rec
<1>1. /\ pc = "commit" /\ pc' = "program" /\ slots' = Committed /\ todo' = Tail(todo)
      /\ scan' = scan /\ status' = status
  BY DEF ProgramCommit
<1>2. /\ todo \in [1 .. 2 -> Write] /\ Len(todo) = 2
      /\ todo' \in [1 .. 1 -> Write] /\ todo'[1] = todo[2]
  BY <1>1, CallTypes
<1>3. Len(todo') = 1 /\ todo' \notin [1 .. 2 -> Write]
  BY <1>2, TodoTypes
<1>4. Rewriting /\ scan.free = 0 /\ todo[2].rec # scan.latest /\ status = "NONE"
  BY <1>1, <1>2 DEF CallInv
<1>5. Viewed(slots') = [latest |-> scan.latest, free |-> Capacity - 1]
  BY <1>1, <1>4, SlotViews, CapacityAssumption DEF Rewriting, Base, Tear, EmptyJournal
<1>6. Base' = [latest |-> scan.latest, free |-> Capacity - 1]
  BY <1>1, <1>2, <1>4 DEF Base, Rewriting
<1> QED
  BY <1>1, <1>2, <1>3, <1>4, <1>5, <1>6 DEF CallInv

\* The invariant is kept by every step.
LEMMA CallInvStep == Inv /\ CallInv /\ [Next]_vars => CallInv'
<1> SUFFICES ASSUME Inv, CallInv, [Next]_vars  PROVE CallInv'
  OBVIOUS
<1>1. ASSUME NEW p \in [state : State, data : Data \cup {Malformed}], AppendRecord(p)
      PROVE  CallInv'
  <2>1. CASE AppendStatus(Scan(slots), p) = "OK"
    BY <1>1, <2>1, AppendBegins
  <2>2. CASE AppendStatus(Scan(slots), p) # "OK"
    BY <1>1, <2>2 DEF AppendRecord, Return, CallInv
  <2> QED
    BY <2>1, <2>2
<1>2. ASSUME NEW n \in 0 .. Capacity, CompactIfNeeded(n)  PROVE CallInv'
  <2>1. CASE CompactStatus(Scan(slots), n) = "COMPACT"
    BY <1>2, <2>1, CompactBegins
  <2>2. CASE CompactStatus(Scan(slots), n) # "COMPACT"
    BY <1>2, <2>2 DEF CompactIfNeeded, Return, CallInv
  <2> QED
    BY <2>1, <2>2
<1>3. CASE EraseSector
  <2>1. /\ pc = "erase" /\ pc' = "program" /\ slots' = [i \in Slot |-> Erased]
        /\ scan' = scan /\ todo' = todo /\ status' = status
    BY <1>3 DEF EraseSector
  <2>2. Viewed(slots') = Base'
    BY <2>1, BlankView DEF CallInv, Base, Rewriting
  <2> QED
    BY <2>1, <2>2 DEF CallInv, Rewriting
<1>4. CASE ProgramBody
  <2>1. pc = "program" /\ slots[Target] = Erased
    BY <1>4, SlotViews DEF ProgramBody
  <2>2. /\ slots' = [slots EXCEPT ![Target] = Torn] /\ pc' = "commit"
        /\ scan' = scan /\ todo' = todo /\ status' = status
    BY <1>4, <2>1 DEF ProgramBody
  <2>3. Viewed(slots') = Tear(Base)
    BY <2>1, <2>2, SlotViews
  <2>4. Base' = Base
    BY <2>2 DEF Base, Rewriting
  <2> QED
    BY <2>1, <2>2, <2>3, <2>4 DEF CallInv, Rewriting
<1>5. CASE ProgramCommit
  <2>1. CASE Len(todo) = 1
    BY <1>5, <2>1 DEF ProgramCommit, Return, CallInv
  <2> QED
    BY <1>5, <2>1, SecondSlot
<1>6. CASE FlashError \/ PowerLoss
  BY <1>6 DEF FlashError, PowerLoss, Return, CallInv
<1>7. CASE UNCHANGED vars
  BY <1>7 DEF vars, CallInv, Rewriting, Base
<1> QED
  BY <1>1, <1>2, <1>3, <1>4, <1>5, <1>6, <1>7 DEF Next

-----------------------------------------------------------------------------
\* The refinement.

\* The abstract journal, call and result.
Now == Seen(IF pc = "idle" THEN Scan(slots) ELSE scan)

NoWriter == [op |-> "none"]

\* What a payload says of a record.
LEMMA PayloadFacts ==
  /\ PayloadOf(NoRecord) = NoRecord
  /\ \A r \in Record : /\ PayloadOf(r) # NoRecord /\ PayloadOf(r) \in Payload
                       /\ PayloadOf(r).state = r.state
<1>1. PayloadOf(NoRecord) = NoRecord
  BY DEF PayloadOf
<1>2. ASSUME NEW r \in Record
      PROVE  /\ PayloadOf(r) # NoRecord /\ PayloadOf(r) \in Payload
             /\ PayloadOf(r).state = r.state
  <2>1. PayloadOf(r) = [state |-> r.state, data |-> r.data]
    BY <1>2, RecordTypes DEF PayloadOf
  <2>2. r.state \in State /\ r.data \in Data
    BY <1>2 DEF Record
  <2>3. [state |-> r.state, data |-> r.data] # NoRecord
    BY DEF NoRecord
  <2> QED
    BY <2>1, <2>2, <2>3 DEF Payload
<1> QED
  BY <1>1, <1>2

\* A call that begins to write.
LEMMA Begins ==
  ASSUME NEW c, CallInProgress = NoWriter, CallInProgress' = c,
         ResultOf(status') = "NONE", Now' = Now
  PROVE  Abstract!Begin(c)
  BY DEF Abstract!Begin, Abstract!NoCall, Now, NoWriter

\* A call that returns, from any place.
LEMMA Returns ==
  ASSUME NEW st, Return(st), slots' \in Sector
  PROVE  Abstract!Return(Seen(Viewed(slots')), ResultOf(st))
<1>1. pc' = "idle" /\ status' = st
  BY DEF Return
<1>2. Now' = Seen(Viewed(slots'))
  BY <1>1, ViewOfScan DEF Now
<1>3. CallInProgress' = NoWriter
  BY <1>1 DEF CallInProgress, NoWriter
<1> QED
  BY <1>1, <1>2, <1>3 DEF Abstract!Return, Abstract!NoCall, Now, NoWriter

\* Between calls, and in a call.
LEMMA AbstractState ==
  ASSUME Inv, CallInv
  PROVE  /\ pc = "idle" => CallInProgress = NoWriter /\ Now = Seen(Viewed(slots))
         /\ pc # "idle" => /\ Now = [latest |-> PayloadOf(scan.latest), free |-> scan.free]
                           /\ ResultOf(status) = "NONE"
                           /\ CallInProgress =
                                [op |-> IF Rewriting /\ Len(todo) = 1
                                        THEN "compact" ELSE "append",
                                 payload |-> PayloadOf(todo[Len(todo)].rec)]
<1>1. CASE pc = "idle"
  <2>1. slots \in Sector
    BY DEF Inv, TypeOK, Sector
  <2> QED
    BY <1>1, <2>1, ViewOfScan DEF CallInProgress, NoWriter, Now
<1>2. CASE pc # "idle"
  <2>1. Now = [latest |-> PayloadOf(scan.latest), free |-> scan.free]
    BY <1>2 DEF Now, Seen
  <2>2. ResultOf(status) = "NONE"
    BY <1>2 DEF CallInv, ResultOf
  <2>3. (todo[Len(todo)].rec = scan.latest) <=> (Rewriting /\ Len(todo) = 1)
    BY <1>2, CallTypes DEF CallInv, Rewriting
  <2> QED
    BY <1>2, <2>1, <2>2, <2>3 DEF CallInProgress
<1> QED
  BY <1>1, <1>2

\* A call that only answers.
LEMMA Answers ==
  ASSUME Inv, CallInv, pc = "idle", slots' = slots, NEW st, Return(st)
  PROVE  Abstract!Answer(ResultOf(st))
<1>1. slots' \in Sector
  BY DEF Inv, TypeOK, Sector
<1>2. CallInProgress = NoWriter /\ Now = Seen(Viewed(slots'))
  BY AbstractState
<1>3. Abstract!Return(Now, ResultOf(st))
  BY <1>1, <1>2, Returns
<1> QED
  BY <1>2, <1>3 DEF Abstract!Answer, Abstract!NoCall, Now, NoWriter

\* The abstract journal between calls, by what the scan says.
LEMMA IdleJournal ==
  ASSUME Inv, CallInv, pc = "idle"
  PROVE  /\ Now.latest = PayloadOf(Scan(slots).latest) /\ Now.free = Scan(slots).free
         /\ Scan(slots).latest \in Record \cup {NoRecord} /\ Now.free \in 0 .. Capacity
         /\ Scan(slots).first = Capacity => Now.free = 0
         /\ ~ (Scan(slots).first = Capacity) => Now.free > 0
         /\ LoadStatus(Scan(slots)) = "CORRUPT" <=> Abstract!Corrupt(Now)
         /\ LoadStatus(Scan(slots)) \in {"OK", "CORRUPT", "EMPTY"}
         /\ LoadStatus(Scan(slots)) = "OK" <=> Scan(slots).latest # NoRecord
<1>1. slots \in Sector
  BY DEF Inv, TypeOK, Sector
<1>2. /\ Now.latest = PayloadOf(Scan(slots).latest) /\ Now.free = Scan(slots).free
      /\ Scan(slots).latest \in Record \cup {NoRecord} /\ Now.free \in 0 .. Capacity
  <2>1. Now = Seen(Scan(slots))
    BY DEF Now
  <2>2. Now.latest = PayloadOf(Scan(slots).latest) /\ Now.free = Scan(slots).free
    BY <2>1 DEF Seen
  <2> QED
    BY <1>1, <2>2, ViewOfScan
<1>3. Now.latest = NoRecord <=> Scan(slots).latest = NoRecord
  BY <1>2, PayloadFacts
<1>4. /\ Scan(slots).first = Capacity => Now.free = 0
      /\ ~ (Scan(slots).first = Capacity) => Now.free > 0
  BY <1>1, <1>2, ViewOfScan, CapacityAssumption
<1>5. LoadStatus(Scan(slots)) = "CORRUPT"
        <=> Scan(slots).latest = NoRecord /\ Scan(slots).free < Capacity
  BY DEF LoadStatus, HasUsedSlot
<1>6. Abstract!Corrupt(Now) <=> Now.latest = NoRecord /\ Now.free < Capacity
  BY DEF Abstract!Corrupt, Abstract!NoRecord, NoRecord
<1>7. /\ LoadStatus(Scan(slots)) \in {"OK", "CORRUPT", "EMPTY"}
      /\ LoadStatus(Scan(slots)) = "OK" <=> Scan(slots).latest # NoRecord
  BY DEF LoadStatus
<1> QED
  BY <1>2, <1>3, <1>4, <1>5, <1>6, <1>7

-----------------------------------------------------------------------------
\* What a call leaves behind, seen from outside.

\* The operators of Journal are the same on both sides.
LEMMA SameOperators ==
  /\ \A j, p : Abstract!AppendDone(j, p) = AppendDone(j, p)
  /\ \A j, p : Abstract!AppendCut(j, p) = AppendCut(j, p)
  /\ \A j : Abstract!CompactDone(j) = CompactDone(j)
  /\ \A j : Abstract!CompactCut(j) = CompactCut(j)
<1>1. \A j, p : Abstract!AppendDone(j, p) = AppendDone(j, p)
  BY DEF Abstract!AppendDone, AppendDone
<1>2. \A j : Abstract!Tear(j) = Tear(j)
  BY DEF Abstract!Tear, Tear
<1>3. \A j : Abstract!CompactDone(j) = CompactDone(j)
  BY DEF Abstract!CompactDone, CompactDone
<1>4. Abstract!EmptyJournal = EmptyJournal
  BY DEF Abstract!EmptyJournal, EmptyJournal, Abstract!NoRecord, NoRecord
<1>5. \A j : Abstract!CompactCut(j) = CompactCut(j)
  BY <1>2, <1>3, <1>4 DEF Abstract!CompactCut, CompactCut
<1>6. \A j, p : Abstract!AppendCut(j, p) = AppendCut(j, p)
  BY <1>1, <1>2, <1>3, <1>5 DEF Abstract!AppendCut, AppendCut
<1> QED
  BY <1>1, <1>3, <1>5, <1>6

\* The view from outside, operator by operator.
LEMMA SeenFacts ==
  /\ Seen(EmptyJournal) = EmptyJournal
  /\ \A l, n : Seen([latest |-> l, free |-> n]) = [latest |-> PayloadOf(l), free |-> n]
  /\ \A l, n : Tear([latest |-> l, free |-> n]) = [latest |-> l, free |-> n - 1]
  BY PayloadFacts DEF Seen, EmptyJournal, Tear

\* The three views of the sector a call may leave while it programs a slot.
LEMMA SlotSeen ==
  ASSUME Inv, CallInv, pc # "idle"
  PROVE  LET N == Now
             p == PayloadOf(todo[1].rec)
             done == [latest |-> todo[1].rec, free |-> Tear(Base).free]
         IN /\ Rewriting =>
                 /\ Seen(Base) = EmptyJournal /\ Seen(Tear(Base)) = Tear(EmptyJournal)
                 /\ Seen(done) = CompactDone(N)
            /\ ~ Rewriting /\ N.free > 0 =>
                 /\ Seen(Base) = N /\ Seen(Tear(Base)) = Tear(N)
                 /\ Seen(done) = AppendDone(N, p)
            /\ ~ Rewriting /\ ~ (N.free > 0) =>
                 /\ Seen(Base) = CompactDone(N) /\ Seen(Tear(Base)) = Tear(CompactDone(N))
                 /\ Seen(done) = AppendDone(N, p)
<1> DEFINE N == Now
           p == PayloadOf(todo[1].rec)
           done == [latest |-> todo[1].rec, free |-> Tear(Base).free]
<1>1. N = [latest |-> PayloadOf(scan.latest), free |-> scan.free] /\ scan.free \in Nat
  BY AbstractState, CallTypes
<1>2. Seen(done) = [latest |-> p, free |-> Tear(Base).free]
  BY SeenFacts
<1> HIDE DEF N, p, done
<1>3. CASE Rewriting
  <2>1. Base = EmptyJournal /\ p = N.latest
    BY <1>1, <1>3 DEF Base, Rewriting, p
  <2>2. Tear(Base) = [latest |-> NoRecord, free |-> Capacity - 1]
    BY <2>1 DEF Tear, EmptyJournal
  <2>3. Seen(Tear(Base)) = Tear(EmptyJournal)
    BY <2>1, <2>2, SeenFacts, PayloadFacts DEF EmptyJournal
  <2>4. Seen(done) = CompactDone(N)
    BY <1>2, <2>1, <2>2 DEF CompactDone
  <2> QED
    BY <1>3, <2>1, <2>3, <2>4, SeenFacts DEF N, p, done
<1>4. CASE ~ Rewriting /\ N.free > 0
  <2>1. Base = [latest |-> scan.latest, free |-> scan.free]
    BY <1>1, <1>4 DEF Base
  <2>2. Tear(Base) = [latest |-> scan.latest, free |-> scan.free - 1]
    BY <2>1, SeenFacts
  <2>3. Seen(Base) = N /\ Seen(Tear(Base)) = Tear(N)
    <3>1. Seen(Base) = N
      BY <1>1, <2>1 DEF Seen
    <3>2. Seen(Tear(Base)) = [latest |-> PayloadOf(scan.latest), free |-> scan.free - 1]
      BY <2>2 DEF Seen
    <3>3. Tear(N) = [latest |-> PayloadOf(scan.latest), free |-> scan.free - 1]
      BY <1>1, SeenFacts
    <3> QED
      BY <3>1, <3>2, <3>3
  <2>4. Seen(done) = AppendDone(N, p)
    BY <1>1, <1>2, <1>4, <2>2 DEF AppendDone
  <2> QED
    BY <1>4, <2>3, <2>4 DEF N, p, done
<1>5. CASE ~ Rewriting /\ ~ (N.free > 0)
  <2>1. Base = [latest |-> scan.latest, free |-> Capacity - 1]
    BY <1>1, <1>5 DEF Base
  <2>2. Tear(Base) = [latest |-> scan.latest, free |-> Capacity - 2]
    BY <2>1, SeenFacts, CapacityAssumption
  <2>3. CompactDone(N) = [latest |-> PayloadOf(scan.latest), free |-> Capacity - 1]
    BY <1>1 DEF CompactDone
  <2>4. Seen(Base) = CompactDone(N) /\ Seen(Tear(Base)) = Tear(CompactDone(N))
    <3>1. Seen(Base) = CompactDone(N)
      BY <2>1, <2>3 DEF Seen
    <3>2. Seen(Tear(Base)) = [latest |-> PayloadOf(scan.latest), free |-> Capacity - 2]
      BY <2>2 DEF Seen
    <3>3. Tear(CompactDone(N)) = [latest |-> PayloadOf(scan.latest), free |-> Capacity - 1 - 1]
      BY <2>3, SeenFacts
    <3> QED
      BY <3>1, <3>2, <3>3, CapacityAssumption
  <2>5. Seen(done) = AppendDone(N, p)
    BY <1>1, <1>2, <1>5, <2>2 DEF AppendDone
  <2> QED
    BY <1>5, <2>4, <2>5 DEF N, p, done
<1> QED
  BY <1>3, <1>4, <1>5 DEF N, p, done

\* The operation under way is cut short.
Cut ==
  \/ pc = "erase"   /\ slots' \in EraseCut
  \/ pc = "program" /\ slots' \in ProgramCut
  \/ pc = "commit"  /\ slots' \in CommitCut

\* What a cut leaves of the sector, if an erase is all or nothing.
LEMMA CutViews ==
  ASSUME Inv, CallInv, ~ PartialErase, Cut
  PROVE  /\ pc # "idle" /\ slots' \in Sector
         /\ \/ pc = "erase" /\ Rewriting /\ Seen(Viewed(slots')) \in {Now, EmptyJournal}
            \/ Viewed(slots') \in {Base, Tear(Base),
                                   [latest |-> todo[1].rec, free |-> Tear(Base).free]}
<1>1. pc # "idle" /\ slots' \in Sector
  BY CutDistinct DEF Cut
<1>2. CASE pc = "erase" /\ slots' \in EraseCut
  <2>1. slots' = slots \/ slots' = [i \in Slot |-> Erased]
    BY <1>2 DEF EraseCut
  <2>2. Rewriting /\ Seen(Viewed(slots)) = Now
    BY <1>2, AbstractState, SeenFacts DEF CallInv
  <2> QED
    BY <1>1, <1>2, <2>1, <2>2, BlankView, SeenFacts
<1>3. CASE pc = "program" /\ slots' \in ProgramCut
  <2>1. slots' = slots \/ slots' = [slots EXCEPT ![Target] = Torn]
    BY <1>3 DEF ProgramCut
  <2>2. Viewed(slots) = Base /\ Viewed([slots EXCEPT ![Target] = Torn]) = Tear(Base)
    BY <1>3, SlotViews DEF CallInv
  <2> QED
    BY <1>1, <2>1, <2>2
<1>4. CASE pc = "commit" /\ slots' \in CommitCut
  <2>1. slots' = slots \/ slots' = Committed
    BY <1>4 DEF CommitCut
  <2>2. /\ Viewed(slots) = Tear(Base)
        /\ Viewed(Committed) = [latest |-> todo[1].rec, free |-> Tear(Base).free]
    BY <1>4, SlotViews DEF CallInv
  <2> QED
    BY <1>1, <2>1, <2>2
<1> QED
  BY <1>2, <1>3, <1>4 DEF Cut

\* That is one of the outcomes JournalSpec names.
LEMMA CutAllowed ==
  ASSUME Inv, CallInv, ~ PartialErase, Cut
  PROVE  IF Rewriting /\ Len(todo) = 1
         THEN Seen(Viewed(slots')) \in CompactCut(Now)
         ELSE Seen(Viewed(slots')) \in AppendCut(Now, PayloadOf(todo[Len(todo)].rec))
<1> DEFINE N == Now
           v == Seen(Viewed(slots'))
           p == PayloadOf(todo[Len(todo)].rec)
<1>1. pc # "idle"
  BY CutViews
<1>2. CASE Rewriting
  <2>1. v \in {N, EmptyJournal, Tear(EmptyJournal), CompactDone(N)}
    BY <1>1, <1>2, CutViews, SlotSeen
  <2>2. v \in CompactCut(N)
    BY <2>1 DEF CompactCut
  <2>3. CASE Len(todo) = 1
    BY <1>2, <2>2, <2>3
  <2>4. CASE Len(todo) # 1
    <3>1. scan.free = 0
      BY <1>1, <2>4, CallTypes DEF CallInv
    <3>2. N.free = 0
      BY <1>1, <3>1, AbstractState
    <3> HIDE DEF N, v, p
    <3>3. v \in AppendCut(N, p)
      BY <2>2, <3>2 DEF AppendCut
    <3> QED
      BY <2>4, <3>3 DEF N, v, p
  <2> QED
    BY <2>3, <2>4
<1>3. CASE ~ Rewriting
  <2>1. Len(todo) = 1
    BY <1>1, <1>3, CallTypes DEF CallInv
  <2>2. \/ N.free > 0 /\ v \in {N, Tear(N), AppendDone(N, p)}
        \/ ~ (N.free > 0) /\ v \in {CompactDone(N), Tear(CompactDone(N)), AppendDone(N, p)}
    BY <1>1, <1>3, <2>1, CutViews, SlotSeen
  <2> HIDE DEF N, v, p
  <2>3. v \in AppendCut(N, p)
    BY <2>2 DEF AppendCut, CompactCut
  <2> QED
    BY <1>3, <2>3 DEF N, v, p
<1> QED
  BY <1>2, <1>3

\* The answers of append's checks, and what two of them say.
LEMMA AppendStatusSet ==
  ASSUME NEW s, NEW p
  PROVE  AppendStatus(s, p) \in {"INVALID_ARGUMENT", "CORRUPT", "SEQUENCE_EXHAUSTED",
                                 "UNSAFE_STATE", "OK"}
  BY SMT DEF AppendStatus

\* append refuses an unsafe state only when no slot is erased.
LEMMA UnsafeStatus ==
  ASSUME NEW s, NEW p, AppendStatus(s, p) = "UNSAFE_STATE"
  PROVE  /\ s.first = Capacity /\ LoadStatus(s) = "OK"
         /\ ~ SafeToCompact(s.latest.state)
  BY SMT DEF AppendStatus

-----------------------------------------------------------------------------
\* The steps.

\* boot_metadata_append, up to its first flash operation.
LEMMA AppendRefines ==
  ASSUME Inv, CallInv, NEW p \in [state : State, data : Data \cup {Malformed}],
         AppendRecord(p)
  PROVE  Abstract!Next
<1> DEFINE s == Scan(slots)
<1>1. pc = "idle" /\ slots' = slots
  BY DEF AppendRecord
<1>2. CASE AppendStatus(s, p) # "OK"
  <2>1. Return(AppendStatus(s, p))
    BY <1>2 DEF AppendRecord
  <2>2. Abstract!Answer(ResultOf(AppendStatus(s, p)))
    BY <1>1, <2>1, Answers
  <2>3. CASE AppendStatus(s, p) \in {"INVALID_ARGUMENT", "SEQUENCE_EXHAUSTED"}
    <3>1. ResultOf(AppendStatus(s, p)) = "REFUSED"
      BY <2>3 DEF ResultOf
    <3> QED
      BY <2>2, <3>1 DEF Abstract!Refused, Abstract!Next
  <2>4. CASE AppendStatus(s, p) \in {"CORRUPT", "UNSAFE_STATE"}
    <3>1. ResultOf(AppendStatus(s, p)) = "UNAVAILABLE"
      BY <2>4 DEF ResultOf
    <3>2. ~ Abstract!CanAppend(Now)
      <4>1. CASE AppendStatus(s, p) = "CORRUPT"
        <5>1. LoadStatus(s) = "CORRUPT"
          BY <4>1 DEF AppendStatus
        <5> QED
          BY <1>1, <5>1, IdleJournal DEF Abstract!CanAppend
      <4>2. CASE AppendStatus(s, p) = "UNSAFE_STATE"
        <5>1. s.first = Capacity /\ LoadStatus(s) = "OK" /\ ~ SafeToCompact(s.latest.state)
          BY <4>2, UnsafeStatus DEF AppendStatus
        <5>2. s.latest \in Record /\ Now.free = 0 /\ Now.latest = PayloadOf(s.latest)
          BY <1>1, <5>1, IdleJournal
        <5>3. Now.latest.state = s.latest.state
          BY <5>2, PayloadFacts
        <5> QED
          BY <5>1, <5>2, <5>3 DEF Abstract!CanAppend, Abstract!SafeToCompact, SafeToCompact
      <4> QED
        BY <2>4, <4>1, <4>2
    <3> QED
      BY <2>2, <3>1, <3>2 DEF Abstract!Unavailable, Abstract!Next, Now
  <2> QED
    BY <1>2, <2>3, <2>4, AppendStatusSet
<1>3. CASE AppendStatus(s, p) = "OK"
  <2>1. /\ scan' = s /\ status' = "NONE" /\ slots' = slots /\ slots \in Sector
        /\ pc' # "idle" /\ todo'[Len(todo')].rec = Prepared(s, p)
    BY <1>3, AppendBegins
  <2>2. Prepared(s, p) # s.latest /\ p \in Payload /\ PayloadOf(Prepared(s, p)) = p
    BY <1>3, <2>1, NewRecord
  <2>3. CallInProgress' = [op |-> "append", payload |-> p]
    BY <2>1, <2>2 DEF CallInProgress
  <2>4. Now' = Now
    BY <1>1, <2>1 DEF Now
  <2>5. CallInProgress = NoWriter /\ ResultOf(status') = "NONE"
    BY <1>1, <2>1, AbstractState DEF ResultOf
  <2>6. Abstract!Begin(Abstract!Appending(p))
    BY <2>3, <2>4, <2>5, Begins DEF Abstract!Appending
  <2>7. Abstract!CanAppend(Now)
    <3>1. ~ Abstract!Corrupt(Now)
      <4>1. LoadStatus(s) # "CORRUPT"
        BY <1>3 DEF AppendStatus
      <4> QED
        BY <1>1, <4>1, IdleJournal
    <3>2. CASE s.first = Capacity
      <4>1. s.latest \in Record /\ SafeToCompact(s.latest.state)
        BY <1>3, <2>1, <3>2, AppendAccepted, ScanTypes
      <4>2. Now.latest.state = s.latest.state
        BY <1>1, <4>1, IdleJournal, PayloadFacts
      <4> QED
        BY <3>1, <4>1, <4>2 DEF Abstract!CanAppend, Abstract!SafeToCompact, SafeToCompact
    <3>3. CASE s.first # Capacity
      BY <1>1, <3>1, <3>3, IdleJournal DEF Abstract!CanAppend
    <3> QED
      BY <3>2, <3>3
  <2> QED
    BY <2>2, <2>6, <2>7 DEF Abstract!BeginAppend, Abstract!Next, Now
<1> QED
  BY <1>2, <1>3

\* The answers of compact_if_needed, and what they say.
LEMMA CompactStatusFacts ==
  ASSUME NEW s, NEW n
  PROVE  \/ CompactStatus(s, n) = "INVALID_ARGUMENT"
         \/ /\ CompactStatus(s, n) = LoadStatus(s) /\ n \in 1 .. (Capacity - 1)
            /\ s.free >= n \/ s.latest = NoRecord
         \/ /\ CompactStatus(s, n) = "UNSAFE_STATE" /\ n \in 1 .. (Capacity - 1)
            /\ s.free < n /\ s.latest # NoRecord /\ ~ SafeToCompact(s.latest.state)
         \/ /\ CompactStatus(s, n) = "COMPACT" /\ n \in 1 .. (Capacity - 1)
            /\ ~ (s.free >= n) /\ s.latest # NoRecord
            /\ ~ (s.free < n /\ ~ SafeToCompact(s.latest.state))
<1>1. CASE n \notin 1 .. (Capacity - 1)
  BY <1>1, Zenon DEF CompactStatus
<1>2. CASE n \in 1 .. (Capacity - 1) /\ (s.free >= n \/ s.latest = NoRecord)
  BY <1>2, SMT DEF CompactStatus
<1>3. CASE n \in 1 .. (Capacity - 1) /\ ~ (s.free >= n \/ s.latest = NoRecord)
  BY <1>3, SMT DEF CompactStatus
<1> QED
  BY <1>1, <1>2, <1>3

\* boot_metadata_compact_if_needed, up to its first flash operation.
LEMMA CompactRefines ==
  ASSUME Inv, CallInv, NEW n \in 0 .. Capacity, CompactIfNeeded(n)
  PROVE  Abstract!Next
<1> DEFINE s == Scan(slots)
           st == CompactStatus(s, n)
<1>1. pc = "idle" /\ slots' = slots
  BY DEF CompactIfNeeded
<1>2. /\ s.latest \in Record \cup {NoRecord} /\ s.free \in 0 .. Capacity /\ n \in Nat
      /\ Now.free = s.free /\ Now.latest = PayloadOf(s.latest)
      /\ Now.latest # NoRecord => Now.latest.state = s.latest.state
      /\ Capacity \in Nat
  BY <1>1, IdleJournal, PayloadFacts, CapacityAssumption
<1>3. ASSUME st # "COMPACT"
      PROVE  Abstract!Answer(ResultOf(st))
  BY <1>1, <1>3, Answers DEF CompactIfNeeded
<1>4. CASE st = "INVALID_ARGUMENT"
  <2>1. ResultOf(st) = "REFUSED"
    BY <1>4 DEF ResultOf
  <2> QED
    BY <1>3, <1>4, <2>1 DEF Abstract!Refused, Abstract!Next
<1>5. CASE /\ st = LoadStatus(s) /\ n \in 1 .. (Capacity - 1)
           /\ s.free >= n \/ s.latest = NoRecord
  <2>1. st \in {"OK", "CORRUPT", "EMPTY"}
    BY <1>1, <1>5, IdleJournal
  <2>2. Abstract!Answer(ResultOf(st))
    BY <1>3, <2>1
  <2>3. CASE st = "CORRUPT"
    <3>1. ~ Abstract!CanAppend(Now)
      BY <1>1, <1>5, <2>3, IdleJournal DEF Abstract!CanAppend
    <3>2. ResultOf(st) = "UNAVAILABLE"
      BY <2>3 DEF ResultOf
    <3> QED
      BY <2>2, <3>1, <3>2 DEF Abstract!Unavailable, Abstract!Next, Now
  <2>4. CASE st \in {"OK", "EMPTY"}
    <3>1. ResultOf(st) = "OK"
      BY <2>4 DEF ResultOf
    <3>2. ~ Abstract!Corrupt(Now)
      BY <1>1, <1>5, <2>4, IdleJournal
    <3>3. s.free >= n
      <4>1. CASE s.latest = NoRecord
        <5>1. ~ (s.free < Capacity)
          BY <1>1, <1>5, <2>4, <4>1 DEF LoadStatus, HasUsedSlot
        <5> QED
          BY <1>2, <1>5, <5>1
      <4> QED
        BY <1>5, <4>1
    <3>4. Abstract!HasRoom(Now, n)
      BY <1>2, <1>5, <3>2, <3>3 DEF Abstract!HasRoom
    <3> QED
      BY <1>5, <2>2, <3>1, <3>4 DEF Abstract!HadRoom, Abstract!Next, Now
  <2> QED
    BY <2>1, <2>3, <2>4
<1>6. CASE /\ st = "UNSAFE_STATE" /\ n \in 1 .. (Capacity - 1)
           /\ s.free < n /\ s.latest # NoRecord /\ ~ SafeToCompact(s.latest.state)
  <2>1. ResultOf(st) = "UNAVAILABLE"
    BY <1>6 DEF ResultOf
  <2>2. Now.latest.state = s.latest.state
    BY <1>2, <1>6, PayloadFacts
  <2>3. ~ Abstract!HasRoom(Now, n) /\ ~ Abstract!CanCompact(Now, n)
    <3>1. ~ (Now.free >= n)
      BY <1>2, <1>6
    <3>2. ~ Abstract!SafeToCompact(Now.latest.state)
      BY <1>6, <2>2 DEF Abstract!SafeToCompact, SafeToCompact
    <3> QED
      BY <3>1, <3>2 DEF Abstract!HasRoom, Abstract!CanCompact
  <2> QED
    BY <1>3, <1>6, <2>1, <2>3 DEF Abstract!Unavailable, Abstract!Next, Now
<1>7. CASE /\ st = "COMPACT" /\ n \in 1 .. (Capacity - 1)
           /\ ~ (s.free >= n) /\ s.latest # NoRecord
           /\ ~ (s.free < n /\ ~ SafeToCompact(s.latest.state))
  <2>1. /\ scan' = s /\ status' = "NONE" /\ slots' = slots /\ slots \in Sector
        /\ pc' # "idle" /\ todo'[Len(todo')].rec = s.latest
    BY <1>7, CompactBegins
  <2>2. CallInProgress' = [op |-> "compact", payload |-> Now.latest]
    BY <1>2, <2>1 DEF CallInProgress
  <2>3. Now' = Now
    BY <1>1, <2>1 DEF Now
  <2>4. CallInProgress = NoWriter /\ ResultOf(status') = "NONE"
    BY <1>1, <2>1, AbstractState DEF ResultOf
  <2>5. Abstract!Begin(Abstract!Compacting(Now.latest))
    BY <2>2, <2>3, <2>4, Begins DEF Abstract!Compacting
  <2>6. Abstract!CanCompact(Now, n)
    <3>1. Now.free < n /\ SafeToCompact(s.latest.state) /\ Now.latest.state = s.latest.state
      BY <1>2, <1>7, PayloadFacts
    <3> QED
      BY <1>7, <3>1 DEF Abstract!CanCompact, Abstract!SafeToCompact, SafeToCompact
  <2> QED
    BY <1>7, <2>5, <2>6 DEF Abstract!BeginCompact, Abstract!Next, Now
<1> QED
  BY <1>4, <1>5, <1>6, <1>7, CompactStatusFacts

\* A step inside a call that its caller cannot see.
LEMMA InsideCall ==
  ASSUME Inv, CallInv, pc # "idle", pc' # "idle", scan' = scan, status' = status,
         todo'[Len(todo')].rec = todo[Len(todo)].rec
  PROVE  UNCHANGED Abstract!vars
<1>1. Now' = Now
  BY DEF Now
<1>2. CallInProgress' = CallInProgress
  BY DEF CallInProgress
<1>3. ResultOf(status)' = ResultOf(status)
  BY DEF ResultOf
<1> QED
  BY <1>1, <1>2, <1>3 DEF Abstract!vars, Now

\* A call that ends with j, as its caller sees it.
LEMMA CallEnds ==
  ASSUME Inv, CallInv, pc # "idle", NEW r, NEW j, Abstract!Return(j, r),
         IF Rewriting /\ Len(todo) = 1
         THEN \/ r = "OK" /\ j = CompactDone(Now)
              \/ r \in {"FAILED", "NONE"} /\ j \in CompactCut(Now)
         ELSE \/ r = "OK" /\ j = AppendDone(Now, PayloadOf(todo[Len(todo)].rec))
              \/ /\ r \in {"FAILED", "NONE"}
                 /\ j \in AppendCut(Now, PayloadOf(todo[Len(todo)].rec))
  PROVE  Abstract!Next
<1> DEFINE p == PayloadOf(todo[Len(todo)].rec)
<1>1. CASE Rewriting /\ Len(todo) = 1
  <2>1. CallInProgress = Abstract!Compacting(Now.latest)
    <3>1. PayloadOf(todo[Len(todo)].rec) = Now.latest
      BY <1>1, AbstractState DEF Rewriting
    <3> QED
      BY <1>1, <3>1, AbstractState DEF Abstract!Compacting
  <2>2. CASE r = "OK" /\ j = CompactDone(Now)
    BY <2>1, <2>2, SameOperators DEF Abstract!EndCompact, Abstract!Next, Now
  <2>3. CASE r \in {"FAILED", "NONE"} /\ j \in CompactCut(Now)
    <3>1. Abstract!Interrupted(j)
      BY <2>3 DEF Abstract!Interrupted
    <3> QED
      BY <2>1, <2>3, <3>1, SameOperators DEF Abstract!EndCompact, Abstract!Next, Now
  <2> QED
    BY <1>1, <2>2, <2>3
<1>2. CASE ~ (Rewriting /\ Len(todo) = 1)
  <2>1. CallInProgress = Abstract!Appending(p)
    BY <1>2, AbstractState DEF Abstract!Appending
  <2>2. p \in Payload
    BY CallTypes, PayloadFacts
  <2>3. CASE r = "OK" /\ j = AppendDone(Now, p)
    <3>1. Abstract!EndAppend(p)
      BY <2>1, <2>3, SameOperators DEF Abstract!EndAppend, Now
    <3> QED
      BY <2>2, <3>1 DEF Abstract!Next
  <2>4. CASE r \in {"FAILED", "NONE"} /\ j \in AppendCut(Now, p)
    <3>1. Abstract!Interrupted(j)
      BY <2>4 DEF Abstract!Interrupted
    <3>2. Abstract!EndAppend(p)
      BY <2>1, <2>4, <3>1, SameOperators DEF Abstract!EndAppend, Now
    <3> QED
      BY <2>2, <3>2 DEF Abstract!Next
  <2> QED
    BY <1>2, <2>3, <2>4
<1> QED
  BY <1>1, <1>2

\* The commit marker: the end of the call, or the middle of one that compacts
\* and then appends.
LEMMA CommitRefines ==
  ASSUME Inv, CallInv, ProgramCommit
  PROVE  Abstract!Next \/ UNCHANGED Abstract!vars
<1>1. CASE Len(todo) # 1
  <2>1. /\ pc = "commit" /\ pc' = "program" /\ scan' = scan /\ status' = status
        /\ todo'[Len(todo')].rec = todo[Len(todo)].rec
    BY <1>1, SecondSlot
  <2> QED
    BY <2>1, InsideCall
<1>2. CASE Len(todo) = 1
  <2>1. pc = "commit" /\ slots' = Committed /\ Return("OK")
    BY <1>2 DEF ProgramCommit
  <2>2. slots' \in Sector
    BY <2>1, CommitAdds
  <2>3. Abstract!Return(Seen(Viewed(slots')), "OK")
    <3>1. ResultOf("OK") = "OK"
      BY DEF ResultOf
    <3> QED
      BY <2>1, <2>2, <3>1, Returns
  <2>4. Viewed(slots') = [latest |-> todo[1].rec, free |-> Tear(Base).free]
    BY <2>1, SlotViews
  <2>5. IF Rewriting THEN Seen(Viewed(slots')) = CompactDone(Now)
                     ELSE Seen(Viewed(slots')) = AppendDone(Now, PayloadOf(todo[1].rec))
    BY <2>1, <2>4, SlotSeen
  <2> QED
    BY <1>2, <2>1, <2>3, <2>5, CallEnds
<1> QED
  BY <1>1, <1>2

\* An error or a loss of power in the middle of a flash operation.
LEMMA CutRefines ==
  ASSUME Inv, CallInv, ~ PartialErase, FlashError \/ PowerLoss
  PROVE  Abstract!Next
<1>1. Cut
  BY DEF Cut, FlashError, PowerLoss
<1>2. PICK st \in {"ERASE_ERROR", "PROGRAM_ERROR", "LOCK_ERROR", "NONE"} : Return(st)
  BY DEF FlashError, PowerLoss
<1>3. ResultOf(st) \in {"FAILED", "NONE"}
  BY DEF ResultOf
<1>4. pc # "idle" /\ slots' \in Sector
  BY <1>1, CutViews
<1>5. Abstract!Return(Seen(Viewed(slots')), ResultOf(st))
  BY <1>2, <1>4, Returns
<1>6. IF Rewriting /\ Len(todo) = 1
      THEN Seen(Viewed(slots')) \in CompactCut(Now)
      ELSE Seen(Viewed(slots')) \in AppendCut(Now, PayloadOf(todo[Len(todo)].rec))
  BY <1>1, CutAllowed
<1> QED
  BY <1>3, <1>4, <1>5, <1>6, CallEnds

\* Every step of the slots is one of the journal, or none.
LEMMA StepRefines ==
  Inv /\ CallInv /\ ~ PartialErase /\ [Next]_vars
    => Abstract!Next \/ UNCHANGED Abstract!vars
<1> SUFFICES ASSUME Inv, CallInv, ~ PartialErase, [Next]_vars
             PROVE  Abstract!Next \/ UNCHANGED Abstract!vars
  OBVIOUS
<1>1. ASSUME NEW p \in [state : State, data : Data \cup {Malformed}], AppendRecord(p)
      PROVE  Abstract!Next
  BY <1>1, AppendRefines
<1>2. ASSUME NEW n \in 0 .. Capacity, CompactIfNeeded(n)  PROVE Abstract!Next
  BY <1>2, CompactRefines
<1>3. CASE EraseSector
  <2>1. pc # "idle" /\ pc' # "idle" /\ scan' = scan /\ status' = status /\ todo' = todo
    BY <1>3 DEF EraseSector
  <2> QED
    BY <2>1, InsideCall
<1>4. CASE ProgramBody
  <2>1. slots[Target] = Erased
    BY <1>4, SlotViews DEF ProgramBody
  <2>2. pc # "idle" /\ pc' # "idle" /\ scan' = scan /\ status' = status /\ todo' = todo
    BY <1>4, <2>1 DEF ProgramBody
  <2> QED
    BY <2>2, InsideCall
<1>5. CASE ProgramCommit
  BY <1>5, CommitRefines
<1>6. CASE FlashError \/ PowerLoss
  BY <1>6, CutRefines
<1>7. CASE UNCHANGED vars
  <2>1. Now' = Now /\ CallInProgress' = CallInProgress /\ ResultOf(status)' = ResultOf(status)
    BY <1>7 DEF vars, Now, CallInProgress, ResultOf
  <2> QED
    BY <2>1 DEF Abstract!vars, Now
<1> QED
  BY <1>1, <1>2, <1>3, <1>4, <1>5, <1>6, <1>7 DEF Next

\* The erased sector is the empty journal.
LEMMA InitRefines == Init => CallInv /\ Abstract!Init
<1> SUFFICES ASSUME Init  PROVE CallInv /\ Abstract!Init
  OBVIOUS
<1>1. pc = "idle" /\ slots = [i \in Slot |-> Erased] /\ status = "NONE"
  BY DEF Init
<1>2. CallInv
  BY <1>1 DEF CallInv
<1>3. Inv
  BY InitInv
<1>4. Now = EmptyJournal
  BY <1>1, <1>2, <1>3, AbstractState, BlankView, SeenFacts
<1>5. CallInProgress = NoWriter /\ ResultOf(status) = "NONE"
  BY <1>1 DEF CallInProgress, NoWriter, ResultOf
<1> QED
  BY <1>2, <1>4, <1>5 DEF Abstract!Init, Abstract!NoCall, Abstract!EmptyJournal,
     Abstract!NoRecord, EmptyJournal, NoRecord, NoWriter, Now

-----------------------------------------------------------------------------
\* The sector a running call has made so far: what the scan found while it appends,
\* nothing or the latest record while it compacts (boot_metadata_compact_latest),
\* and one slot less while a slot is being programmed.
THEOREM CallInvariant == Spec => [](Inv /\ CallInv)
<1>1. Init => Inv /\ CallInv
  BY InitInv, InitRefines
<1>2. Inv /\ CallInv /\ [Next]_vars => (Inv /\ CallInv)'
  BY StepInv, CallInvStep
<1> QED
  BY <1>1, <1>2, PTL DEF Spec

\* boot_metadata.c implements the journal that bootloader and application are built
\* on, for every capacity, every limit of the sequence numbers and every history
\* of calls, flash errors and power losses, as long as an interrupted erase
\* of the sector is all or nothing.
THEOREM SlotsImplementJournal ==
  ASSUME ~ PartialErase
  PROVE  Spec => ImplementsJournal
<1>1. Init => Abstract!Init
  BY InitRefines
<1>2. Inv /\ CallInv /\ [Next]_vars => [Abstract!Next]_Abstract!vars
  BY StepRefines
<1> QED
  BY <1>1, <1>2, CallInvariant, PTL DEF Spec, ImplementsJournal, Abstract!Spec
=============================================================================
