---------------------------- MODULE Device_proofs ----------------------------
(***************************************************************************)
(* What holds of Device for every image size, capacity and number of       *)
(* faults: its types, that acknowledged data stay, and the board's safety. *)
(***************************************************************************)
EXTENDS Device, TLAPS

-----------------------------------------------------------------------------
\* The journal's operators.

\* Appending keeps the journal well formed, whole or cut short, and the latest
\* record is then the old one, the new one or, after a compaction of a record
\* that may be compacted away, none.
LEMMA AppendKeepsType ==
  ASSUME NEW j \in JournalOf(Payload), NEW p \in Payload, CanAppend(j)
  PROVE  /\ AppendDone(j, p) \in JournalOf(Payload)
         /\ AppendDone(j, p).latest = p
         /\ \A k \in AppendCut(j, p) :
              /\ k \in JournalOf(Payload)
              /\ \/ k.latest \in {j.latest, p}
                 \/ k.latest = NoRecord /\ SafeToCompact(j.latest.state)
<1>1. CASE j.free > 0
  BY <1>1, CapacityAssumption DEF JournalOf, AppendDone, AppendCut, Tear
<1>2. CASE j.free = 0
  <2>1. SafeToCompact(j.latest.state)
    BY <1>2 DEF CanAppend
  <2> QED
    BY <1>2, <2>1, CapacityAssumption
    DEF JournalOf, AppendDone, AppendCut, Tear, CompactCut, CompactDone, EmptyJournal
<1> QED
  BY <1>1, <1>2 DEF JournalOf

\* A compaction keeps the journal well formed; whole or cut short it leaves the
\* latest record, or none.
LEMMA CompactKeepsType ==
  ASSUME NEW j \in JournalOf(Payload), SafeToCompact(j.latest.state)
  PROVE  /\ CompactDone(j) \in JournalOf(Payload)
         /\ CompactDone(j).latest = j.latest
         /\ CanAppend(CompactDone(j))
         /\ \A k \in CompactCut(j) :
              k \in JournalOf(Payload) /\ k.latest \in {j.latest, NoRecord}
  BY CapacityAssumption
  DEF JournalOf, CompactDone, CompactCut, Tear, EmptyJournal, CanAppend, Corrupt,
      NoRecord, SafeToCompact

\* What an append of p, with or without a compaction before it, may leave: the
\* record and the device `done', or a device that `failed' or lost power and a
\* journal whose latest record is the old one, the new one or none.
Outcome(p, done, failed) ==
  /\ journal' \in JournalOf(Payload)
  /\ faults' \in 0 .. MaxFaults
  /\ \/ dev' = done /\ journal'.latest = p
     \/ /\ dev' \in {failed, Off}
        /\ \/ journal'.latest \in {journal.latest, p}
           \/ journal'.latest = NoRecord /\ SafeToCompact(journal.latest.state)

\* An append leaves the old record, the new one or, compacting, none.
LEMMA AppendOutcome ==
  ASSUME journal \in JournalOf(Payload), faults \in 0 .. MaxFaults,
         NEW p \in Payload, NEW done, NEW failed, Append(p, done, failed)
  PROVE  Outcome(p, done, failed)
<1>1. faults' \in 0 .. MaxFaults
  BY DeviceAssumption DEF Append, Fault, NoFault
<1>2. CASE CanAppend(journal) /\ journal' = AppendDone(journal, p) /\ dev' = done
  BY <1>1, <1>2, AppendKeepsType DEF Outcome
<1>3. CASE UNCHANGED journal /\ dev' = failed
  BY <1>1, <1>3 DEF Outcome
<1>4. CASE /\ CanAppend(journal)
           /\ journal' \in AppendCut(journal, p) /\ dev' \in {failed, Off}
  BY <1>1, <1>4, AppendKeepsType DEF Outcome
<1> QED
  BY <1>2, <1>3, <1>4 DEF Append

\* An append after boot_metadata_compact_if_needed has the same outcomes.
LEMMA ReserveOutcome ==
  ASSUME journal \in JournalOf(Payload), faults \in 0 .. MaxFaults,
         NEW p \in Payload, NEW done, NEW failed, NEW n,
         ReserveAndAppend(n, p, done, failed)
  PROVE  Outcome(p, done, failed)
<1>1. CASE HasRoom(journal, n) /\ Append(p, done, failed)
  BY <1>1, AppendOutcome
<1>2. CASE /\ CanCompact(journal, n) /\ NoFault /\ dev' = done
           /\ journal' = AppendDone(CompactDone(journal), p)
  BY <1>2, CompactKeepsType, AppendKeepsType DEF CanCompact, NoFault, Outcome
<1>3. CASE /\ CanCompact(journal, n) /\ Fault /\ dev' \in {failed, Off}
           /\ journal' \in CompactCut(journal) \cup AppendCut(CompactDone(journal), p)
  <2>1. faults' \in 0 .. MaxFaults
    BY <1>3, DeviceAssumption DEF Fault
  <2>2. CASE journal' \in CompactCut(journal)
    BY <1>3, <2>1, <2>2, CompactKeepsType DEF CanCompact, Outcome
  <2>3. CASE journal' \in AppendCut(CompactDone(journal), p)
    BY <1>3, <2>1, <2>3, CompactKeepsType, AppendKeepsType DEF CanCompact, Outcome
  <2> QED
    BY <1>3, <2>2, <2>3
<1>4. CASE NoFault /\ UNCHANGED journal /\ dev' = failed
  BY <1>4 DEF NoFault, Outcome
<1> QED
  BY <1>1, <1>2, <1>3, <1>4 DEF ReserveAndAppend

-----------------------------------------------------------------------------
\* Types.

\* Where the handlers may be: an erase or a CRC check in progress belongs to a
\* record in the matching state, and nothing is pending in the window.
WellFormed(d) ==
  /\ d \in Dev
  /\ d.pc = "erase" => d.at = "service" /\ d.rec.state = "ERASING"
  /\ d.pc = "verify" => d.at = "service" /\ d.rec.state = "VERIFYING"
  /\ d.deferred = "erase" =>
       d.at = "service" /\ d.pc = "reply" /\ d.rec.state = "ERASING"
  /\ d.at = "window" => d.pc = "idle"

TypeInv == TypeOK /\ WellFormed(dev)

Status == {"NONE", "OK", "BUSY", "BAD_FRAME", "BAD_SESSION", "BAD_OFFSET",
           "BAD_IMAGE_SIZE", "FLASH_ERROR", "VERIFY_FAILED"}

\* The records the handlers write are well formed.
LEMMA RecordTypes ==
  /\ NoRecord \notin Payload /\ NoRecord.state = "NONE"
  /\ Off \in Dev /\ Jump \in Dev
  /\ \A state \in BootState, s \in Session \cup {0}, m \in Manifest \cup {NoManifest} :
       NewRecord(state, s, m) \in Payload
<1>1. NoRecord \notin Payload /\ NoRecord.state = "NONE"
  BY DEF NoRecord, Payload, BootState
<1>2. Off \in Dev /\ Jump \in Dev
  BY DEF Off, Jump, Dev, BootPlace, AppPlace, NoRecord
<1>3. ASSUME NEW state \in BootState, NEW s \in Session \cup {0},
             NEW m \in Manifest \cup {NoManifest}
      PROVE  NewRecord(state, s, m) \in Payload
  BY DeviceAssumption DEF NewRecord, Payload, ErrorCode, Positive
<1> QED
  BY <1>1, <1>2, <1>3

\* The error codes the handlers write.
LEMMA CodeTypes == {0, FlashErrorCode, VerifyFailedCode, TimeoutCode} \subseteq ErrorCode
  BY DeviceAssumption DEF ErrorCode, FlashErrorCode, VerifyFailedCode, TimeoutCode

\* A record with another state and error code.
LEMMA UpdateTypes ==
  ASSUME NEW r \in Payload, NEW state \in BootState, NEW error \in ErrorCode
  PROVE  /\ WithState(r, state, error) \in Payload
         /\ WithState(r, state, error).state = state
         /\ WithState(r, state, error).error = error
         /\ WithState(r, state, error).session = r.session
         /\ WithState(r, state, error).manifest = r.manifest
         /\ WithState(r, state, error).received = r.received
  BY DEF Payload, WithState

\* An answer of the bootloader leaves the device well formed.
LEMMA AnswerTypes ==
  ASSUME WellFormed(dev)
  PROVE  /\ dev.rec # NoRecord <=> dev.rec \in Payload
         /\ Serving => \A st \in Status : WellFormed(Answer(st))
         /\ Serving => \A p \in Payload, st \in Status : WellFormed(Recorded(p, st))
         /\ AppServing => \A st \in Status : WellFormed(AppAnswer(st))
<1>1. dev.rec # NoRecord <=> dev.rec \in Payload
  BY RecordTypes DEF WellFormed, Dev
<1>2. ASSUME Serving, NEW st \in Status  PROVE  WellFormed(Answer(st))
  BY <1>2 DEF WellFormed, Serving, Dev, Status, Answer, BootPlace
<1>3. ASSUME AppServing, NEW st \in Status  PROVE  WellFormed(AppAnswer(st))
  BY <1>3 DEF WellFormed, AppServing, Dev, Status, AppAnswer
<1>4. ASSUME Serving, NEW p \in Payload, NEW st \in Status
      PROVE  WellFormed(Recorded(p, st))
  <2>1. Answer(st) \in Dev /\ Answer(st).at = "service" /\ Answer(st).pc = "reply"
          /\ Answer(st).deferred # "erase"
    BY <1>4 DEF WellFormed, Serving, Dev, Status, Answer, BootPlace
  <2> QED
    BY <2>1, <1>4 DEF WellFormed, Dev, Recorded
<1> QED
  BY <1>1, <1>2, <1>3, <1>4

\* So do a reset and a jump.
LEMMA OffTypes == WellFormed(Off) /\ WellFormed(Jump)
  BY RecordTypes DEF WellFormed, Off, Jump

\* The size a manifest announces fits the application flash.
LEMMA SizeTypes ==
  ASSUME NEW m \in Manifest \cup {NoManifest}
  PROVE  /\ SizeOf(m) \in 0 .. Units
         /\ SizeOf(m) > 0 <=> m \in Manifest
         /\ m \in Manifest => SizeOf(m) = Size[m.image] /\ m.image \in Image
<1>1. CASE m = NoManifest
  BY <1>1, DeviceAssumption DEF SizeOf, NoManifest, Positive
<1>2. CASE m \in Manifest
  BY <1>2, DeviceAssumption DEF SizeOf, NoManifest, Positive
<1> QED
  BY <1>1, <1>2

\* Erases and writes, whole or cut short, leave the flash well formed.
LEMMA FlashTypes ==
  ASSUME flash \in [Unit -> Image \cup {Erased, Partial}]
  PROVE  /\ \A size : EraseCut(size) \subseteq [Unit -> Image \cup {Erased, Partial}]
         /\ \A size : AfterErase(size) \in [Unit -> Image \cup {Erased, Partial}]
         /\ \A off, len : \A i \in Image :
              /\ AfterWrite(off, len, i) \in [Unit -> Image \cup {Erased, Partial}]
              /\ WriteCut(off, len, i) \subseteq [Unit -> Image \cup {Erased, Partial}]
  BY DEF EraseCut, AfterErase, AfterWrite, WriteCut

\* A chunk accepted as new starts at the expected offset and ends inside the image.
LEMMA NewChunk ==
  ASSUME TypeInv, NEW s \in Session, NEW off \in Unit, NEW len \in 1 .. MaxChunk,
         NEW i \in Image, DataStatus(s, off, len, i) = "NEW"
  PROVE  /\ dev.rec \in Payload /\ dev.rec.state = "RECEIVING"
         /\ off = dev.rec.received
         /\ off + len \in 1 .. SizeOf(dev.rec.manifest)
         /\ RangeIsErased(off, len) \/ Matches(off, len, i)
<1>1. dev.rec \in Payload
  BY AnswerTypes DEF DataStatus, OwnSession, TypeInv
<1>2. dev.rec.received \in Nat /\ SizeOf(dev.rec.manifest) \in Nat
  BY <1>1, SizeTypes, DeviceAssumption DEF Payload, Positive
<1> QED
  BY <1>1, <1>2, DeviceAssumption DEF DataStatus, Unit, Positive

FlashType == [Unit -> Image \cup {Erased, Partial}]

\* A step that appends p keeps the types if what it may leave the device in is
\* well formed; so does one that leaves the journal alone.
LEMMA OutcomeTypes ==
  ASSUME NEW p \in Payload, NEW done, NEW failed, Outcome(p, done, failed),
         WellFormed(done), WellFormed(failed), flash' \in FlashType, starts' \in Nat
  PROVE  TypeInv'
<1>1. WellFormed(dev)'
  <2>1. dev' \in {done, failed, Off}
    BY DEF Outcome
  <2> QED
    BY <2>1, OffTypes DEF WellFormed
<1> QED
  BY <1>1 DEF Outcome, TypeInv, TypeOK, WellFormed, FlashType

\* An append keeps the types.
LEMMA AppendTypes ==
  ASSUME TypeInv, NEW p \in Payload, NEW done, NEW failed, Append(p, done, failed),
         WellFormed(done), WellFormed(failed), flash' \in FlashType, starts' \in Nat
  PROVE  TypeInv'
<1>1. Outcome(p, done, failed)
  BY AppendOutcome DEF TypeInv, TypeOK
<1> QED
  BY <1>1, OutcomeTypes

\* So does a step without one.
LEMMA NoAppendTypes ==
  ASSUME TypeInv, UNCHANGED <<journal, starts>>, flash' \in FlashType,
         faults' \in 0 .. MaxFaults, WellFormed(dev')
  PROVE  TypeInv'
  BY DEF TypeInv, TypeOK, WellFormed, FlashType

\* A fault is counted within its bound.
LEMMA FaultTypes == ASSUME TypeOK, Fault PROVE faults' \in 0 .. MaxFaults
  BY DeviceAssumption DEF TypeOK, Fault

\* START keeps the types.
LEMMA StartTypes ==
  ASSUME TypeInv, NEW s \in Session, NEW m \in Manifest, Start(s, m)
  PROVE  TypeInv'
<1> DEFINE p == NewRecord("UPDATE_REQUESTED", s, m)
<1>1. p \in Payload
  BY RecordTypes DEF BootState
<1>2. WellFormed(Recorded(p, "OK")) /\ \A st \in Status : WellFormed(Answer(st))
  BY <1>1, AnswerTypes DEF Start, TypeInv, Status
<1>3. flash' \in FlashType /\ starts' \in Nat
  BY DEF Start, TypeInv, TypeOK, FlashType
<1>4. CASE StartStatus(s, m) = "ACCEPT"
  <2>1. Outcome(p, Recorded(p, "OK"), Answer("FLASH_ERROR"))
    BY <1>1, <1>4, ReserveOutcome DEF Start, TypeInv, TypeOK
  <2> QED
    BY <1>1, <1>2, <1>3, <2>1, OutcomeTypes DEF Status
<1>5. CASE StartStatus(s, m) # "ACCEPT"
  <2>1. dev' = Answer(StartStatus(s, m)) /\ UNCHANGED <<journal, faults>>
          /\ StartStatus(s, m) \in Status
    BY <1>5 DEF Start, StartStatus, Status
  <2> QED
    BY <1>2, <1>3, <2>1, NoAppendTypes DEF Start, TypeInv, TypeOK
<1> QED
  BY <1>4, <1>5

\* ERASE keeps the types.
LEMMA EraseTypes ==
  ASSUME TypeInv, NEW s \in Session, Erase(s)
  PROVE  TypeInv'
<1> DEFINE p == WithState(dev.rec, "ERASING", 0)
           later(d) == [d EXCEPT !.deferred = "erase"]
<1>1. flash' \in FlashType /\ starts' \in Nat /\ Serving
  BY DEF Erase, TypeInv, TypeOK, FlashType
<1>2. \A st \in Status : WellFormed(Answer(st))
  BY <1>1, AnswerTypes DEF TypeInv
<1>3. CASE EraseStatus(s) # "ACCEPT"
  <2>1. dev' = Answer(EraseStatus(s)) /\ UNCHANGED <<journal, faults>>
          /\ EraseStatus(s) \in Status
    BY <1>3 DEF Erase, EraseStatus, Status
  <2> QED
    BY <1>1, <1>2, <2>1, NoAppendTypes DEF Erase, TypeInv, TypeOK
<1>4. CASE EraseStatus(s) = "ACCEPT" /\ dev.rec.state = "UPDATE_REQUESTED"
  <2>1. dev.rec \in Payload
    BY <1>4, AnswerTypes DEF EraseStatus, OwnSession, TypeInv
  <2>2. p \in Payload /\ p.state = "ERASING"
    <3>1. "ERASING" \in BootState /\ 0 \in ErrorCode
      BY CodeTypes DEF BootState
    <3> QED
      BY <2>1, <3>1, UpdateTypes
  <2>3. WellFormed(Recorded(p, "BUSY")) /\ Recorded(p, "BUSY").at = "service"
          /\ Recorded(p, "BUSY").pc = "reply" /\ Recorded(p, "BUSY").rec = p
    <3>1. Answer("BUSY") \in Dev /\ Answer("BUSY").at = "service"
            /\ Answer("BUSY").pc = "reply"
      BY DEF TypeInv, WellFormed, Answer, Dev, BootPlace
    <3> QED
      BY <1>1, <2>2, <3>1, AnswerTypes DEF TypeInv, Status, Recorded, Dev
  <2>4. WellFormed(later(Recorded(p, "BUSY")))
    BY <2>2, <2>3 DEF WellFormed, Dev
  <2> QED
    BY <1>1, <1>2, <1>4, <2>2, <2>4, AppendTypes DEF Erase, Status
<1>5. CASE EraseStatus(s) = "ACCEPT" /\ dev.rec.state # "UPDATE_REQUESTED"
  <2>1. dev.rec.state = "ERASING" /\ dev' = later(Answer("BUSY"))
          /\ UNCHANGED <<journal, faults>>
    BY <1>5 DEF Erase, EraseStatus
  <2>2. Answer("BUSY").at = "service" /\ Answer("BUSY").pc = "reply"
          /\ Answer("BUSY").rec = dev.rec
    BY DEF TypeInv, WellFormed, Answer, Dev
  <2>3. WellFormed(later(Answer("BUSY")))
    BY <1>2, <2>1, <2>2 DEF WellFormed, Dev, Status
  <2> QED
    BY <1>1, <2>1, <2>3, NoAppendTypes DEF TypeInv, TypeOK, Erase
<1> QED
  BY <1>3, <1>4, <1>5

\* DATA keeps the types: progress stays within the image.
LEMMA DataTypes ==
  ASSUME TypeInv, NEW s \in Session, NEW off \in Unit, NEW len \in 1 .. MaxChunk,
         NEW i \in Image, Data(s, off, len, i)
  PROVE  TypeInv'
<1> DEFINE old == dev.rec
           new == off + len
<1>1. starts' \in Nat /\ Serving
  BY DEF Data, TypeInv, TypeOK
<1>2. \A st \in Status : WellFormed(Answer(st))
  BY <1>1, AnswerTypes DEF TypeInv
<1>3. CASE DataStatus(s, off, len, i) # "NEW"
  <2>1. dev' = Answer(DataStatus(s, off, len, i)) /\ UNCHANGED <<journal, flash, faults>>
          /\ DataStatus(s, off, len, i) \in Status
    BY <1>3 DEF Data, DataStatus, Status
  <2> QED
    BY <1>2, <2>1, NoAppendTypes DEF Data, TypeInv, TypeOK, FlashType
<1>4. CASE DataStatus(s, off, len, i) = "NEW" /\ flash' = AfterWrite(off, len, i)
             /\ AdvanceTo(off + len)
  <2>1. flash' \in FlashType
    BY <1>4, FlashTypes DEF TypeInv, TypeOK, FlashType
  <2>2. old \in Payload /\ new \in 0 .. Units
    BY <1>4, NewChunk, SizeTypes, DeviceAssumption DEF Payload, Positive
  <2>3. [old EXCEPT !.received = new] \in Payload
    BY <2>2 DEF Payload
  <2>4. CASE CrossesCheckpoint(old.received, new, SizeOf(old.manifest))
    <3> DEFINE p == WithState([old EXCEPT !.received = new], "RECEIVING", 0)
    <3>1. "RECEIVING" \in BootState /\ 0 \in ErrorCode /\ {"OK", "FLASH_ERROR"} \subseteq Status
      BY CodeTypes DEF BootState, Status
    <3>2. p \in Payload
      BY <2>3, <3>1, UpdateTypes
    <3>3. Append(p, Recorded(p, "OK"), Answer("FLASH_ERROR"))
      BY <1>4, <2>4 DEF AdvanceTo
    <3>4. WellFormed(Recorded(p, "OK")) /\ WellFormed(Answer("FLASH_ERROR"))
      BY <1>1, <3>1, <3>2, AnswerTypes DEF TypeInv
    <3> QED
      BY <1>1, <2>1, <3>2, <3>3, <3>4, AppendTypes
  <2>5. CASE ~ CrossesCheckpoint(old.received, new, SizeOf(old.manifest))
    <3>1. dev' = [Answer("OK") EXCEPT !.rec.received = new]
            /\ UNCHANGED <<journal, faults>>
      BY <1>4, <2>5 DEF AdvanceTo
    <3>2. WellFormed(Answer("OK")) /\ Answer("OK").rec = old /\ Answer("OK").pc = "reply"
            /\ Answer("OK").deferred # "erase" /\ Answer("OK").at = "service"
      BY <1>1, <1>2 DEF Answer, TypeInv, WellFormed, Dev, Serving, Status
    <3>3. dev' = [Answer("OK") EXCEPT !.rec = [old EXCEPT !.received = new]]
      BY <3>1, <3>2
    <3>4. WellFormed(dev')
      BY <2>3, <3>2, <3>3 DEF WellFormed, Dev
    <3> QED
      BY <1>1, <2>1, <3>1, <3>4, NoAppendTypes DEF Data, TypeInv, TypeOK
  <2> QED
    BY <2>4, <2>5
<1>5. CASE /\ Fault /\ flash' \in WriteCut(off, len, i)
           /\ dev' \in {Answer("FLASH_ERROR"), Off} /\ UNCHANGED journal
  <2>1. flash' \in FlashType
    BY <1>5, FlashTypes DEF TypeInv, TypeOK, FlashType
  <2>2. WellFormed(dev')
    BY <1>2, <1>5, OffTypes DEF Status
  <2> QED
    BY <1>5, <2>1, <2>2, NoAppendTypes, FaultTypes DEF TypeInv, Data
<1> QED
  BY <1>3, <1>4, <1>5 DEF Data

\* The states and codes the handlers write.
LEMMA Written ==
  /\ {"UPDATE_REQUESTED", "ERASING", "RECEIVING", "VERIFYING", "PENDING_BOOT",
      "CONFIRMED", "FAILED"} \subseteq BootState
  /\ {0, FlashErrorCode, VerifyFailedCode, TimeoutCode} \subseteq ErrorCode
  /\ {"OK", "BUSY", "BAD_SESSION", "FLASH_ERROR", "VERIFY_FAILED", "BAD_FRAME"}
       \subseteq Status
  BY CodeTypes DEF BootState, Status

\* VERIFY, up to its CRC, keeps the types.
LEMMA VerifyTypes ==
  ASSUME TypeInv, NEW s \in Session, Verify(s)
  PROVE  TypeInv'
<1> DEFINE p == WithState(dev.rec, "VERIFYING", 0)
           checking == [dev EXCEPT !.at = "service", !.pc = "verify"]
<1>1. flash' \in FlashType /\ starts' \in Nat /\ Serving
  BY DEF Verify, TypeInv, TypeOK, FlashType
<1>2. \A st \in Status : WellFormed(Answer(st))
  BY <1>1, AnswerTypes DEF TypeInv
<1>3. CASE VerifyStatus(s) # "ACCEPT"
  <2>1. dev' = Answer(VerifyStatus(s)) /\ UNCHANGED <<journal, faults>>
          /\ VerifyStatus(s) \in Status
    BY <1>3 DEF Verify, VerifyStatus, Status
  <2> QED
    BY <1>1, <1>2, <2>1, NoAppendTypes DEF Verify, TypeInv, TypeOK
<1>4. CASE VerifyStatus(s) = "ACCEPT" /\ dev.rec.state = "RECEIVING"
  <2>1. dev.rec \in Payload
    BY <1>4, AnswerTypes DEF VerifyStatus, OwnSession, TypeInv
  <2>2. p \in Payload /\ p.state = "VERIFYING"
    <3>1. "VERIFYING" \in BootState /\ 0 \in ErrorCode
      BY Written
    <3> QED
      BY <2>1, <3>1, UpdateTypes
  <2>3. checking \in Dev /\ checking.at = "service" /\ checking.pc = "verify"
          /\ checking.deferred # "erase"
    BY <1>1 DEF TypeInv, WellFormed, Dev, BootPlace, Serving
  <2>4. WellFormed([checking EXCEPT !.rec = p])
    BY <2>2, <2>3 DEF WellFormed, Dev
  <2> QED
    BY <1>1, <1>2, <1>4, <2>2, <2>4, AppendTypes DEF Verify, Status
<1>5. CASE VerifyStatus(s) = "ACCEPT" /\ dev.rec.state # "RECEIVING"
  <2>1. dev.rec.state = "VERIFYING" /\ dev' = checking /\ UNCHANGED <<journal, faults>>
    BY <1>5 DEF Verify, VerifyStatus
  <2>2. WellFormed(checking)
    BY <1>1, <2>1 DEF TypeInv, WellFormed, Dev, BootPlace, Serving
  <2> QED
    BY <1>1, <2>1, <2>2, NoAppendTypes DEF TypeInv, TypeOK, Verify
<1> QED
  BY <1>3, <1>4, <1>5

\* The CRC, and the record of its result, keep the types.
LEMMA CheckCrcTypes ==
  ASSUME TypeInv, CheckCrc
  PROVE  TypeInv'
<1> DEFINE good == WithState(dev.rec, "PENDING_BOOT", 0)
           bad == WithState(dev.rec, "FAILED", VerifyFailedCode)
<1>1. flash' \in FlashType /\ starts' \in Nat /\ dev.at = "service" /\ dev.rec \in Payload
        /\ dev.deferred # "erase"
  BY RecordTypes DEF CheckCrc, TypeInv, TypeOK, FlashType, WellFormed, Dev
<1>2. good \in Payload /\ bad \in Payload
  BY <1>1, Written, UpdateTypes
<1>3. ASSUME NEW st \in Status
      PROVE  WellFormed(Answer(st)) /\ Answer(st).at = "service" /\ Answer(st).pc = "reply"
               /\ Answer(st).deferred # "erase"
  BY <1>1 DEF TypeInv, WellFormed, Dev, Answer, Status, BootPlace
<1>4. ASSUME NEW st \in Status, NEW p \in Payload  PROVE  WellFormed(Recorded(p, st))
  BY <1>3 DEF WellFormed, Dev, Recorded
<1>5. \/ Append(good, Recorded(good, "OK"), Answer("FLASH_ERROR"))
      \/ Append(bad, Recorded(bad, "VERIFY_FAILED"), Answer("VERIFY_FAILED"))
  BY DEF CheckCrc
<1>6. {"OK", "FLASH_ERROR", "VERIFY_FAILED"} \subseteq Status
  BY Written
<1> QED
  BY <1>1, <1>2, <1>3, <1>4, <1>5, <1>6, AppendTypes

\* ABORT keeps the types.
LEMMA AbortTypes ==
  ASSUME TypeInv, NEW s \in Session, Abort(s)
  PROVE  TypeInv'
<1> DEFINE p == WithState(dev.rec, "FAILED", 0)
<1>1. flash' \in FlashType /\ starts' \in Nat /\ Serving
  BY DEF Abort, TypeInv, TypeOK, FlashType
<1>2. \A st \in {"OK", "FLASH_ERROR", "BAD_SESSION"} : st \in Status /\ WellFormed(Answer(st))
  BY <1>1, Written, AnswerTypes DEF TypeInv
<1>3. CASE OwnSession(s)
  <2>1. p \in Payload
    BY <1>3, AnswerTypes, Written, UpdateTypes DEF OwnSession, TypeInv
  <2>2. WellFormed(Recorded(p, "OK"))
    BY <1>1, <1>2, <2>1, AnswerTypes DEF TypeInv
  <2> QED
    BY <1>1, <1>2, <1>3, <2>1, <2>2, AppendTypes DEF Abort
<1>4. CASE ~ OwnSession(s)
  BY <1>1, <1>2, <1>4, NoAppendTypes DEF Abort, TypeInv, TypeOK
<1> QED
  BY <1>3, <1>4

\* A step that writes neither flash nor journal keeps the types.
LEMMA QuietTypes ==
  ASSUME TypeInv, Quiet, WellFormed(dev')
  PROVE  TypeInv'
  BY NoAppendTypes DEF Quiet, TypeInv, TypeOK, FlashType

\* Requests that change nothing keep the types.
LEMMA ReadOnlyTypes ==
  ASSUME TypeInv, ReadOnlyRequest \/ AppReadOnlyRequest
  PROVE  TypeInv'
<1>1. CASE ReadOnlyRequest
  BY <1>1, Written, AnswerTypes, QuietTypes DEF ReadOnlyRequest, TypeInv
<1>2. CASE AppReadOnlyRequest
  BY <1>2, Written, AnswerTypes, QuietTypes DEF AppReadOnlyRequest, TypeInv
<1> QED
  BY <1>1, <1>2

\* ACTIVATE keeps the types.
LEMMA ActivateTypes ==
  ASSUME TypeInv, NEW s \in Session, Activate(s)
  PROVE  TypeInv'
<1>1. \A st \in {"OK", "BUSY", "BAD_SESSION"} : st \in Status /\ WellFormed(Answer(st))
  BY Written, AnswerTypes DEF Activate, TypeInv
<1>2. WellFormed([Answer("OK") EXCEPT !.deferred = "reset"])
  <2>1. Answer("OK").pc = "reply" /\ Answer("OK").at = "service"
    BY DEF Answer, TypeInv, WellFormed, Dev
  <2> QED
    BY <1>1, <2>1 DEF WellFormed, Dev
<1> QED
  BY <1>1, <1>2, QuietTypes DEF Activate

\* The answer, and what it defers, keep the types.
LEMMA SendReplyTypes ==
  ASSUME TypeInv, NEW sent \in BOOLEAN, SendReply(sent)
  PROVE  TypeInv'
<1>1. CASE sent /\ dev.deferred = "reset"
  BY <1>1, OffTypes, QuietTypes DEF SendReply
<1>2. CASE sent /\ dev.deferred = "erase"
  <2>1. dev' = [dev EXCEPT !.pc = "erase", !.deferred = "none", !.status = "NONE"]
    BY <1>2 DEF SendReply
  <2>2. WellFormed(dev')
    BY <1>2, <2>1 DEF WellFormed, TypeInv, Dev
  <2> QED
    BY <2>2, QuietTypes DEF SendReply
<1>3. CASE ~ (sent /\ dev.deferred \in {"reset", "erase"})
  <2>1. PICK next \in {"none", "reset"} :
          dev' = [dev EXCEPT !.pc = "idle", !.status = "NONE", !.deferred = next]
    <3>1. dev.deferred \in {"none", "erase", "reset"} /\ (InApp => dev.deferred # "erase")
      BY DEF WellFormed, TypeInv, Dev, InApp, AppPlace
    <3> QED
      BY <1>3, <3>1 DEF SendReply
  <2>2. WellFormed(dev')
    BY <2>1 DEF WellFormed, TypeInv, Dev
  <2> QED
    BY <2>2, QuietTypes DEF SendReply
<1> QED
  BY <1>1, <1>2, <1>3

\* The deferred erase keeps the types.
LEMMA EraseAppTypes ==
  ASSUME TypeInv, EraseApp
  PROVE  TypeInv'
<1> DEFINE size == SizeOf(dev.rec.manifest)
           idle == [dev EXCEPT !.pc = "idle"]
           zero == [dev.rec EXCEPT !.received = 0]
           ready == WithState(zero, "RECEIVING", 0)
           bad == WithState(dev.rec, "FAILED", FlashErrorCode)
<1>1. starts' \in Nat /\ dev.at = "service" /\ dev.rec \in Payload /\ dev.deferred # "erase"
  BY RecordTypes DEF EraseApp, TypeInv, TypeOK, WellFormed, Dev
<1>2. zero \in Payload
  BY <1>1, DeviceAssumption DEF Payload, Positive
<1>3. ready \in Payload /\ bad \in Payload
  BY <1>1, <1>2, Written, UpdateTypes
<1>4. WellFormed(idle)
  BY <1>1 DEF TypeInv, WellFormed, Dev
<1>5. ASSUME NEW p \in Payload  PROVE  WellFormed([idle EXCEPT !.rec = p])
  <2>1. idle.pc = "idle" /\ idle.deferred # "erase" /\ idle.at = "service"
    BY <1>1 DEF TypeInv, WellFormed, Dev
  <2> QED
    BY <1>4, <1>5, <2>1 DEF WellFormed, Dev
<1>6. flash' \in FlashType
  BY FlashTypes DEF EraseApp, FlashType, TypeInv, TypeOK
<1>7. CASE Append(ready, [idle EXCEPT !.rec = ready], [idle EXCEPT !.rec = zero])
  BY <1>1, <1>2, <1>3, <1>5, <1>6, <1>7, AppendTypes
<1>8. CASE Append(bad, [idle EXCEPT !.rec = bad], idle)
  BY <1>1, <1>3, <1>4, <1>5, <1>6, <1>8, AppendTypes
<1>9. CASE Fault /\ dev' = Off /\ UNCHANGED journal
  BY <1>6, <1>9, OffTypes, FaultTypes, NoAppendTypes DEF EraseApp, TypeInv
<1> QED
  BY <1>7, <1>8, <1>9 DEF EraseApp

\* The decision at reset keeps the types: the count of starts stays within its limit.
LEMMA BootTypes ==
  ASSUME TypeInv, Boot
  PROVE  TypeInv'
<1>1. flash' \in FlashType
  BY DEF Boot, TypeInv, TypeOK, FlashType
<1>2. PICK ready \in BOOLEAN, valid \in VectorValid :
        LET rec == journal.latest
            allowed == valid /\ (rec = NoRecord \/ AllowsAppBoot(rec.state))
            loop == [Off EXCEPT !.rec = rec, !.at = IF ready THEN "service" ELSE "dead"]
        IN IF allowed /\ rec.state = "PENDING_BOOT" THEN CountedStart(loop)
           ELSE /\ dev' = IF ~ allowed THEN loop
                          ELSE IF ready THEN [loop EXCEPT !.at = "window"] ELSE Jump
                /\ UNCHANGED <<journal, faults, starts>>
  BY DEF Boot
<1> DEFINE rec == journal.latest
           place == IF ready THEN "service" ELSE "dead"
           loop == [Off EXCEPT !.rec = rec, !.at = place]
           failed == WithState(rec, "FAILED", TimeoutCode)
           counted == WithState(rec, "PENDING_BOOT", rec.error + 1)
<1>3. rec \in Payload \cup {NoRecord}
  BY DEF TypeInv, TypeOK, JournalOf
<1>4. ASSUME NEW r \in Payload \cup {NoRecord}, NEW at \in {"service", "dead", "window"}
      PROVE  WellFormed([Off EXCEPT !.rec = r, !.at = at])
  BY OffTypes, ZenonT(40) DEF WellFormed, Dev, Off, BootPlace
<1>5. loop = [Off EXCEPT !.rec = rec, !.at = place] /\ WellFormed(loop)
  BY <1>3, <1>4
<1>6. CASE CountedStart(loop) /\ rec.state = "PENDING_BOOT"
  <2>1. loop.rec = rec /\ rec \in Payload
    BY <1>3, <1>6, RecordTypes DEF Off
  <2>2. CASE rec.error >= MaxAttempts
    <3>1. failed \in Payload
      BY <2>1, Written, UpdateTypes
    <3>2. WellFormed([loop EXCEPT !.rec = failed])
      <4>1. [loop EXCEPT !.rec = failed] = [Off EXCEPT !.rec = failed, !.at = place]
        BY DEF Off
      <4> QED
        BY <1>4, <3>1, <4>1
    <3> QED
      BY <1>1, <1>5, <1>6, <2>1, <2>2, <3>1, <3>2, AppendTypes DEF CountedStart, TypeInv, TypeOK
  <2>3. CASE ~ (rec.error >= MaxAttempts)
    <3>1. rec.error + 1 \in ErrorCode
      BY <2>1, <2>3, DeviceAssumption DEF Payload, ErrorCode
    <3>2. counted \in Payload
      BY <2>1, <3>1, Written, UpdateTypes
    <3>3. Append(counted, Jump, loop) /\ starts' \in Nat
      BY <1>6, <2>1, <2>3 DEF CountedStart, TypeInv, TypeOK
    <3> QED
      BY <1>1, <1>5, <3>2, <3>3, OffTypes, AppendTypes
  <2> QED
    BY <2>2, <2>3
<1>7. CASE /\ UNCHANGED <<journal, faults, starts>>
           /\ \/ dev' \in {loop, Jump}
              \/ ready /\ dev' = [loop EXCEPT !.at = "window"]
  <2>1. [loop EXCEPT !.at = "window"] = [Off EXCEPT !.rec = rec, !.at = "window"]
    BY DEF Off
  <2>2. WellFormed([loop EXCEPT !.at = "window"])
    BY <1>3, <1>4, <2>1
  <2> QED
    BY <1>1, <1>5, <1>7, <2>2, OffTypes, NoAppendTypes DEF TypeInv, TypeOK
<1> QED
  BY <1>2, <1>6, <1>7

\* The application keeps the types.
LEMMA ApplicationTypes ==
  ASSUME TypeInv, Application
  PROVE  TypeInv'
<1>1. CASE AppInit
  <2>1. PICK at \in {"blocked", "running", "waiting"} : dev' = [dev EXCEPT !.at = at]
    BY <1>1 DEF AppInit
  <2>2. WellFormed(dev')
    BY <1>1, <2>1 DEF AppInit, WellFormed, TypeInv, Dev, AppPlace
  <2> QED
    BY <1>1, <2>2, QuietTypes DEF AppInit
<1>2. CASE Confirm
  <2> DEFINE p == WithState(journal.latest, "CONFIRMED", 0)
  <2>1. ASSUME NEW at \in AppPlace  PROVE  WellFormed([dev EXCEPT !.at = at])
    BY <1>2 DEF Confirm, WellFormed, TypeInv, Dev, AppPlace
  <2>2. flash' \in FlashType /\ starts' \in Nat
    BY <1>2 DEF Confirm, TypeInv, TypeOK, FlashType
  <2>3. CASE Compatible(journal.latest)
    <3>1. journal.latest \in Payload
      BY <2>3, RecordTypes DEF Compatible, TypeInv, TypeOK, JournalOf
    <3>2. p \in Payload
      BY <3>1, Written, UpdateTypes
    <3> QED
      BY <1>2, <2>1, <2>2, <2>3, <3>2, AppendTypes DEF Confirm, AppPlace
  <2>4. CASE ~ Compatible(journal.latest)
    BY <1>2, <2>1, <2>2, <2>4, NoAppendTypes DEF Confirm, AppPlace, TypeInv, TypeOK
  <2> QED
    BY <2>3, <2>4
<1>3. CASE AppReadOnlyRequest
  BY <1>3, ReadOnlyTypes
<1>4. ASSUME NEW s \in Session \cup {0}, AppEnterBoot(s)
      PROVE  TypeInv'
  <2> DEFINE p == NewRecord("UPDATE_REQUESTED", s, NoManifest)
             reset == [AppAnswer("OK") EXCEPT !.deferred = "reset"]
  <2>1. p \in Payload
    BY Written, RecordTypes
  <2>2. WellFormed(AppAnswer("OK")) /\ WellFormed(AppAnswer("FLASH_ERROR"))
    BY <1>4, Written, AnswerTypes DEF AppEnterBoot, TypeInv
  <2>3. WellFormed(reset)
    <3>1. AppAnswer("OK").pc = "reply"
      BY DEF AppAnswer, TypeInv, WellFormed, Dev
    <3> QED
      BY <2>2, <3>1 DEF WellFormed, Dev
  <2>4. Outcome(p, reset, AppAnswer("FLASH_ERROR"))
    BY <1>4, <2>1, ReserveOutcome DEF AppEnterBoot, TypeInv, TypeOK
  <2> QED
    BY <1>4, <2>1, <2>2, <2>3, <2>4, OutcomeTypes
    DEF AppEnterBoot, TypeInv, TypeOK, FlashType
<1> QED
  BY <1>1, <1>2, <1>3, <1>4 DEF Application

\* Every step keeps the types.
LEMMA TypeStep ==
  ASSUME TypeInv, [Next]_vars
  PROVE  TypeInv'
<1>1. CASE Request
  BY <1>1, ReadOnlyTypes, StartTypes, EraseTypes, VerifyTypes, ActivateTypes, AbortTypes,
     DataTypes DEF Request
<1>2. CASE Bootloader
  BY <1>2, BootTypes, CheckCrcTypes, EraseAppTypes, OffTypes, QuietTypes
  DEF Bootloader, WindowExpires
<1>3. CASE Application
  BY <1>3, ApplicationTypes
<1>4. ASSUME NEW sent \in BOOLEAN, SendReply(sent)  PROVE  TypeInv'
  BY <1>4, SendReplyTypes
<1>5. CASE WatchdogReset \/ PowerLoss
  BY <1>5, OffTypes, QuietTypes DEF WatchdogReset, PowerLoss
<1>6. CASE UNCHANGED vars
  BY <1>6, QuietTypes DEF vars, Quiet, TypeInv
<1> QED
  BY <1>1, <1>2, <1>3, <1>4, <1>5, <1>6 DEF Next

\* The types hold of a board as it leaves the factory.
LEMMA TypeInit == Init => TypeInv
<1> SUFFICES ASSUME Init PROVE TypeInv
  OBVIOUS
<1>1. journal \in JournalOf(Payload)
  BY CapacityAssumption DEF Init, EmptyJournal, JournalOf
<1>2. flash \in [Unit -> Image \cup {Erased, Partial}]
  BY DeviceAssumption DEF Init
<1> QED
  BY <1>1, <1>2, OffTypes, DeviceAssumption DEF Init, TypeInv, TypeOK, WellFormed

\* Every variable always has its type, whatever the flash, the UART and the
\* requests do: no handler writes a record of another shape, progress past the
\* end of the image, or a count of starts past its limit.
THEOREM TypeCorrect == Spec => []TypeOK
<1>1. TypeInv /\ [Next]_vars => TypeInv'
  BY TypeStep
<1>2. TypeInv => TypeOK
  BY DEF TypeInv
<1> QED
  BY TypeInit, <1>1, <1>2, PTL DEF Spec

\* No step changes a unit below what the device has acknowledged, for any chunk
\* sizes and any number of torn writes (boot_upgrade_handle_data writes at the
\* expected offset only, and the deferred erase runs in ERASING only).
THEOREM AcknowledgedDataIsKept == Spec => AcknowledgedDataStays
<1> DEFINE Kept == dev.rec.state = "RECEIVING" =>
                     \A u \in 0 .. (dev.rec.received - 1) : flash'[u] = flash[u]
<1>1. TypeInv /\ [Next]_vars => Kept
  <2> SUFFICES ASSUME TypeInv, [Next]_vars, dev.rec.state = "RECEIVING",
                      NEW u \in 0 .. (dev.rec.received - 1)
               PROVE  flash'[u] = flash[u]
    OBVIOUS
  <2>1. dev.rec \in Payload /\ dev.rec.received \in 0 .. Units /\ u \in Unit
    BY RecordTypes, DeviceAssumption DEF TypeInv, TypeOK, Dev, Payload, Unit, Positive
  <2>2. ASSUME NEW s \in Session, NEW off \in Unit, NEW len \in 1 .. MaxChunk,
               NEW i \in Image, Data(s, off, len, i)
        PROVE  flash'[u] = flash[u]
    <3>1. CASE DataStatus(s, off, len, i) = "NEW"
      <4>1. u < off /\ u \notin Chunk(off, len)
        BY <2>1, <3>1, NewChunk DEF Chunk, Unit
      <4>2. CASE flash' = AfterWrite(off, len, i)
        BY <2>1, <4>1, <4>2 DEF AfterWrite
      <4>3. CASE flash' \in WriteCut(off, len, i)
        <5>1. CASE flash' = AfterWrite(off, len, i)
          BY <4>2, <5>1
        <5>2. ASSUME NEW n \in Chunk(off, len), NEW half \in BOOLEAN,
                     flash' = [v \in Unit |-> IF off <= v /\ v < n THEN i
                                ELSE IF v = n /\ half THEN Partial ELSE flash[v]]
              PROVE  flash'[u] = flash[u]
          BY <2>1, <4>1, <5>2 DEF Chunk, Unit
        <5> QED
          BY <4>3, <5>1, <5>2 DEF WriteCut
      <4> QED
        BY <2>2, <3>1, <4>2, <4>3 DEF Data
    <3>2. CASE DataStatus(s, off, len, i) # "NEW"
      BY <2>2, <3>2 DEF Data
    <3> QED
      BY <3>1, <3>2
  <2>3. ~ EraseApp
    BY DEF EraseApp, TypeInv, WellFormed
  <2> QED
    BY <2>2, <2>3
    DEF Next, Request, ReadOnlyRequest, Start, Erase, Verify, Activate, Abort,
        Bootloader, Boot, WindowExpires, CheckCrc, Application, AppInit, Confirm,
        AppReadOnlyRequest, AppEnterBoot, SendReply, WatchdogReset, PowerLoss,
        Quiet, vars
<1>2. TypeInv /\ [Next]_vars => TypeInv'
  BY TypeStep
<1>3. Kept => [Kept]_vars
  OBVIOUS
<1> QED
  BY TypeInit, <1>1, <1>2, <1>3, PTL DEF Spec, AcknowledgedDataStays
-----------------------------------------------------------------------------
(***************************************************************************)
(* Why the board never runs, starts or confirms an image that is not the   *)
(* whole image announced for it.  A handler that failed leaves the RAM of  *)
(* the bootloader behind the journal (the record it thinks it could not    *)
(* write may be there) or, after a compaction cut short, with a record the *)
(* journal has lost.  The invariant says how far apart the two can be.     *)
(***************************************************************************)
WholeImage == \E i \in Image : Holds(i)

\* A record that says data was accepted carries a manifest.
Announced(r) ==
  r.state \in {"RECEIVING", "VERIFYING", "PENDING_BOOT", "CONFIRMED"}
    => r.manifest \in Manifest

\* Nobody writes these two states.
Used(state) == state \notin {"EMPTY", "APP_VALID"}

\* What the journal may say when the bootloader's record is in `state'.
Ahead(state) ==
  {state} \cup
  CASE state = "NONE"             -> {"UPDATE_REQUESTED"}
    [] state = "UPDATE_REQUESTED" -> {"ERASING", "FAILED"}
    [] state = "ERASING"          -> {"RECEIVING", "FAILED"}
    [] state = "RECEIVING"        -> {"VERIFYING", "FAILED"}
    [] state = "VERIFYING"        -> {"PENDING_BOOT", "FAILED", "NONE"}
    [] state = "PENDING_BOOT"     -> {"FAILED", "NONE"}
    [] state = "CONFIRMED"        -> {"UPDATE_REQUESTED", "FAILED", "NONE"}
    [] state = "FAILED"           -> {"UPDATE_REQUESTED"}
    [] OTHER                      -> {}

\* The journal and the application flash.
JournalSafe ==
  /\ Used(journal.latest.state)
  /\ Announced(journal.latest)
  /\ PendingIsVerified
  /\ ConfirmedIsCompatible
  /\ StartsAreCounted
  /\ journal.latest = NoRecord => flash[0] = Erased \/ WholeImage

\* A device d beside a journal whose latest record is in `state'.
Fits(d, state) ==
  /\ Used(d.rec.state)
  /\ Announced(d.rec)
  /\ d.at \in BootPlace => state \in Ahead(d.rec.state)
  /\ d.at \in AppPlace \cup {"window"} => WholeImage

SafetyInv == JournalSafe /\ Fits(dev, journal.latest.state)

-----------------------------------------------------------------------------
\* The records the handlers write announce an image where they must.
LEMMA RecordSafe ==
  /\ NoRecord.state = "NONE" /\ NoRecord \notin Payload
  /\ Used("NONE") /\ Announced(NoRecord)
  /\ \A state \in {"UPDATE_REQUESTED", "ERASING", "FAILED"} :
       Used(state) /\ \A r : r.state = state => Announced(r)
  /\ \A state : SafeToCompact(state) /\ Used(state)
                  => state \in {"PENDING_BOOT", "CONFIRMED"}
  /\ \A state : Fits(Off, state)
  BY RecordTypes
  DEF NoRecord, Used, Announced, SafeToCompact, Fits, Off, BootPlace, AppPlace

\* A step that leaves the journal and the flash alone.
LEMMA StaySafe ==
  ASSUME SafetyInv, UNCHANGED <<journal, flash, starts>>,
         Fits(dev', journal.latest.state)
  PROVE  SafetyInv'
  BY DEF SafetyInv, JournalSafe, Fits, PendingIsVerified, ConfirmedIsCompatible,
         StartsAreCounted, Holds, WholeImage

\* A journal that lost its record by compaction had a verified image.
LEMMA LostSafe ==
  ASSUME TypeInv, SafetyInv, SafeToCompact(journal.latest.state)
  PROVE  WholeImage
<1>1. journal.latest.state \in {"PENDING_BOOT", "CONFIRMED"}
  BY RecordSafe DEF SafetyInv, JournalSafe
<1>2. journal.latest.manifest \in Manifest /\ Holds(journal.latest.manifest.image)
  BY <1>1 DEF SafetyInv, JournalSafe, Announced, PendingIsVerified
<1> QED
  BY <1>2, SizeTypes DEF WholeImage

\* An append that leaves the flash alone.
LEMMA AppendSafe ==
  ASSUME TypeInv, SafetyInv, flash' = flash,
         NEW p \in Payload, NEW done, NEW failed, Outcome(p, done, failed),
         Used(p.state), Announced(p),
         p.state \in {"PENDING_BOOT", "CONFIRMED"} => Holds(p.manifest.image),
         p.state = "CONFIRMED" => Version[p.manifest.image] = p.manifest.version,
         StartsAreCounted',
         Fits(done, p.state), Fits(failed, p.state),
         Fits(failed, journal.latest.state),
         SafeToCompact(journal.latest.state) => Fits(failed, "NONE")
  PROVE  SafetyInv'
<1>1. /\ Used(journal'.latest.state) /\ Announced(journal'.latest)
      /\ journal'.latest.state \in {"PENDING_BOOT", "CONFIRMED"}
           => Holds(journal'.latest.manifest.image)
      /\ journal'.latest.state = "CONFIRMED"
           => Version[journal'.latest.manifest.image] = journal'.latest.manifest.version
      /\ journal'.latest = NoRecord => flash[0] = Erased \/ WholeImage
  <2>1. CASE journal'.latest = journal.latest
    BY <2>1 DEF SafetyInv, JournalSafe, PendingIsVerified, ConfirmedIsCompatible
  <2>2. CASE journal'.latest = p
    BY <2>2, RecordSafe
  <2>3. CASE journal'.latest = NoRecord /\ SafeToCompact(journal.latest.state)
    BY <2>3, RecordSafe, LostSafe
  <2> QED
    BY <2>1, <2>2, <2>3 DEF Outcome
<1>2. Fits(dev', journal'.latest.state)
  BY RecordSafe DEF Outcome
<1> QED
  BY <1>1, <1>2
  DEF SafetyInv, JournalSafe, Fits, PendingIsVerified, ConfirmedIsCompatible,
      Holds, WholeImage

-----------------------------------------------------------------------------
\* The answers of the bootloader.

ServiceFits(d, r) == d.at = "service" /\ d.rec = r

\* A bootloader that serves with a record the journal may be ahead of is safe.
LEMMA ServiceSafe ==
  ASSUME NEW d, NEW r, ServiceFits(d, r), Used(r.state), Announced(r),
         NEW state \in Ahead(r.state)
  PROVE  Fits(d, state)
  BY DEF ServiceFits, Fits, AppPlace

\* What an answer relies on: the record in RAM is one the journal is at or ahead of.
LEMMA AnswerSafe ==
  ASSUME TypeInv, SafetyInv, dev.at \in BootPlace
  PROVE  /\ Used(dev.rec.state) /\ Announced(dev.rec)
         /\ journal.latest.state \in Ahead(dev.rec.state)
         /\ \A st : ServiceFits(Answer(st), dev.rec)
         /\ \A st : \A state \in Ahead(dev.rec.state) : Fits(Answer(st), state)
         /\ \A p, st : ServiceFits(Recorded(p, st), p)
<1>1. Used(dev.rec.state) /\ Announced(dev.rec)
        /\ journal.latest.state \in Ahead(dev.rec.state)
  BY DEF SafetyInv, Fits
<1>2. ASSUME NEW st  PROVE  ServiceFits(Answer(st), dev.rec)
  BY DEF TypeInv, TypeOK, Dev, Answer, ServiceFits
<1>3. ASSUME NEW p, NEW st  PROVE  ServiceFits(Recorded(p, st), p)
  <2>1. DOMAIN Answer(st) = DOMAIN dev /\ Answer(st).at = "service"
    BY DEF TypeInv, TypeOK, Dev, Answer
  <2>2. DOMAIN dev = {"at", "rec", "pc", "deferred", "status"}
    BY DEF TypeInv, TypeOK, Dev
  <2> QED
    BY <2>1, <2>2 DEF Recorded, ServiceFits
<1> QED
  BY <1>1, <1>2, <1>3, ServiceSafe

\* An answer without an append.
LEMMA QuietAnswerSafe ==
  ASSUME TypeInv, SafetyInv, dev.at \in BootPlace, NEW st, dev' = Answer(st),
         UNCHANGED <<journal, flash, starts>>
  PROVE  SafetyInv'
  BY AnswerSafe, StaySafe

\* If the journal may be compacted the bootloader may lose its record.
LEMMA SafeAhead ==
  ASSUME TypeInv, SafetyInv, dev.at \in BootPlace, SafeToCompact(journal.latest.state)
  PROVE  "NONE" \in Ahead(dev.rec.state)
<1>1. journal.latest.state \in {"PENDING_BOOT", "CONFIRMED"}
        /\ journal.latest.state \in Ahead(dev.rec.state)
  BY RecordSafe, AnswerSafe DEF SafetyInv, JournalSafe
<1>2. dev.rec.state \in {"VERIFYING", "PENDING_BOOT", "CONFIRMED"}
  <2>1. dev.rec.state \in BootState \cup {"NONE"}
    BY RecordTypes DEF TypeInv, TypeOK, Dev, Payload
  <2> QED
    BY <1>1, <2>1 DEF Ahead, BootState
<1> QED
  BY <1>2 DEF Ahead

\* An append by a handler of the bootloader that leaves the flash alone and
\* writes neither of the two states in which an image may start.
LEMMA HandlerSafe ==
  ASSUME TypeInv, SafetyInv, dev.at \in BootPlace, UNCHANGED <<flash, starts>>,
         NEW p \in Payload, NEW done, NEW failed, Outcome(p, done, failed),
         Used(p.state), Announced(p), p.state \notin {"PENDING_BOOT", "CONFIRMED"},
         p.state \in Ahead(dev.rec.state),
         ServiceFits(done, p), ServiceFits(failed, dev.rec)
  PROVE  SafetyInv'
<1>1. StartsAreCounted'
  <2>1. CASE journal'.latest = journal.latest
    BY <2>1 DEF SafetyInv, JournalSafe, StartsAreCounted
  <2>2. CASE journal'.latest \in {p, NoRecord}
    BY <2>2, RecordSafe DEF StartsAreCounted
  <2> QED
    BY <2>1, <2>2 DEF Outcome
<1>2. Fits(done, p.state)
  <2>1. p.state \in Ahead(p.state)
    BY DEF Ahead
  <2> QED
    BY <2>1, ServiceSafe
<1>3. \A state \in Ahead(dev.rec.state) : Fits(failed, state)
  BY AnswerSafe, ServiceSafe
<1> QED
  BY <1>1, <1>2, <1>3, AnswerSafe, SafeAhead, AppendSafe

\* START keeps the invariant (boot_upgrade_handle_start).
LEMMA StartSafe ==
  ASSUME TypeInv, SafetyInv, NEW s \in Session, NEW m \in Manifest, Start(s, m)
  PROVE  SafetyInv'
<1> DEFINE p == NewRecord("UPDATE_REQUESTED", s, m)
<1>1. p \in Payload /\ p.state = "UPDATE_REQUESTED"
  BY RecordTypes, Written DEF NewRecord
<1>2. dev.at \in BootPlace /\ UNCHANGED <<flash, starts>>
  BY DEF Start, Serving, BootPlace
<1>3. CASE StartStatus(s, m) = "ACCEPT"
  <2>1. Outcome(p, Recorded(p, "OK"), Answer("FLASH_ERROR"))
    BY <1>1, <1>3, ReserveOutcome DEF Start, TypeInv, TypeOK
  <2>2. "UPDATE_REQUESTED" \in Ahead(dev.rec.state)
    <3>1. dev.rec.state \in {"NONE", "UPDATE_REQUESTED", "CONFIRMED", "FAILED"}
      <4>1. dev.rec.state \in BootState \cup {"NONE"} /\ Used(dev.rec.state)
        BY <1>2, RecordTypes, AnswerSafe DEF TypeInv, TypeOK, Dev, Payload
      <4> QED
        BY <1>3, <4>1 DEF StartStatus, ActiveStates, BootState, Used
    <3> QED
      BY <3>1 DEF Ahead
  <2> QED
    BY <1>1, <1>2, <2>1, <2>2, RecordSafe, AnswerSafe, HandlerSafe
<1>4. CASE StartStatus(s, m) # "ACCEPT"
  BY <1>2, <1>4, QuietAnswerSafe DEF Start
<1> QED
  BY <1>3, <1>4

\* ABORT keeps the invariant (boot_upgrade_handle_abort).
LEMMA AbortSafe ==
  ASSUME TypeInv, SafetyInv, NEW s \in Session, Abort(s)
  PROVE  SafetyInv'
<1> DEFINE p == WithState(dev.rec, "FAILED", 0)
<1>1. dev.at \in BootPlace /\ UNCHANGED <<flash, starts>>
  BY DEF Abort, Serving, BootPlace
<1>2. CASE OwnSession(s)
  <2>1. dev.rec \in Payload
    BY <1>2, AnswerTypes DEF OwnSession, TypeInv
  <2>2. p \in Payload /\ p.state = "FAILED"
    <3>1. "FAILED" \in BootState /\ 0 \in ErrorCode
      BY Written
    <3> QED
      BY <2>1, <3>1, UpdateTypes
  <2>3. Outcome(p, Recorded(p, "OK"), Answer("FLASH_ERROR"))
    BY <1>2, <2>2, AppendOutcome DEF Abort, TypeInv, TypeOK
  <2>4. "FAILED" \in Ahead(dev.rec.state)
    <3>1. dev.rec.state \in BootState /\ Used(dev.rec.state)
      BY <1>1, <2>1, AnswerSafe DEF Payload
    <3> QED
      BY <3>1 DEF Ahead, BootState, Used
  <2> QED
    BY <1>1, <2>2, <2>3, <2>4, RecordSafe, AnswerSafe, HandlerSafe
<1>3. CASE ~ OwnSession(s)
  BY <1>1, <1>3, QuietAnswerSafe DEF Abort
<1> QED
  BY <1>2, <1>3

\* ERASE keeps the invariant (boot_upgrade_handle_erase).
LEMMA EraseSafe ==
  ASSUME TypeInv, SafetyInv, NEW s \in Session, Erase(s)
  PROVE  SafetyInv'
<1> DEFINE p == WithState(dev.rec, "ERASING", 0)
           later(d) == [d EXCEPT !.deferred = "erase"]
<1>1. dev.at \in BootPlace /\ UNCHANGED <<flash, starts>> /\ Serving
  BY DEF Erase, Serving, BootPlace
<1>2. ASSUME NEW d \in Dev  PROVE  later(d).at = d.at /\ later(d).rec = d.rec
  BY DEF Dev
<1>3. Answer("BUSY") \in Dev /\ ServiceFits(Answer("BUSY"), dev.rec)
  BY <1>1, Written, AnswerTypes, AnswerSafe DEF TypeInv, WellFormed
<1>4. CASE EraseStatus(s) # "ACCEPT"
  BY <1>1, <1>4, QuietAnswerSafe DEF Erase
<1>5. CASE EraseStatus(s) = "ACCEPT" /\ dev.rec.state = "UPDATE_REQUESTED"
  <2>1. dev.rec \in Payload
    BY <1>5, AnswerTypes DEF EraseStatus, OwnSession, TypeInv
  <2>2. p \in Payload /\ p.state = "ERASING"
    <3>1. "ERASING" \in BootState /\ 0 \in ErrorCode
      BY Written
    <3> QED
      BY <2>1, <3>1, UpdateTypes
  <2>3. Recorded(p, "BUSY") \in Dev /\ ServiceFits(Recorded(p, "BUSY"), p)
    BY <1>1, <2>2, Written, AnswerTypes, AnswerSafe DEF TypeInv, WellFormed
  <2>4. ServiceFits(later(Recorded(p, "BUSY")), p)
    BY <1>2, <2>3 DEF ServiceFits
  <2>5. Outcome(p, later(Recorded(p, "BUSY")), Answer("FLASH_ERROR"))
    BY <1>5, <2>2, AppendOutcome DEF Erase, TypeInv, TypeOK
  <2>6. "ERASING" \in Ahead(dev.rec.state)
    BY <1>5 DEF Ahead
  <2> QED
    BY <1>1, <2>2, <2>4, <2>5, <2>6, RecordSafe, AnswerSafe, HandlerSafe
<1>6. CASE EraseStatus(s) = "ACCEPT" /\ dev.rec.state # "UPDATE_REQUESTED"
  <2>1. dev' = later(Answer("BUSY")) /\ UNCHANGED <<journal, faults>>
    BY <1>6 DEF Erase
  <2>2. ServiceFits(dev', dev.rec)
    BY <1>2, <1>3, <2>1 DEF ServiceFits
  <2> QED
    BY <1>1, <2>1, <2>2, AnswerSafe, ServiceSafe, StaySafe
<1> QED
  BY <1>4, <1>5, <1>6

\* A step that changes the flash, or may, while data are being received.
LEMMA BusySafe ==
  ASSUME SafetyInv, UNCHANGED starts,
         journal.latest.state \in {"ERASING", "RECEIVING", "VERIFYING", "FAILED"},
         NEW p \in Payload, p.state \in {"RECEIVING", "FAILED"}, Announced(p),
         journal'.latest \in {journal.latest, p},
         NEW r, Used(r.state), Announced(r), journal'.latest.state \in Ahead(r.state),
         dev' = Off \/ ServiceFits(dev', r)
  PROVE  SafetyInv'
<1>1. /\ Announced(journal'.latest)
      /\ journal'.latest.state \in {"ERASING", "RECEIVING", "VERIFYING", "FAILED"}
  BY DEF SafetyInv, JournalSafe
<1>2. JournalSafe'
  <2>1. journal'.latest # NoRecord
    BY <1>1, RecordSafe
  <2> QED
    BY <1>1, <2>1
    DEF JournalSafe, Used, Announced, PendingIsVerified, ConfirmedIsCompatible,
        StartsAreCounted
<1>3. Fits(dev, journal.latest.state)'
  <2>1. CASE dev' = Off
    BY <2>1, RecordSafe DEF Fits, Off, BootPlace, AppPlace, Used, Announced
  <2>2. CASE ServiceFits(dev', r)
    BY <2>2 DEF ServiceFits, Fits, AppPlace, Used, Announced
  <2> QED
    BY <2>1, <2>2
<1> QED
  BY <1>2, <1>3 DEF SafetyInv, Fits

\* DATA keeps the invariant (boot_upgrade_handle_data).
LEMMA DataSafe ==
  ASSUME TypeInv, SafetyInv, NEW s \in Session, NEW off \in Unit,
         NEW len \in 1 .. MaxChunk, NEW i \in Image, Data(s, off, len, i)
  PROVE  SafetyInv'
<1>1. dev.at \in BootPlace /\ UNCHANGED starts /\ Serving
  BY DEF Data, Serving, BootPlace
<1>2. CASE DataStatus(s, off, len, i) # "NEW"
  BY <1>1, <1>2, QuietAnswerSafe DEF Data
<1>3. CASE DataStatus(s, off, len, i) = "NEW"
  <2> DEFINE new == [dev.rec EXCEPT !.received = off + len]
             p == WithState(new, "RECEIVING", 0)
  <2>1. /\ dev.rec \in Payload /\ dev.rec.state = "RECEIVING"
        /\ off + len \in 0 .. Units
    BY <1>3, NewChunk, SizeTypes, DeviceAssumption DEF Payload, Positive
  <2>2. /\ new \in Payload /\ new.state = "RECEIVING" /\ new.manifest = dev.rec.manifest
    BY <2>1 DEF Payload
  <2>3. p \in Payload /\ p.state = "RECEIVING" /\ p.manifest = dev.rec.manifest
    <3>1. "RECEIVING" \in BootState /\ 0 \in ErrorCode
      BY Written
    <3> QED
      BY <2>2, <3>1, UpdateTypes, ZenonT(40)
  <2>4. Announced(dev.rec) /\ Announced(p) /\ Announced(new)
    BY <1>1, <2>1, <2>2, <2>3, AnswerSafe DEF Announced
  <2>5. /\ journal.latest.state \in {"RECEIVING", "VERIFYING", "FAILED"}
        /\ Ahead("RECEIVING") = {"RECEIVING", "VERIFYING", "FAILED"}
        /\ Used("RECEIVING")
    BY <1>1, <2>1, AnswerSafe DEF Ahead, Used
  <2>6. ~ SafeToCompact(journal.latest.state)
    BY <2>5 DEF SafeToCompact
  <2>7. CASE Append(p, Recorded(p, "OK"), Answer("FLASH_ERROR"))
    <3>1. Outcome(p, Recorded(p, "OK"), Answer("FLASH_ERROR"))
      BY <2>3, <2>7, AppendOutcome DEF TypeInv, TypeOK
    <3>2. /\ journal'.latest \in {journal.latest, p}
          /\ dev' = Off \/ ServiceFits(dev', p) \/ ServiceFits(dev', dev.rec)
      BY <1>1, <2>6, <3>1, AnswerSafe DEF Outcome
    <3> QED
      BY <1>1, <2>1, <2>3, <2>4, <2>5, <3>2, BusySafe
  <2>8. CASE dev' = [Answer("OK") EXCEPT !.rec.received = off + len] /\ UNCHANGED journal
    <3>1. Answer("OK") \in Dev /\ ServiceFits(Answer("OK"), dev.rec)
      BY <1>1, Written, AnswerTypes, AnswerSafe DEF TypeInv, WellFormed
    <3>2. dev' = [Answer("OK") EXCEPT !.rec = new]
      BY <2>8, <3>1 DEF ServiceFits
    <3>3. ServiceFits(dev', new)
      BY <3>1, <3>2 DEF ServiceFits, Dev
    <3> QED
      BY <1>1, <2>2, <2>3, <2>4, <2>5, <2>8, <3>3, BusySafe
  <2>9. CASE dev' \in {Answer("FLASH_ERROR"), Off} /\ UNCHANGED journal
    BY <1>1, <2>1, <2>3, <2>4, <2>5, <2>9, AnswerSafe, BusySafe
  <2> QED
    BY <1>3, <2>7, <2>8, <2>9 DEF Data, AdvanceTo
<1> QED
  BY <1>2, <1>3

\* Steps that only move the device, keeping its record.
LEMMA MoveSafe ==
  ASSUME SafetyInv, Quiet,
         \/ dev' = Off
         \/ /\ dev'.rec = dev.rec
            /\ \/ dev'.at = dev.at
               \/ dev'.at = "service" /\ dev.at \in BootPlace
               \/ dev'.at \in AppPlace /\ dev.at \in AppPlace
  PROVE  SafetyInv'
<1>1. Fits(dev', journal.latest.state)
  BY RecordSafe DEF SafetyInv, Fits, BootPlace, AppPlace
<1> QED
  BY <1>1, StaySafe DEF Quiet

\* The steps that write neither flash nor journal keep the invariant.
LEMMA QuietSafe ==
  ASSUME TypeInv, SafetyInv,
         \/ ReadOnlyRequest \/ AppReadOnlyRequest \/ AppInit
         \/ WatchdogReset \/ PowerLoss
         \/ \E s \in Session : Activate(s)
         \/ \E sent \in BOOLEAN : SendReply(sent)
  PROVE  SafetyInv'
<1> USE DEF TypeInv, TypeOK, Dev
<1>1. CASE ReadOnlyRequest
  BY <1>1, MoveSafe DEF ReadOnlyRequest, Serving, BootPlace, Answer
<1>2. CASE AppReadOnlyRequest
  BY <1>2, MoveSafe DEF AppReadOnlyRequest, AppAnswer
<1>3. CASE AppInit
  <2>1. PICK at \in {"blocked", "running", "waiting"} : dev' = [dev EXCEPT !.at = at]
    BY <1>3 DEF AppInit
  <2> QED
    BY <1>3, <2>1, MoveSafe DEF AppInit, AppPlace
<1>4. CASE WatchdogReset \/ PowerLoss
  BY <1>4, MoveSafe DEF WatchdogReset, PowerLoss
<1>5. ASSUME NEW s \in Session, Activate(s)  PROVE  SafetyInv'
  <2>1. dev.at \in BootPlace /\ Quiet
    BY <1>5 DEF Activate, Serving, BootPlace
  <2>2. CASE \E st : dev' = Answer(st)
    BY <2>1, <2>2, QuietAnswerSafe DEF Quiet
  <2>3. CASE dev' = [Answer("OK") EXCEPT !.deferred = "reset"]
    <3>1. Answer("OK") \in Dev /\ ServiceFits(Answer("OK"), dev.rec)
      BY <1>5, <2>1, Written, AnswerTypes, AnswerSafe DEF Activate, WellFormed
    <3>2. ServiceFits(dev', dev.rec)
      BY <2>3, <3>1 DEF ServiceFits
    <3> QED
      BY <2>1, <3>2, MoveSafe DEF ServiceFits
  <2> QED
    BY <1>5, <2>2, <2>3 DEF Activate
<1>6. ASSUME NEW sent \in BOOLEAN, SendReply(sent)  PROVE  SafetyInv'
  <2>1. dev' = Off \/ (dev'.rec = dev.rec /\ dev'.at = dev.at)
    BY <1>6 DEF SendReply
  <2> QED
    BY <1>6, <2>1, MoveSafe DEF SendReply
<1> QED
  BY <1>1, <1>2, <1>3, <1>4, <1>5, <1>6

\* VERIFY, up to its CRC, keeps the invariant (boot_upgrade_handle_verify).
LEMMA VerifySafe ==
  ASSUME TypeInv, SafetyInv, NEW s \in Session, Verify(s)
  PROVE  SafetyInv'
<1> DEFINE p == WithState(dev.rec, "VERIFYING", 0)
           checking == [dev EXCEPT !.at = "service", !.pc = "verify"]
<1>1. dev.at \in BootPlace /\ UNCHANGED <<flash, starts>>
  BY DEF Verify, Serving, BootPlace
<1>2. checking \in Dev /\ ServiceFits(checking, dev.rec)
  BY DEF TypeInv, TypeOK, Dev, BootPlace, ServiceFits
<1>3. CASE VerifyStatus(s) # "ACCEPT"
  BY <1>1, <1>3, QuietAnswerSafe DEF Verify
<1>4. CASE VerifyStatus(s) = "ACCEPT" /\ dev.rec.state = "RECEIVING"
  <2>1. dev.rec \in Payload
    BY <1>4, AnswerTypes DEF VerifyStatus, OwnSession, TypeInv
  <2>2. p \in Payload /\ p.state = "VERIFYING" /\ p.manifest = dev.rec.manifest
    <3>1. "VERIFYING" \in BootState /\ 0 \in ErrorCode
      BY Written
    <3> QED
      BY <2>1, <3>1, UpdateTypes
  <2>3. ServiceFits([checking EXCEPT !.rec = p], p)
    BY <1>2 DEF ServiceFits, Dev
  <2>4. Outcome(p, [checking EXCEPT !.rec = p], Answer("FLASH_ERROR"))
    BY <1>4, <2>2, AppendOutcome DEF Verify, TypeInv, TypeOK
  <2>5. Used(p.state) /\ Announced(p) /\ p.state \in Ahead(dev.rec.state)
    BY <1>1, <1>4, <2>2, AnswerSafe DEF Used, Announced, Ahead
  <2> QED
    BY <1>1, <2>2, <2>3, <2>4, <2>5, AnswerSafe, HandlerSafe
<1>5. CASE VerifyStatus(s) = "ACCEPT" /\ dev.rec.state # "RECEIVING"
  <2>1. Quiet /\ dev' = checking
    BY <1>5 DEF Verify, Quiet
  <2> QED
    BY <1>1, <1>2, <2>1, MoveSafe DEF ServiceFits
<1> QED
  BY <1>3, <1>4, <1>5

\* The CRC, and the record of its result, keep the invariant.
LEMMA CheckCrcSafe ==
  ASSUME TypeInv, SafetyInv, CheckCrc
  PROVE  SafetyInv'
<1> DEFINE good == WithState(dev.rec, "PENDING_BOOT", 0)
           bad == WithState(dev.rec, "FAILED", VerifyFailedCode)
<1>1. dev.at \in BootPlace /\ flash' = flash /\ dev.rec \in Payload
        /\ dev.rec.state = "VERIFYING"
  BY RecordTypes DEF CheckCrc, TypeInv, WellFormed, Dev, BootPlace
<1>2. /\ good \in Payload /\ good.state = "PENDING_BOOT" /\ good.error = 0
      /\ good.manifest = dev.rec.manifest
      /\ bad \in Payload /\ bad.state = "FAILED"
  <2>1. {"PENDING_BOOT", "FAILED"} \subseteq BootState
          /\ 0 \in ErrorCode /\ VerifyFailedCode \in ErrorCode
    BY Written
  <2>2. good \in Payload /\ good.state = "PENDING_BOOT" /\ good.error = 0
          /\ good.manifest = dev.rec.manifest
    BY <1>1, <2>1, UpdateTypes
  <2>3. bad \in Payload /\ bad.state = "FAILED"
    BY <1>1, <2>1, UpdateTypes
  <2> QED
    BY <2>2, <2>3
<1>3. \A st : \A state \in {"VERIFYING", "PENDING_BOOT", "FAILED", "NONE"} :
        Fits(Answer(st), state)
  BY <1>1, AnswerSafe DEF Ahead
<1>4. Used("PENDING_BOOT") /\ Announced(good) /\ dev.rec.manifest \in Manifest
  BY <1>1, <1>2, AnswerSafe DEF Used, Announced
<1>5. Fits(Recorded(good, "OK"), "PENDING_BOOT") /\ Fits(Recorded(bad, "VERIFY_FAILED"), "FAILED")
  <2>1. "PENDING_BOOT" \in Ahead("PENDING_BOOT") /\ "FAILED" \in Ahead("FAILED")
    BY DEF Ahead
  <2> QED
    BY <1>1, <1>2, <1>4, <2>1, RecordSafe, AnswerSafe, ServiceSafe
<1>6. ASSUME NEW p \in {good, bad}, journal'.latest \in {journal.latest, p, NoRecord}
      PROVE  StartsAreCounted'
  <2>1. CASE journal'.latest.state = "PENDING_BOOT"
    <3>1. starts' = 0
      BY <2>1 DEF CheckCrc
    <3>2. journal'.latest = good \/ journal'.latest = journal.latest
      BY <1>2, <1>6, <2>1, RecordSafe
    <3>3. journal'.latest.error \in 0 .. MaxAttempts
      <4>1. CASE journal'.latest = good
        BY <1>2, <4>1, DeviceAssumption
      <4>2. CASE journal'.latest = journal.latest
        <5>1. journal.latest \in Payload
          BY <2>1, <4>2, RecordSafe DEF TypeInv, TypeOK, JournalOf
        <5> QED
          BY <2>1, <4>2, <5>1, DeviceAssumption
          DEF SafetyInv, JournalSafe, StartsAreCounted, Payload, ErrorCode
      <4> QED
        BY <3>2, <4>1, <4>2
    <3> QED
      BY <3>1, <3>3 DEF StartsAreCounted
  <2>2. CASE journal'.latest.state # "PENDING_BOOT"
    BY <2>2 DEF StartsAreCounted
  <2> QED
    BY <2>1, <2>2
<1>7. journal.latest.state \in {"VERIFYING", "PENDING_BOOT", "FAILED", "NONE"}
  BY <1>1, AnswerSafe DEF Ahead
<1>8. CASE /\ Holds(dev.rec.manifest.image)
           /\ Append(good, Recorded(good, "OK"), Answer("FLASH_ERROR"))
  <2>1. Outcome(good, Recorded(good, "OK"), Answer("FLASH_ERROR"))
    BY <1>2, <1>8, AppendOutcome DEF TypeInv, TypeOK
  <2>2. StartsAreCounted'
    BY <1>6, <2>1 DEF Outcome
  <2> QED
    BY <1>1, <1>2, <1>3, <1>4, <1>5, <1>7, <1>8, <2>1, <2>2, AppendSafe
<1>9. CASE Append(bad, Recorded(bad, "VERIFY_FAILED"), Answer("VERIFY_FAILED"))
  <2>1. Outcome(bad, Recorded(bad, "VERIFY_FAILED"), Answer("VERIFY_FAILED"))
    BY <1>2, <1>9, AppendOutcome DEF TypeInv, TypeOK
  <2>2. StartsAreCounted'
    BY <1>6, <2>1 DEF Outcome
  <2> QED
    BY <1>1, <1>2, <1>3, <1>5, <1>7, <2>1, <2>2, RecordSafe, AppendSafe
<1> QED
  BY <1>8, <1>9 DEF CheckCrc

\* The deferred erase keeps the invariant (boot_upgrade_handle_deferred_action).
LEMMA EraseAppSafe ==
  ASSUME TypeInv, SafetyInv, EraseApp
  PROVE  SafetyInv'
<1> DEFINE idle == [dev EXCEPT !.pc = "idle"]
           zero == [dev.rec EXCEPT !.received = 0]
           ready == WithState(zero, "RECEIVING", 0)
           bad == WithState(dev.rec, "FAILED", FlashErrorCode)
           with(r) == [idle EXCEPT !.rec = r]
<1>1. /\ dev.at = "service" /\ dev.rec \in Payload /\ dev.rec.state = "ERASING"
      /\ UNCHANGED starts
  BY RecordTypes DEF EraseApp, TypeInv, WellFormed, Dev
<1>2. zero \in Payload /\ zero.state = "ERASING" /\ zero.manifest = dev.rec.manifest
  BY <1>1, DeviceAssumption DEF Payload, Positive
<1>3. /\ ready \in Payload /\ ready.state = "RECEIVING" /\ ready.manifest = dev.rec.manifest
      /\ bad \in Payload /\ bad.state = "FAILED"
  <2>1. {"RECEIVING", "FAILED"} \subseteq BootState
          /\ 0 \in ErrorCode /\ FlashErrorCode \in ErrorCode
    BY Written
  <2>2. ready \in Payload /\ ready.state = "RECEIVING" /\ ready.manifest = dev.rec.manifest
    <3>1. "RECEIVING" \in BootState /\ 0 \in ErrorCode
      BY <2>1
    <3> HIDE DEF zero
    <3> QED
      BY <1>2, <3>1, UpdateTypes
  <2>3. bad \in Payload /\ bad.state = "FAILED"
    BY <1>1, <2>1, UpdateTypes
  <2> QED
    BY <2>2, <2>3
<1>4. idle \in Dev /\ ServiceFits(idle, dev.rec)
  BY <1>1 DEF TypeInv, TypeOK, Dev, ServiceFits
<1>5. \A r : ServiceFits(with(r), r)
  BY <1>4 DEF ServiceFits, Dev
<1>6. /\ journal.latest.state \in {"ERASING", "RECEIVING", "FAILED"}
      /\ Ahead("ERASING") = {"ERASING", "RECEIVING", "FAILED"}
      /\ "RECEIVING" \in Ahead("RECEIVING") /\ "FAILED" \in Ahead("FAILED")
      /\ \A state \in {"ERASING", "RECEIVING", "FAILED"} : Used(state)
  BY <1>1 DEF SafetyInv, Fits, BootPlace, Ahead, Used
<1>7. ~ SafeToCompact(journal.latest.state)
  BY <1>6 DEF SafeToCompact
<1>8. Announced(dev.rec) /\ Announced(zero) /\ Announced(bad)
  BY <1>1, <1>2, <1>3 DEF Announced
<1>9. ASSUME SizeOf(dev.rec.manifest) > 0, Append(ready, with(ready), with(zero))
      PROVE  SafetyInv'
  <2>1. Announced(ready)
    BY <1>1, <1>3, <1>9, SizeTypes DEF Announced, Payload
  <2>2. Outcome(ready, with(ready), with(zero))
    BY <1>3, <1>9, AppendOutcome DEF TypeInv, TypeOK
  <2>3. /\ journal'.latest \in {journal.latest, ready}
        /\ \/ dev' = with(ready) /\ journal'.latest = ready
           \/ dev' \in {with(zero), Off}
    BY <1>7, <2>2 DEF Outcome
  <2>4. CASE dev' = with(ready) /\ journal'.latest = ready
    BY <1>1, <1>3, <1>5, <1>6, <2>1, <2>4, BusySafe
  <2>5. CASE dev' \in {with(zero), Off}
    BY <1>1, <1>2, <1>3, <1>5, <1>6, <1>8, <2>1, <2>3, <2>5, BusySafe, ZenonT(40)
  <2> QED
    BY <2>3, <2>4, <2>5
<1>10. CASE Append(bad, with(bad), idle)
  <2>1. Outcome(bad, with(bad), idle)
    BY <1>3, <1>10, AppendOutcome DEF TypeInv, TypeOK
  <2>2. /\ journal'.latest \in {journal.latest, bad}
        /\ \/ dev' = with(bad) /\ journal'.latest = bad
           \/ dev' \in {idle, Off}
    BY <1>7, <2>1 DEF Outcome
  <2>3. CASE dev' = with(bad) /\ journal'.latest = bad
    BY <1>1, <1>3, <1>5, <1>6, <1>8, <2>3, BusySafe
  <2>4. CASE dev' \in {idle, Off}
    BY <1>1, <1>3, <1>4, <1>6, <1>8, <2>2, <2>4, BusySafe
  <2> QED
    BY <2>2, <2>3, <2>4
<1>11. CASE dev' = Off /\ UNCHANGED journal
  BY <1>1, <1>3, <1>6, <1>8, <1>11, BusySafe
<1> QED
  BY <1>9, <1>10, <1>11 DEF EraseApp

\* Where the bootloader finds a valid vector and a journal that allows a start,
\* the flash holds a whole image.
LEMMA AllowedImage ==
  ASSUME TypeInv, SafetyInv, TRUE \in VectorValid,
         journal.latest = NoRecord \/ AllowsAppBoot(journal.latest.state)
  PROVE  WholeImage
<1>1. flash[0] # Erased
  BY DeviceAssumption DEF VectorValid
<1>2. CASE journal.latest = NoRecord
  BY <1>1, <1>2 DEF SafetyInv, JournalSafe
<1>3. CASE AllowsAppBoot(journal.latest.state)
  BY <1>3, LostSafe DEF AllowsAppBoot, SafeToCompact
<1> QED
  BY <1>2, <1>3

\* The decision at reset keeps the invariant (main.c).
LEMMA BootSafe ==
  ASSUME TypeInv, SafetyInv, Boot
  PROVE  SafetyInv'
<1>1. PICK ready \in BOOLEAN, valid \in VectorValid :
        LET rec == journal.latest
            allowed == valid /\ (rec = NoRecord \/ AllowsAppBoot(rec.state))
            loop == [Off EXCEPT !.rec = rec, !.at = IF ready THEN "service" ELSE "dead"]
        IN IF allowed /\ rec.state = "PENDING_BOOT" THEN CountedStart(loop)
           ELSE /\ dev' = IF ~ allowed THEN loop
                          ELSE IF ready THEN [loop EXCEPT !.at = "window"] ELSE Jump
                /\ UNCHANGED <<journal, faults, starts>>
  BY DEF Boot
<1> DEFINE rec == journal.latest
           place == IF ready THEN "service" ELSE "dead"
           loop == [Off EXCEPT !.rec = rec, !.at = place]
           allowed == valid /\ (rec = NoRecord \/ AllowsAppBoot(rec.state))
           failed == WithState(rec, "FAILED", TimeoutCode)
           counted == WithState(rec, "PENDING_BOOT", rec.error + 1)
<1>2. flash' = flash /\ rec \in Payload \cup {NoRecord}
  BY DEF Boot, TypeInv, TypeOK, JournalOf
<1>3. Used(rec.state) /\ Announced(rec) /\ rec.state \in Ahead(rec.state)
  BY DEF SafetyInv, JournalSafe, Ahead
<1>4. allowed => WholeImage
  <2>1. VectorValid \subseteq BOOLEAN
    BY DEF VectorValid
  <2> QED
    BY <2>1, AllowedImage
<1>5. ASSUME NEW r, NEW at \in {"service", "dead"}, Used(r.state), Announced(r),
             NEW state \in Ahead(r.state)
      PROVE  Fits([Off EXCEPT !.rec = r, !.at = at], state)
  BY <1>5 DEF Fits, Off, AppPlace
<1>6. loop.at \in {"service", "dead"} /\ loop.rec = rec
  BY DEF Off
<1>7. CASE allowed /\ rec.state = "PENDING_BOOT" /\ CountedStart(loop)
  <2>1. rec \in Payload /\ WholeImage /\ Holds(rec.manifest.image)
    BY <1>2, <1>4, <1>7, RecordTypes DEF SafetyInv, JournalSafe, PendingIsVerified
  <2>2. \A state \in {"PENDING_BOOT", "FAILED", "NONE"} : Fits(loop, state)
    BY <1>3, <1>5, <1>7 DEF Ahead
  <2>3. starts \in Nat /\ starts <= rec.error /\ rec.error <= MaxAttempts
          /\ rec.error \in Nat
    BY <1>7, <2>1, DeviceAssumption
    DEF SafetyInv, JournalSafe, StartsAreCounted, TypeInv, TypeOK, Payload, ErrorCode
  <2>4. CASE rec.error >= MaxAttempts
    <3>1. failed \in Payload /\ failed.state = "FAILED"
      <4>1. "FAILED" \in BootState /\ TimeoutCode \in ErrorCode
        BY Written
      <4> QED
        BY <2>1, <4>1, UpdateTypes
    <3>2. Fits([loop EXCEPT !.rec = failed], "FAILED")
      <4>1. [loop EXCEPT !.rec = failed] = [Off EXCEPT !.rec = failed, !.at = place]
        BY DEF Off
      <4>2. "FAILED" \in Ahead(failed.state) /\ Used(failed.state) /\ Announced(failed)
        BY <3>1, RecordSafe DEF Ahead
      <4> HIDE DEF failed, loop
      <4> QED
        BY <1>5, <4>1, <4>2
    <3>3. Append(failed, [loop EXCEPT !.rec = failed], loop) /\ UNCHANGED starts
      BY <1>6, <1>7, <2>4 DEF CountedStart
    <3>4. Outcome(failed, [loop EXCEPT !.rec = failed], loop)
      BY <3>1, <3>3, AppendOutcome DEF TypeInv, TypeOK
    <3>5. StartsAreCounted'
      <4>1. journal'.latest \in {rec, failed, NoRecord}
        BY <3>4 DEF Outcome
      <4> QED
        BY <2>3, <3>1, <3>3, <4>1, RecordSafe DEF StartsAreCounted
    <3> QED
      BY <1>2, <1>7, <2>2, <3>1, <3>2, <3>4, <3>5, RecordSafe, AppendSafe
  <2>5. CASE ~ (rec.error >= MaxAttempts)
    <3>1. rec.error + 1 \in ErrorCode
      BY <2>3, <2>5, DeviceAssumption DEF ErrorCode
    <3>2. /\ counted \in Payload /\ counted.state = "PENDING_BOOT"
          /\ counted.error = rec.error + 1 /\ counted.manifest = rec.manifest
      <4>1. "PENDING_BOOT" \in BootState
        BY Written
      <4> QED
        BY <2>1, <3>1, <4>1, UpdateTypes
    <3>3. /\ Append(counted, Jump, loop)
          /\ starts' = IF dev' = Jump THEN starts + 1 ELSE starts
      BY <1>6, <1>7, <2>5 DEF CountedStart
    <3>4. Outcome(counted, Jump, loop)
      BY <3>2, <3>3, AppendOutcome DEF TypeInv, TypeOK
    <3>5. Jump # loop /\ Jump # Off
      BY DEF Jump, Off
    <3>6. StartsAreCounted'
      <4>1. CASE dev' = Jump
        <5>1. journal'.latest = counted
          BY <3>4, <3>5, <4>1 DEF Outcome
        <5> QED
          BY <2>3, <2>5, <3>2, <3>3, <4>1, <5>1, DeviceAssumption DEF StartsAreCounted
      <4>2. CASE dev' # Jump
        <5>1. journal'.latest \in {rec, counted, NoRecord}
          BY <3>4 DEF Outcome
        <5> QED
          BY <2>3, <2>5, <3>2, <3>3, <4>2, <5>1, RecordSafe, DeviceAssumption
          DEF StartsAreCounted
      <4> QED
        BY <4>1, <4>2
    <3>7. Used(counted.state) /\ Announced(counted)
      BY <1>3, <1>7, <3>2 DEF Used, Announced
    <3>8. Fits(Jump, "PENDING_BOOT")
      BY <2>1, RecordSafe DEF Fits, Jump, Off, BootPlace
    <3> QED
      BY <1>2, <1>7, <2>1, <2>2, <3>2, <3>4, <3>6, <3>7, <3>8, AppendSafe
  <2> QED
    BY <2>4, <2>5
<1>8. CASE /\ UNCHANGED <<journal, faults, starts>>
           /\ \/ dev' = loop
              \/ allowed /\ dev' \in {[loop EXCEPT !.at = "window"], Jump}
  <2>1. Fits(loop, rec.state)
    BY <1>3, <1>5
  <2>2. allowed => Fits([loop EXCEPT !.at = "window"], rec.state)
    BY <1>3, <1>4 DEF Fits, Off
  <2>3. allowed => Fits(Jump, rec.state)
    BY <1>4, RecordSafe DEF Fits, Jump, Off, BootPlace
  <2> QED
    BY <1>2, <1>8, <2>1, <2>2, <2>3, StaySafe
<1> QED
  BY <1>1, <1>7, <1>8

-----------------------------------------------------------------------------
\* The application.

\* The confirmation keeps the invariant (app_upgrade_confirm_pending).
LEMMA ConfirmSafe ==
  ASSUME TypeInv, SafetyInv, Confirm
  PROVE  SafetyInv'
<1> DEFINE p == WithState(journal.latest, "CONFIRMED", 0)
           at(place) == [dev EXCEPT !.at = place]
<1>1. UNCHANGED <<flash, starts>> /\ dev.at = "waiting" /\ WholeImage
  BY DEF Confirm, SafetyInv, Fits, AppPlace
<1>2. \A place \in {"running", "blocked"} : at(place).at = place /\ at(place).rec = dev.rec
  BY DEF TypeInv, TypeOK, Dev
<1>3. \A place \in {"running", "blocked"} : \A state : Fits(at(place), state)
  BY <1>1, <1>2 DEF SafetyInv, Fits, BootPlace
<1>4. CASE Compatible(journal.latest)
  <2>1. journal.latest \in Payload /\ journal.latest.state = "PENDING_BOOT"
          /\ journal.latest.manifest \in Manifest
    BY <1>4, RecordTypes
    DEF Compatible, TypeInv, TypeOK, JournalOf, SafetyInv, JournalSafe, Announced
  <2>2. /\ p \in Payload /\ p.state = "CONFIRMED"
        /\ p.manifest = journal.latest.manifest
    <3>1. "CONFIRMED" \in BootState /\ 0 \in ErrorCode
      BY Written
    <3> QED
      BY <2>1, <3>1, UpdateTypes
  <2>3. Holds(p.manifest.image)
    BY <2>1, <2>2 DEF SafetyInv, JournalSafe, PendingIsVerified
  <2>4. Version[p.manifest.image] = p.manifest.version
    <3>1. p.manifest.image \in Image /\ Size[p.manifest.image] \in 1 .. Units
      BY <2>1, <2>2, DeviceAssumption
    <3>2. flash[0] = p.manifest.image
      BY <2>3, <3>1, DeviceAssumption DEF Holds, Positive
    <3> QED
      BY <1>4, <2>2, <3>1, <3>2 DEF Compatible, RunningVersion
  <2>5. Outcome(p, at("running"), at("blocked"))
    BY <1>4, <2>2, AppendOutcome DEF Confirm, TypeInv, TypeOK
  <2>6. StartsAreCounted'
    <3>1. journal'.latest \in {journal.latest, p, NoRecord}
      BY <2>5 DEF Outcome
    <3> QED
      BY <1>1, <2>2, <3>1, RecordSafe DEF SafetyInv, JournalSafe, StartsAreCounted
  <2>7. Used(p.state) /\ Announced(p)
    BY <2>1, <2>2 DEF Used, Announced
  <2> QED
    BY <1>1, <1>3, <2>2, <2>3, <2>4, <2>5, <2>6, <2>7, AppendSafe
<1>5. CASE ~ Compatible(journal.latest)
  BY <1>1, <1>3, <1>5, StaySafe DEF Confirm
<1> QED
  BY <1>4, <1>5

\* ENTER_BOOT in the application keeps the invariant (app_upgrade_handle_enter_boot).
LEMMA EnterBootSafe ==
  ASSUME TypeInv, SafetyInv, NEW s \in Session \cup {0}, AppEnterBoot(s)
  PROVE  SafetyInv'
<1> DEFINE p == NewRecord("UPDATE_REQUESTED", s, NoManifest)
           reset == [AppAnswer("OK") EXCEPT !.deferred = "reset"]
<1>1. p \in Payload /\ p.state = "UPDATE_REQUESTED"
  BY RecordTypes, Written DEF NewRecord
<1>2. UNCHANGED <<flash, starts>> /\ dev.at \in {"running", "waiting"} /\ WholeImage
  BY DEF AppEnterBoot, AppServing, SafetyInv, Fits, AppPlace
<1>3. \A st : AppAnswer(st).at = dev.at /\ AppAnswer(st).rec = dev.rec
  BY DEF TypeInv, TypeOK, Dev, AppAnswer
<1>4. reset.at = dev.at /\ reset.rec = dev.rec
  BY <1>3
<1>5. ASSUME NEW d, NEW state, d.at = dev.at, d.rec = dev.rec  PROVE  Fits(d, state)
  BY <1>2, <1>5 DEF SafetyInv, Fits, BootPlace
<1>6. Outcome(p, reset, AppAnswer("FLASH_ERROR"))
  BY <1>1, ReserveOutcome DEF AppEnterBoot, TypeInv, TypeOK
<1>7. StartsAreCounted'
  <2>1. journal'.latest \in {journal.latest, p, NoRecord}
    BY <1>6 DEF Outcome
  <2> QED
    BY <1>1, <1>2, <2>1, RecordSafe DEF SafetyInv, JournalSafe, StartsAreCounted
<1> QED
  BY <1>1, <1>2, <1>3, <1>4, <1>5, <1>6, <1>7, RecordSafe, AppendSafe

-----------------------------------------------------------------------------
\* The invariant holds of a board as it leaves the factory.
LEMMA SafetyInit == Init => SafetyInv
<1> SUFFICES ASSUME Init PROVE SafetyInv
  OBVIOUS
<1>1. journal.latest = NoRecord /\ dev = Off
  BY DEF Init, EmptyJournal
<1>2. flash[0] = Erased \/ WholeImage
  <2>1. 0 \in Unit
    BY DeviceAssumption DEF Unit, Positive
  <2>2. CASE flash = [u \in Unit |-> Erased]
    BY <2>1, <2>2
  <2>3. ASSUME NEW i \in Factory, flash = [u \in Unit |-> IF u < Size[i] THEN i ELSE Erased]
        PROVE  WholeImage
    BY <2>3, DeviceAssumption DEF Unit, Positive, Holds, WholeImage
  <2> QED
    BY <2>2, <2>3 DEF Init
<1> QED
  BY <1>1, <1>2, RecordSafe
  DEF SafetyInv, JournalSafe, PendingIsVerified, ConfirmedIsCompatible, StartsAreCounted

\* Every step keeps the invariant.
LEMMA SafetyStep ==
  ASSUME TypeInv, SafetyInv, [Next]_vars
  PROVE  SafetyInv'
<1>1. CASE Request
  BY <1>1, QuietSafe, StartSafe, EraseSafe, VerifySafe, AbortSafe, DataSafe DEF Request
<1>2. CASE Bootloader
  <2>1. CASE WindowExpires
    <3>1. Fits(Jump, journal.latest.state)
      BY <2>1, RecordSafe DEF WindowExpires, SafetyInv, Fits, Jump, Off, BootPlace
    <3> QED
      BY <2>1, <3>1, StaySafe DEF WindowExpires, Quiet
  <2> QED
    BY <1>2, <2>1, BootSafe, CheckCrcSafe, EraseAppSafe DEF Bootloader
<1>3. CASE Application
  BY <1>3, QuietSafe, ConfirmSafe, EnterBootSafe DEF Application
<1>4. CASE (\E sent \in BOOLEAN : SendReply(sent)) \/ WatchdogReset \/ PowerLoss
  BY <1>4, QuietSafe
<1>5. CASE UNCHANGED vars
  BY <1>5, StaySafe DEF vars, SafetyInv
<1> QED
  BY <1>1, <1>2, <1>3, <1>4, <1>5 DEF Next

\* The inductive invariant: the journal is at, or one append ahead of, the record in
\* RAM, and each state of it says what the flash beside it must hold.
THEOREM SafetyHolds == Spec => [](TypeInv /\ SafetyInv)
<1>1. Init => TypeInv /\ SafetyInv
  BY TypeInit, SafetyInit
<1>2. (TypeInv /\ SafetyInv) /\ [Next]_vars => (TypeInv /\ SafetyInv)'
  BY TypeStep, SafetyStep
<1> QED
  BY <1>1, <1>2, PTL DEF Spec

\* However erases, chunks and appends are cut short, the application never runs
\* on a flash that is not one whole image (main.c's boot decision).
THEOREM OnlyWholeImagesRun == Spec => []RunsWholeImage
<1>1. SafetyInv => RunsWholeImage
  BY DEF SafetyInv, Fits, RunsWholeImage, InApp, WholeImage
<1> QED
  BY <1>1, SafetyHolds, PTL

\* A record that lets an image start or stay is never beside another image
\* (boot_upgrade_handle_verify and all that follows it).
THEOREM PendingImagesAreVerified == Spec => []PendingIsVerified
<1>1. SafetyInv => PendingIsVerified
  BY DEF SafetyInv, JournalSafe
<1> QED
  BY <1>1, SafetyHolds, PTL

\* Only the version that was announced confirms itself
\* (app_upgrade_pending_record_is_compatible).
THEOREM ConfirmedImagesAreCompatible == Spec => []ConfirmedIsCompatible
<1>1. SafetyInv => ConfirmedIsCompatible
  BY DEF SafetyInv, JournalSafe
<1> QED
  BY <1>1, SafetyHolds, PTL

\* No sequence of resets starts an unconfirmed image more than MaxAttempts times
\* (boot_upgrade_prepare_application_boot).
THEOREM EveryStartIsCounted == Spec => []StartsAreCounted
<1>1. SafetyInv => StartsAreCounted
  BY DEF SafetyInv, JournalSafe
<1> QED
  BY <1>1, SafetyHolds, PTL
=============================================================================
