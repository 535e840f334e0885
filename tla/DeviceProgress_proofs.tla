------------------------ MODULE DeviceProgress_proofs ------------------------
(***************************************************************************)
(* Why an update can go on from what the journal says: the data recorded   *)
(* as received is in the flash, what the bootloader acknowledged is at     *)
(* most a checkpoint ahead of it, and the slots START reserved last until  *)
(* the image is verified.  The invariant relates the record in RAM, which  *)
(* a failed append leaves behind, the journal's, the flash and the number  *)
(* of free slots.  The last two parts are what a gateway may rely on that  *)
(* sends one image per session, and asks when it wants to be sure.         *)
(***************************************************************************)
EXTENDS Device_proofs

\* The data a record says was received is in flash f.
Backed(f, r) ==
  r.state \in {"RECEIVING", "VERIFYING"} =>
    \A u \in 0 .. (r.received - 1) : f[u] \in Image

\* Nothing has been received before the erase is over.
Begun(r) == r.state \in {"UPDATE_REQUESTED", "ERASING"} => r.received = 0

\* What record l of the journal says when the bootloader has r in RAM.
Behind(r, l) ==
  /\ r.state = "RECEIVING" =>
       \/ l.state = "FAILED"
       \/ /\ l.state \in {"RECEIVING", "VERIFYING"} /\ l.session = r.session
          /\ r.received \div Checkpoint <= l.received \div Checkpoint
  /\ r.state = "ERASING" /\ l.state = "RECEIVING" => l.received = 0

UpdateStates == {"UPDATE_REQUESTED", "ERASING", "RECEIVING", "VERIFYING"}

Underway(r) == r.state \in UpdateStates /\ r.manifest # NoManifest

\* An update that needs `left' slots more was let in by START.
Room(r, left) ==
  Underway(r) => /\ Reserve(SizeOf(r.manifest)) < Capacity
                 /\ left >= Needed(r) + Overhead - 5

Left == journal.free + faults

\* Only the bootloader has a record in RAM.
Bare(d) == d.at \in AppPlace \cup {"off"} => d.rec = NoRecord

Sound(r) == Backed(flash, r) /\ Begun(r) /\ Room(r, Left)

ProgressInv ==
  /\ Sound(journal.latest) /\ Sound(dev.rec)
  /\ Behind(dev.rec, journal.latest)
  /\ Bare(dev)

\* A record nothing is asked of.
Calm(r) == r.state \notin UpdateStates

-----------------------------------------------------------------------------
\* Arithmetic of the checkpoints.

\* A number lies between two multiples of C.
LEMMA DivFacts ==
  ASSUME NEW C \in Nat \ {0}, NEW a \in Nat
  PROVE  a \div C \in Nat /\ (a \div C) * C <= a /\ a < (a \div C) * C + C
  OBVIOUS

\* Two numbers of the same checkpoint are less than one apart.
LEMMA DivGap ==
  ASSUME NEW C \in Nat \ {0}, NEW a \in Nat, NEW b \in Nat, a \div C <= b \div C
  PROVE  a - b < C
<1> DEFINE p == a \div C
           q == b \div C
<1>1. p \in Nat /\ q \in Nat /\ p <= q /\ q * C <= b /\ a < p * C + C
  BY DivFacts
<1> HIDE DEF p, q
<1>2. p * C <= q * C
  BY <1>1
<1> QED
  BY <1>1, <1>2

\* A larger number is in a later checkpoint, or in the same.
LEMMA DivMono ==
  ASSUME NEW C \in Nat \ {0}, NEW a \in Nat, NEW b \in Nat, a <= b
  PROVE  a \div C <= b \div C
<1> DEFINE p == a \div C
           q == b \div C
<1>1. p \in Nat /\ q \in Nat /\ p * C <= a /\ b < q * C + C
  BY DivFacts
<1> HIDE DEF p, q
<1>2. p * C < (q + 1) * C
  BY <1>1
<1>3. p < q + 1
  BY <1>1, <1>2
<1> QED
  BY <1>1, <1>3 DEF p, q

\* Before the end of b there is always a checkpoint to come.
LEMMA DivCeil ==
  ASSUME NEW C \in Nat \ {0}, NEW a \in Nat, NEW b \in Nat, a < b
  PROVE  a \div C < (b + C - 1) \div C
<1> DEFINE p == a \div C
           q == (b + C - 1) \div C
<1>1. b + C - 1 \in Nat
  OBVIOUS
<1>2. p \in Nat /\ q \in Nat /\ p * C <= a /\ b + C - 1 < q * C + C
  BY <1>1, DivFacts
<1> HIDE DEF p, q
<1>3. p * C < q * C
  BY <1>2
<1>4. p < q
  BY <1>2, <1>3
<1> QED
  BY <1>4 DEF p, q

-----------------------------------------------------------------------------
\* What the steps leave of the journal.

Lost == SafeToCompact(journal.latest.state)

\* A compaction leaves nearly the whole sector; otherwise n slots are used.
Enough(n) == Left' >= Left - n \/ (journal.free = 0 /\ Lost /\ Left' >= Capacity - 2)

\* An append uses one slot; one that fails costs a fault for the slot it uses.
LEMMA AppendLeft ==
  ASSUME TypeOK, NEW p, NEW done, NEW failed, Append(p, done, failed)
  PROVE  /\ Left' \in Nat /\ Left \in Nat
         /\ \/ dev' = done /\ journal'.latest = p /\ Enough(1)
            \/ dev' \in {failed, Off} /\ Enough(0)
<1>1. journal \in JournalOf(Payload) /\ faults \in Nat /\ Capacity \in Nat
  BY DeviceAssumption, CapacityAssumption DEF TypeOK
<1>2. journal.free \in 0 .. Capacity
  BY <1>1 DEF JournalOf
<1>3. CASE CanAppend(journal) /\ NoFault /\ journal' = AppendDone(journal, p) /\ dev' = done
  BY <1>1, <1>2, <1>3, CapacityAssumption
  DEF NoFault, AppendDone, CanAppend, Enough, Left, Lost
<1>4. CASE NoFault /\ UNCHANGED journal /\ dev' = failed
  BY <1>1, <1>2, <1>4 DEF NoFault, Enough, Left
<1>5. CASE /\ CanAppend(journal) /\ Fault
           /\ journal' \in AppendCut(journal, p) /\ dev' \in {failed, Off}
  <2>1. faults' = faults + 1
    BY <1>5 DEF Fault
  <2>2. CASE journal.free > 0
    <3>1. journal'.free \in Nat /\ journal'.free >= journal.free - 1
      BY <1>1, <1>2, <1>5, <2>2 DEF AppendCut, Tear, AppendDone, JournalOf
    <3> QED
      BY <1>1, <1>2, <1>5, <2>1, <3>1 DEF Enough, Left
  <2>3. CASE journal.free = 0
    <3>1. journal'.free \in Nat
            /\ (journal' = journal \/ journal'.free >= Capacity - 2)
      BY <1>1, <1>2, <1>5, <2>3, CapacityAssumption
      DEF AppendCut, Tear, AppendDone, CompactCut, CompactDone, EmptyJournal
    <3> QED
      BY <1>1, <1>2, <1>5, <2>1, <2>3, <3>1, CapacityAssumption
      DEF Enough, Left, CanAppend, Lost
  <2> QED
    BY <1>2, <2>2, <2>3
<1> QED
  BY <1>3, <1>4, <1>5 DEF Append

\* A record nothing is asked of is sound beside any journal.
LEMMA CalmSound ==
  ASSUME NEW r, Calm(r)
  PROVE  /\ Begun(r) /\ \A f : Backed(f, r)
         /\ \A left : Room(r, left)
         /\ \A l : Behind(r, l)
  BY DEF Calm, UpdateStates, Begun, Backed, Room, Underway, Behind

\* Nothing is asked of a device that is off or has just jumped.
LEMMA NoRecordCalm == Calm(NoRecord) /\ Bare(Off) /\ Bare(Jump) /\ Off.rec = NoRecord
                        /\ Jump.rec = NoRecord
  BY DEF Calm, NoRecord, UpdateStates, Bare, Off, Jump

\* A step that appends p, or fails to, leaves sound records.
LEMMA OutcomeProgress ==
  ASSUME ProgressInv, NEW p, NEW done, NEW failed, Outcome(p, done, failed),
         Backed(flash', journal.latest), Backed(flash', p), Backed(flash', failed.rec),
         Begun(p), Begun(failed.rec),
         journal'.latest = p => Room(p, Left'),
         journal'.latest # p => Room(journal.latest, Left'),
         dev' # done \/ journal'.latest # p => Room(failed.rec, Left'),
         done.rec = p \/ Calm(done.rec),
         Behind(p, p), Behind(failed.rec, p), Behind(failed.rec, journal.latest),
         Lost => Behind(failed.rec, NoRecord),
         Bare(done), Bare(failed)
  PROVE  ProgressInv'
<1>1. /\ Backed(flash', journal'.latest) /\ Begun(journal'.latest)
      /\ Room(journal'.latest, Left')
  <2>1. Begun(journal.latest)
    BY DEF ProgressInv, Sound
  <2> QED
    BY <2>1, CalmSound, NoRecordCalm DEF Outcome
<1>2. CASE dev' = done /\ journal'.latest = p
  <2>1. Backed(flash', done.rec) /\ Begun(done.rec) /\ Room(done.rec, Left')
          /\ Behind(done.rec, p)
    BY <1>2, CalmSound
  <2> QED
    BY <1>1, <1>2, <2>1 DEF ProgressInv, Sound, Backed, Room, Left, Bare, Begun, Behind
<1>3. CASE dev' = failed /\ (dev' # done \/ journal'.latest # p)
  <2>1. Behind(failed.rec, journal'.latest)
    BY DEF Outcome, Lost
  <2> QED
    BY <1>1, <1>3, <2>1 DEF ProgressInv, Sound, Backed, Room, Left, Bare, Begun, Behind
<1>4. CASE dev' = Off
  BY <1>1, <1>4, CalmSound, NoRecordCalm
  DEF ProgressInv, Sound, Backed, Room, Left, Bare, Begun, Behind
<1> QED
  BY <1>2, <1>3, <1>4 DEF Outcome

\* The numbers of the checkpoints of a record.
LEMMA NeededTypes ==
  ASSUME NEW r \in Payload
  PROVE  /\ SizeOf(r.manifest) \in Nat /\ r.received \in Nat
         /\ (SizeOf(r.manifest) + Checkpoint - 1) \div Checkpoint \in Nat
         /\ r.received \div Checkpoint \in Nat
         /\ Checkpoint \in Nat \ {0} /\ Overhead \in Nat
         /\ Needed(r) \in Int
<1>1. /\ SizeOf(r.manifest) \in Nat /\ r.received \in Nat
      /\ Checkpoint \in Nat \ {0} /\ Overhead \in Nat
  BY SizeTypes, DeviceAssumption DEF Payload, Positive
<1> DEFINE ceil == (SizeOf(r.manifest) + Checkpoint - 1) \div Checkpoint
           floor == r.received \div Checkpoint
<1>2. ceil \in Nat /\ floor \in Nat
  BY <1>1, DivFacts
<1>3. Needed(r) \in Int
  <2>1. Needed(r) \in {ceil - floor + 4, ceil - floor + 3, 0 + 2, ceil - floor + 2, 1, 0}
    BY DEF Needed
  <2> HIDE DEF ceil, floor
  <2> QED
    BY <1>2, <2>1
<1> QED
  BY <1>1, <1>2, <1>3

\* More room is room enough.
LEMMA MoreRoom ==
  ASSUME NEW r \in Payload \cup {NoRecord}, NEW l \in Int, NEW m \in Int, l <= m,
         Room(r, l)
  PROVE  Room(r, m)
<1>1. CASE r \in Payload
  BY <1>1, NeededTypes DEF Room
<1>2. CASE r = NoRecord
  BY <1>2, NoRecordCalm, CalmSound
<1> QED
  BY <1>1, <1>2

\* A journal that may lose its record belongs to an update that is verified.
LEMMA LostRoom ==
  ASSUME TypeInv, SafetyInv, ProgressInv, dev.at \in BootPlace, Lost
  PROVE  /\ Behind(dev.rec, NoRecord)
         /\ \A left \in Int : left >= Capacity - 2 => Room(dev.rec, left)
<1>1. "NONE" \in Ahead(dev.rec.state)
  BY SafeAhead DEF Lost
<1>2. dev.rec.state \in {"NONE", "VERIFYING", "PENDING_BOOT", "CONFIRMED"}
  <2>1. dev.rec.state \in BootState \cup {"NONE"}
    BY RecordTypes DEF TypeInv, TypeOK, Dev, Payload
  <2> QED
    BY <1>1, <2>1 DEF Ahead, BootState
<1>3. Behind(dev.rec, NoRecord)
  BY <1>2 DEF Behind
<1>4. ASSUME NEW left \in Int, left >= Capacity - 2, Underway(dev.rec)
      PROVE  Reserve(SizeOf(dev.rec.manifest)) < Capacity
               /\ left >= Needed(dev.rec) + Overhead - 5
  <2>1. dev.rec \in Payload /\ dev.rec.state = "VERIFYING"
    BY <1>2, <1>4, RecordTypes DEF Underway, UpdateStates, TypeInv, TypeOK, Dev
  <2>2. Needed(dev.rec) = 1
    BY <2>1 DEF Needed
  <2>3. Reserve(SizeOf(dev.rec.manifest)) < Capacity
    BY <1>4 DEF ProgressInv, Sound, Room
  <2>4. Reserve(SizeOf(dev.rec.manifest)) \in Nat
          /\ Reserve(SizeOf(dev.rec.manifest)) >= Overhead
    BY <2>1, NeededTypes DEF Reserve
  <2> QED
    BY <1>4, <2>2, <2>3, <2>4, CapacityAssumption, DeviceAssumption
<1> QED
  BY <1>3, <1>4 DEF Room

\* A record is never behind itself.
LEMMA BehindSelf == ASSUME NEW r \in Payload \cup {NoRecord}, Begun(r)
                    PROVE  Behind(r, r)
<1>1. CASE r \in Payload
  BY <1>1, NeededTypes DEF Behind, Begun
<1>2. CASE r = NoRecord
  BY <1>2, NoRecordCalm, CalmSound
<1> QED
  BY <1>1, <1>2

\* An append by a handler of the bootloader.
LEMMA AppendProgress ==
  ASSUME TypeInv, SafetyInv, ProgressInv, dev.at \in BootPlace,
         NEW p \in Payload, NEW done, NEW failed, Append(p, done, failed),
         Backed(flash', journal.latest), Backed(flash', p), Backed(flash', dev.rec),
         Begun(p), Underway(p) => ~ Lost /\ Room(p, Left - 1),
         Behind(dev.rec, p), ServiceFits(done, p), ServiceFits(failed, dev.rec)
  PROVE  ProgressInv'
<1>1. Outcome(p, done, failed)
  BY AppendOutcome DEF TypeInv, TypeOK
<1>2. /\ Left' \in Nat /\ Left \in Nat
      /\ \/ dev' = done /\ journal'.latest = p /\ Enough(1)
         \/ dev' \in {failed, Off} /\ Enough(0)
  BY AppendLeft DEF TypeInv
<1>3. /\ done.rec = p /\ failed.rec = dev.rec /\ Bare(done) /\ Bare(failed)
  BY DEF ServiceFits, Bare, AppPlace
<1>4. /\ dev.rec \in Payload \cup {NoRecord} /\ journal.latest \in Payload \cup {NoRecord}
      /\ Room(dev.rec, Left) /\ Room(journal.latest, Left)
      /\ Begun(dev.rec) /\ Behind(dev.rec, journal.latest)
  BY DEF TypeInv, TypeOK, Dev, JournalOf, ProgressInv, Sound
<1>5. Room(p, Left')
  <2>1. CASE Underway(p)
    <3>1. Left' >= Left - 1
      BY <1>2, <2>1 DEF Enough
    <3> QED
      BY <1>2, <2>1, <3>1, MoreRoom
  <2>2. CASE ~ Underway(p)
    BY <2>2 DEF Room
  <2> QED
    BY <2>1, <2>2
<1>6. Enough(0) => Room(dev.rec, Left') /\ Room(journal.latest, Left')
  <2>1. CASE Left' >= Left - 0
    BY <1>2, <1>4, <2>1, MoreRoom
  <2>2. CASE Lost /\ Left' >= Capacity - 2
    <3>1. Room(journal.latest, Left')
      BY <2>2 DEF Lost, SafeToCompact, Room, Underway, UpdateStates
    <3> QED
      BY <1>2, <2>2, <3>1, LostRoom
  <2> QED
    BY <2>1, <2>2 DEF Enough
<1>7. /\ journal'.latest # p => Room(journal.latest, Left')
      /\ dev' # done \/ journal'.latest # p => Room(dev.rec, Left')
  BY <1>2, <1>6
<1>8. Behind(p, p) /\ (Lost => Behind(dev.rec, NoRecord))
  BY BehindSelf, LostRoom
<1> QED
  BY <1>1, <1>3, <1>4, <1>5, <1>7, <1>8, OutcomeProgress

\* A step that leaves the journal and the flash alone and only moves the device.
LEMMA MoveProgress ==
  ASSUME ProgressInv, Quiet,
         \/ dev' \in {Off, Jump}
         \/ /\ dev'.rec = dev.rec
            /\ dev'.at \notin AppPlace \cup {"off"} \/ dev.at \in AppPlace \cup {"off"}
  PROVE  ProgressInv'
<1>1. CASE dev' \in {Off, Jump}
  BY <1>1, CalmSound, NoRecordCalm
  DEF ProgressInv, Quiet, Sound, Backed, Room, Left, Bare, Begun, Behind
<1>2. CASE /\ dev'.rec = dev.rec
           /\ dev'.at \notin AppPlace \cup {"off"} \/ dev.at \in AppPlace \cup {"off"}
  BY <1>2 DEF ProgressInv, Quiet, Sound, Backed, Room, Left, Bare, Begun, Behind
<1> QED
  BY <1>1, <1>2

\* The steps that write neither flash nor journal keep the invariant.
LEMMA QuietProgress ==
  ASSUME TypeInv, ProgressInv,
         \/ ReadOnlyRequest \/ AppReadOnlyRequest \/ AppInit \/ WindowExpires
         \/ WatchdogReset \/ PowerLoss
         \/ \E s \in Session : Activate(s)
         \/ \E sent \in BOOLEAN : SendReply(sent)
  PROVE  ProgressInv'
<1>1. dev \in Dev /\ Quiet
  BY DEF TypeInv, TypeOK, ReadOnlyRequest, AppReadOnlyRequest, AppInit, WindowExpires,
         WatchdogReset, PowerLoss, Activate, SendReply
<1>2. /\ \A st : Answer(st).rec = dev.rec /\ Answer(st).at = "service"
      /\ \A st : AppAnswer(st).rec = dev.rec /\ AppAnswer(st).at = dev.at
  BY <1>1 DEF Dev, Answer, AppAnswer
<1>3. CASE ReadOnlyRequest
  BY <1>1, <1>2, <1>3, MoveProgress DEF ReadOnlyRequest, AppPlace
<1>4. CASE AppReadOnlyRequest
  <2>1. dev.at \in AppPlace /\ dev'.rec = dev.rec
    BY <1>2, <1>4 DEF AppReadOnlyRequest, AppServing, AppPlace
  <2> QED
    BY <1>1, <2>1, MoveProgress
<1>5. CASE AppInit
  <2>1. dev.at \in AppPlace /\ dev'.rec = dev.rec
    BY <1>1, <1>5 DEF AppInit, AppPlace, Dev
  <2> QED
    BY <1>1, <2>1, MoveProgress
<1>6. CASE WindowExpires \/ WatchdogReset \/ PowerLoss
  BY <1>1, <1>6, MoveProgress DEF WindowExpires, WatchdogReset, PowerLoss
<1>7. CASE \E s \in Session : Activate(s)
  <2>1. [Answer("OK") EXCEPT !.deferred = "reset"].rec = dev.rec
          /\ [Answer("OK") EXCEPT !.deferred = "reset"].at = "service"
    BY <1>1 DEF Dev, Answer
  <2>2. dev'.rec = dev.rec /\ dev'.at = "service"
    BY <1>2, <1>7, <2>1 DEF Activate
  <2> QED
    BY <1>1, <2>2, MoveProgress DEF AppPlace
<1>8. CASE \E sent \in BOOLEAN : SendReply(sent)
  <2>1. dev' = Off \/ (dev'.rec = dev.rec /\ dev'.at = dev.at)
    BY <1>1, <1>8 DEF SendReply, Dev
  <2> QED
    BY <1>1, <2>1, MoveProgress
<1> QED
  BY <1>3, <1>4, <1>5, <1>6, <1>7, <1>8

\* ERASE keeps the invariant: the record it writes needs a slot less.
LEMMA EraseProgress ==
  ASSUME TypeInv, SafetyInv, ProgressInv, NEW s \in Session, Erase(s)
  PROVE  ProgressInv'
<1> DEFINE p == WithState(dev.rec, "ERASING", 0)
           later(d) == [d EXCEPT !.deferred = "erase"]
<1>1. dev.at \in BootPlace /\ UNCHANGED <<flash, starts>> /\ dev \in Dev
  BY DEF Erase, Serving, BootPlace, TypeInv, TypeOK
<1>2. /\ \A st : ServiceFits(Answer(st), dev.rec)
      /\ ServiceFits(later(Answer("BUSY")), dev.rec)
      /\ \A q : ServiceFits(later(Recorded(q, "BUSY")), q)
  BY <1>1 DEF Dev, Answer, Recorded, ServiceFits
<1>3. CASE Quiet /\ \/ \E st : dev' = Answer(st)
                    \/ dev' = later(Answer("BUSY"))
  <2>1. dev'.rec = dev.rec /\ dev'.at = "service"
    <3> HIDE DEF later
    <3> QED
      BY <1>2, <1>3 DEF ServiceFits
  <2> QED
    BY <1>3, <2>1, MoveProgress DEF AppPlace
<1>4. CASE /\ EraseStatus(s) = "ACCEPT" /\ dev.rec.state = "UPDATE_REQUESTED"
           /\ Append(p, later(Recorded(p, "BUSY")), Answer("FLASH_ERROR"))
  <2>1. dev.rec \in Payload
    BY <1>1, <1>4, RecordTypes DEF Dev
  <2>2. /\ p \in Payload /\ p.state = "ERASING" /\ p.manifest = dev.rec.manifest
        /\ p.received = dev.rec.received
    <3>1. "ERASING" \in BootState /\ 0 \in ErrorCode
      BY Written
    <3> QED
      BY <2>1, <3>1, UpdateTypes
  <2>3. /\ Begun(dev.rec) /\ Room(dev.rec, Left) /\ dev.rec.received = 0 /\ Left \in Int
    BY <1>4, DeviceAssumption, CapacityAssumption
    DEF ProgressInv, Sound, Begun, Left, TypeInv, TypeOK, JournalOf
  <2>4. Begun(p) /\ Behind(dev.rec, p) /\ Backed(flash', p)
    BY <1>4, <2>2, <2>3 DEF Begun, Behind, Backed
  <2>5. ~ Lost
    <3>1. journal.latest.state \in {"UPDATE_REQUESTED", "ERASING", "FAILED"}
      BY <1>1, <1>4, AnswerSafe DEF Ahead
    <3> QED
      BY <3>1 DEF Lost, SafeToCompact
  <2>6. Room(p, Left - 1)
    <3>1. Needed(p) = Needed(dev.rec) - 1
      BY <1>4, <2>1, <2>2, NeededTypes DEF Needed
    <3>2. Underway(p) => Underway(dev.rec)
      BY <1>4, <2>2 DEF Underway, UpdateStates
    <3> QED
      BY <2>1, <2>2, <2>3, <3>1, <3>2, NeededTypes DEF Room
  <2>7. Backed(flash', journal.latest) /\ Backed(flash', dev.rec)
    BY <1>1 DEF ProgressInv, Sound
  <2> HIDE DEF p
  <2> QED
    BY <1>1, <1>2, <1>4, <2>2, <2>4, <2>5, <2>6, <2>7, AppendProgress
<1> QED
  BY <1>1, <1>3, <1>4 DEF Erase, Quiet

\* VERIFY keeps the invariant: all data is there, one slot is still needed.
LEMMA VerifyProgress ==
  ASSUME TypeInv, SafetyInv, ProgressInv, NEW s \in Session, Verify(s)
  PROVE  ProgressInv'
<1> DEFINE p == WithState(dev.rec, "VERIFYING", 0)
           checking == [dev EXCEPT !.at = "service", !.pc = "verify"]
           found(r) == [checking EXCEPT !.rec = r]
<1>1. dev.at \in BootPlace /\ UNCHANGED <<flash, starts>> /\ dev \in Dev
  BY DEF Verify, Serving, BootPlace, TypeInv, TypeOK
<1>2. /\ \A st : ServiceFits(Answer(st), dev.rec)
      /\ ServiceFits(checking, dev.rec) /\ \A r : ServiceFits(found(r), r)
  BY <1>1 DEF Dev, Answer, ServiceFits
<1>3. CASE Quiet /\ \/ \E st : dev' = Answer(st)
                    \/ dev' = checking
  <2>1. dev'.rec = dev.rec /\ dev'.at = "service"
    <3> HIDE DEF checking
    <3> QED
      BY <1>2, <1>3 DEF ServiceFits
  <2> QED
    BY <1>3, <2>1, MoveProgress DEF AppPlace
<1>4. CASE /\ VerifyStatus(s) = "ACCEPT" /\ dev.rec.state = "RECEIVING"
           /\ Append(p, found(p), Answer("FLASH_ERROR"))
  <2>1. dev.rec \in Payload /\ dev.rec.received = SizeOf(dev.rec.manifest)
    BY <1>1, <1>4, RecordTypes DEF Dev, VerifyStatus
  <2>2. /\ p \in Payload /\ p.state = "VERIFYING" /\ p.manifest = dev.rec.manifest
        /\ p.received = dev.rec.received /\ p.session = dev.rec.session
    <3>1. "VERIFYING" \in BootState /\ 0 \in ErrorCode
      BY Written
    <3> QED
      BY <2>1, <3>1, UpdateTypes
  <2>3. /\ Backed(flash', dev.rec) /\ Backed(flash', journal.latest)
        /\ Room(dev.rec, Left) /\ Left \in Int
    BY <1>1, DeviceAssumption, CapacityAssumption
    DEF ProgressInv, Sound, Left, TypeInv, TypeOK, JournalOf
  <2>4. Begun(p) /\ Behind(dev.rec, p) /\ Backed(flash', p)
    BY <1>4, <2>1, <2>2, <2>3, NeededTypes DEF Begun, Behind, Backed
  <2>5. ~ Lost
    <3>1. journal.latest.state \in {"RECEIVING", "VERIFYING", "FAILED"}
      BY <1>1, <1>4, AnswerSafe DEF Ahead
    <3> QED
      BY <3>1 DEF Lost, SafeToCompact
  <2>6. Room(p, Left - 1)
    <3>1. Needed(p) = Needed(dev.rec) - 1
      BY <1>4, <2>1, <2>2 DEF Needed
    <3>2. Underway(p) => Underway(dev.rec)
      BY <1>4, <2>2 DEF Underway, UpdateStates
    <3> QED
      BY <2>1, <2>2, <2>3, <3>1, <3>2, NeededTypes DEF Room
  <2> HIDE DEF p
  <2> QED
    BY <1>1, <1>2, <1>4, <2>2, <2>3, <2>4, <2>5, <2>6, AppendProgress
<1> QED
  BY <1>1, <1>3, <1>4 DEF Verify, Quiet

\* A record that ends the update is always sound.
LEMMA EndProgress ==
  ASSUME TypeInv, SafetyInv, ProgressInv, dev.at \in BootPlace, flash' = flash,
         NEW p \in Payload, NEW done, NEW failed, Append(p, done, failed), Calm(p),
         dev.rec.state = "RECEIVING" => p.state = "FAILED",
         ServiceFits(done, p), ServiceFits(failed, dev.rec)
  PROVE  ProgressInv'
<1>1. Begun(p) /\ Backed(flash', p) /\ ~ Underway(p)
  BY CalmSound DEF Calm, Underway
<1>2. Behind(dev.rec, p)
  BY DEF Behind, Calm, UpdateStates
<1>3. Backed(flash', journal.latest) /\ Backed(flash', dev.rec)
  BY DEF ProgressInv, Sound
<1> QED
  BY <1>1, <1>2, <1>3, AppendProgress

\* ABORT keeps the invariant.
LEMMA AbortProgress ==
  ASSUME TypeInv, SafetyInv, ProgressInv, NEW s \in Session, Abort(s)
  PROVE  ProgressInv'
<1> DEFINE p == WithState(dev.rec, "FAILED", 0)
<1>1. dev.at \in BootPlace /\ UNCHANGED <<flash, starts>> /\ dev \in Dev
  BY DEF Abort, Serving, BootPlace, TypeInv, TypeOK
<1>2. CASE OwnSession(s)
  <2>1. p \in Payload /\ p.state = "FAILED"
    <3>1. "FAILED" \in BootState /\ 0 \in ErrorCode /\ dev.rec \in Payload
      BY <1>1, <1>2, Written, RecordTypes DEF OwnSession, Dev
    <3> QED
      BY <3>1, UpdateTypes
  <2>2. Append(p, Recorded(p, "OK"), Answer("FLASH_ERROR")) /\ Calm(p)
    BY <1>2, <2>1 DEF Abort, Calm, UpdateStates
  <2> HIDE DEF p
  <2> QED
    BY <1>1, <2>1, <2>2, AnswerSafe, EndProgress
<1>3. CASE ~ OwnSession(s)
  <2>1. dev'.rec = dev.rec /\ dev'.at = "service" /\ Quiet
    BY <1>1, <1>3, AnswerSafe DEF Abort, ServiceFits, Quiet
  <2> QED
    BY <2>1, MoveProgress DEF AppPlace
<1> QED
  BY <1>2, <1>3

\* So does the result of the CRC check.
LEMMA CheckCrcProgress ==
  ASSUME TypeInv, SafetyInv, ProgressInv, CheckCrc
  PROVE  ProgressInv'
<1> DEFINE good == WithState(dev.rec, "PENDING_BOOT", 0)
           bad == WithState(dev.rec, "FAILED", VerifyFailedCode)
<1>1. /\ dev.at \in BootPlace /\ flash' = flash
      /\ dev.rec \in Payload /\ dev.rec.state = "VERIFYING"
  BY RecordTypes DEF CheckCrc, TypeInv, WellFormed, BootPlace, Dev
<1>2. /\ good \in Payload /\ good.state = "PENDING_BOOT"
      /\ bad \in Payload /\ bad.state = "FAILED"
  <2>1. {"PENDING_BOOT", "FAILED"} \subseteq BootState
          /\ 0 \in ErrorCode /\ VerifyFailedCode \in ErrorCode
    BY Written
  <2> QED
    BY <1>1, <2>1, UpdateTypes
<1>3. Calm(good) /\ Calm(bad)
  BY <1>2 DEF Calm, UpdateStates
<1>4. \/ Append(good, Recorded(good, "OK"), Answer("FLASH_ERROR"))
      \/ Append(bad, Recorded(bad, "VERIFY_FAILED"), Answer("VERIFY_FAILED"))
  BY DEF CheckCrc
<1> HIDE DEF good, bad
<1> QED
  BY <1>1, <1>2, <1>3, <1>4, AnswerSafe, EndProgress

\* A step that leaves the journal alone and the bootloader with record r.
LEMMA StayProgress ==
  ASSUME TypeInv, ProgressInv, journal' = journal, faults' \in Nat, faults' >= faults,
         Backed(flash', journal.latest),
         NEW r \in Payload, Backed(flash', r), Begun(r), Room(r, Left),
         Behind(r, journal.latest), dev' = Off \/ ServiceFits(dev', r)
  PROVE  ProgressInv'
<1>1. Left \in Int /\ Left' \in Int /\ Left <= Left'
        /\ journal.latest \in Payload \cup {NoRecord}
  BY DeviceAssumption, CapacityAssumption DEF Left, TypeInv, TypeOK, JournalOf
<1>2. Room(r, Left') /\ Room(journal.latest, Left') /\ Begun(journal.latest)
  BY <1>1, MoreRoom DEF ProgressInv, Sound
<1>3. CASE dev' = Off
  BY <1>2, <1>3, CalmSound, NoRecordCalm
  DEF ProgressInv, Sound, Backed, Room, Left, Bare, Begun, Behind
<1>4. CASE ServiceFits(dev', r)
  BY <1>2, <1>4
  DEF ProgressInv, Sound, Backed, Room, Left, Bare, Begun, Behind, ServiceFits, AppPlace
<1> QED
  BY <1>3, <1>4

\* Programming a chunk, whole or cut short, spoils nothing that was received.
LEMMA WriteKeeps ==
  ASSUME TypeOK, NEW off, NEW len, NEW i \in Image,
         \/ flash' = AfterWrite(off, len, i)
         \/ RangeIsErased(off, len) /\ flash' \in WriteCut(off, len, i)
  PROVE  \A r \in Payload \cup {NoRecord} : Backed(flash, r) => Backed(flash', r)
<1>1. ASSUME NEW u \in Unit, flash[u] \in Image
      PROVE  flash'[u] \in Image
  <2>1. CASE flash' = AfterWrite(off, len, i)
    BY <1>1, <2>1 DEF AfterWrite
  <2>2. CASE /\ RangeIsErased(off, len)
             /\ \E n \in Chunk(off, len), half \in BOOLEAN :
                  flash' = [v \in Unit |-> IF off <= v /\ v < n THEN i
                                           ELSE IF v = n /\ half THEN Partial
                                           ELSE flash[v]]
    <3>1. u \notin Chunk(off, len)
      BY <1>1, <2>2, DeviceAssumption DEF RangeIsErased
    <3> QED
      BY <1>1, <2>2, <3>1
  <2> QED
    BY <2>1, <2>2 DEF WriteCut
<1>2. \A r \in Payload : 0 .. (r.received - 1) \subseteq Unit
  BY DeviceAssumption DEF Payload, Unit, Positive
<1> QED
  BY <1>1, <1>2, RecordTypes DEF Backed

\* Recording a chunk at a checkpoint uses one of the slots kept for it.
LEMMA CheckpointNeeds ==
  ASSUME NEW r \in Payload, NEW p \in Payload,
         r.state = "RECEIVING" /\ p.state = "RECEIVING" /\ p.manifest = r.manifest,
         r.received < p.received /\ p.received <= SizeOf(r.manifest)
  PROVE  /\ r.received \div Checkpoint <= p.received \div Checkpoint
         /\ CrossesCheckpoint(r.received, p.received, SizeOf(r.manifest))
              => Needed(p) < Needed(r)
         /\ ~ CrossesCheckpoint(r.received, p.received, SizeOf(r.manifest))
              => Needed(p) = Needed(r)
<1> DEFINE size == SizeOf(r.manifest)
           ceil == (size + Checkpoint - 1) \div Checkpoint
           old == r.received \div Checkpoint
           new == p.received \div Checkpoint
<1>1. /\ size \in Nat /\ r.received \in Nat /\ p.received \in Nat
      /\ ceil \in Nat /\ old \in Nat /\ new \in Nat /\ Checkpoint \in Nat \ {0}
  BY NeededTypes
<1>2. old <= new /\ old < ceil
  <2>1. r.received <= p.received /\ r.received < size
    BY <1>1
  <2>2. old <= new
    BY <1>1, <2>1, DivMono
  <2>3. old < ceil
    <3> HIDE DEF size
    <3> QED
      BY <1>1, <2>1, DivCeil
  <2> QED
    BY <2>2, <2>3
<1>3. Needed(r) = ceil - old + 2
  BY <1>1 DEF Needed
<1>4. Needed(p) = (IF p.received = size THEN 0 ELSE ceil - new) + 2
  BY <1>1 DEF Needed
<1>5. CrossesCheckpoint(r.received, p.received, size) <=> old # new \/ p.received = size
  BY DEF CrossesCheckpoint
<1> HIDE DEF size, ceil, old, new
<1>6. /\ CrossesCheckpoint(r.received, p.received, size) => Needed(p) < Needed(r)
      /\ ~ CrossesCheckpoint(r.received, p.received, size) => Needed(p) = Needed(r)
  BY <1>1, <1>2, <1>3, <1>4, <1>5
<1> QED
  BY <1>2, <1>6 DEF size, old, new

\* What Backed says of a record of n units.
LEMMA BackedTo ==
  ASSUME NEW f, NEW r, NEW n \in Nat, r.received = n, \A u \in 0 .. (n - 1) : f[u] \in Image
  PROVE  Backed(f, r)
  BY DEF Backed

\* After the chunk at the expected offset the flash holds data up to its end.
LEMMA WriteReaches ==
  ASSUME NEW i \in Image, NEW off \in Unit, NEW len \in Nat, off + len <= Units,
         dev.rec.state = "RECEIVING", off = dev.rec.received,
         Backed(flash', dev.rec), flash' = AfterWrite(off, len, i)
  PROVE  \A u \in 0 .. (off + len - 1) : flash'[u] \in Image
<1> TAKE u \in 0 .. (off + len - 1)
<1>1. u \in Unit
  BY DeviceAssumption DEF Unit, Positive
<1>2. CASE u \in Chunk(off, len)
  BY <1>1, <1>2 DEF AfterWrite
<1>3. CASE u \notin Chunk(off, len)
  <2>1. u \in 0 .. (dev.rec.received - 1)
    BY <1>1, <1>3 DEF Chunk, Unit
  <2> QED
    BY <2>1 DEF Backed
<1> QED
  BY <1>2, <1>3

\* DATA keeps the invariant: written first, then recorded.
LEMMA DataProgress ==
  ASSUME TypeInv, SafetyInv, ProgressInv, NEW s \in Session, NEW off \in Unit,
         NEW len \in 1 .. MaxChunk, NEW i \in Image, Data(s, off, len, i)
  PROVE  ProgressInv'
<1>1. dev.at \in BootPlace /\ UNCHANGED starts /\ dev \in Dev
  BY DEF Data, Serving, BootPlace, TypeInv, TypeOK
<1>2. CASE DataStatus(s, off, len, i) # "NEW"
  <2>1. dev'.rec = dev.rec /\ dev'.at = "service" /\ Quiet
    BY <1>1, <1>2, AnswerSafe DEF Data, ServiceFits, Quiet
  <2> QED
    BY <2>1, MoveProgress DEF AppPlace
<1>3. CASE DataStatus(s, off, len, i) = "NEW"
  <2> DEFINE new == [dev.rec EXCEPT !.received = off + len]
             p == WithState(new, "RECEIVING", 0)
             size == SizeOf(dev.rec.manifest)
  <2>1. /\ dev.rec \in Payload /\ dev.rec.state = "RECEIVING" /\ off = dev.rec.received
        /\ off + len \in 0 .. Units /\ off < off + len /\ off + len <= size
    BY <1>3, NewChunk, SizeTypes, DeviceAssumption DEF Payload, Positive
  <2>2. /\ new \in Payload /\ new.state = "RECEIVING" /\ new.manifest = dev.rec.manifest
        /\ new.received = off + len /\ new.session = dev.rec.session
    BY <2>1 DEF Payload
  <2>3. /\ p \in Payload /\ p.state = "RECEIVING" /\ p.manifest = dev.rec.manifest
        /\ p.received = off + len /\ p.session = dev.rec.session
    <3>1. "RECEIVING" \in BootState /\ 0 \in ErrorCode
      BY Written
    <3> HIDE DEF new
    <3> QED
      BY <2>2, <3>1, UpdateTypes, ZenonT(40)
  <2>4. /\ \A r \in Payload \cup {NoRecord} : Backed(flash, r) => Backed(flash', r)
        /\ flash' = AfterWrite(off, len, i) \/ RangeIsErased(off, len)
    BY <1>3, WriteKeeps DEF Data, TypeInv
  <2>5. /\ Backed(flash', dev.rec) /\ Backed(flash', journal.latest)
        /\ Room(dev.rec, Left) /\ Left \in Int /\ Behind(dev.rec, journal.latest)
        /\ Begun(dev.rec)
    BY <2>1, <2>4, DeviceAssumption, CapacityAssumption
    DEF ProgressInv, Sound, Left, TypeInv, TypeOK, JournalOf
  <2> HIDE DEF new, p, size
  <2>6. ASSUME flash' = AfterWrite(off, len, i)
        PROVE  Backed(flash', new) /\ Backed(flash', p)
    <3>1. \A u \in 0 .. (off + len - 1) : flash'[u] \in Image
      BY <2>1, <2>5, <2>6, SizeTypes, WriteReaches
    <3>2. off \in Nat /\ len \in Nat
      BY <2>1, DeviceAssumption DEF Unit, Positive
    <3>3. Backed(flash', new)
      BY <2>2, <3>1, <3>2, BackedTo
    <3>4. Backed(flash', p)
      BY <2>3, <3>1, <3>2, BackedTo
    <3> QED
      BY <3>3, <3>4
  <2> USE DEF size
  <2>7. ~ Lost
    <3>1. journal.latest.state \in {"RECEIVING", "VERIFYING", "FAILED"}
      BY <1>1, <2>1, AnswerSafe DEF Ahead
    <3> QED
      BY <3>1 DEF Lost, SafeToCompact
  <2>8. CASE /\ CrossesCheckpoint(off, off + len, size) /\ flash' = AfterWrite(off, len, i)
             /\ Append(p, Recorded(p, "OK"), Answer("FLASH_ERROR"))
    <3>1. Needed(p) < Needed(dev.rec) /\ Behind(dev.rec, p) /\ Begun(p)
      BY <2>1, <2>3, <2>8, CheckpointNeeds DEF Behind, Begun
    <3>2. Underway(p) => Room(p, Left - 1)
      BY <2>1, <2>3, <2>5, <3>1, NeededTypes DEF Room, Underway
    <3> QED
      BY <1>1, <2>3, <2>5, <2>6, <2>7, <2>8, <3>1, <3>2, AnswerSafe, AppendProgress
  <2>9. CASE /\ ~ CrossesCheckpoint(off, off + len, size)
             /\ flash' = AfterWrite(off, len, i)
             /\ dev' = [Answer("OK") EXCEPT !.rec.received = off + len]
             /\ UNCHANGED <<journal, faults>>
    <3>1. ServiceFits(dev', new)
      BY <1>1, <2>9 DEF new, ServiceFits, Answer, Dev
    <3>2. Needed(new) = Needed(dev.rec)
      BY <2>1, <2>2, <2>9, CheckpointNeeds
    <3>3. Room(new, Left) /\ Begun(new)
      BY <2>1, <2>2, <2>5, <3>2 DEF Room, Underway, UpdateStates, Begun
    <3>4. Behind(new, journal.latest)
      BY <2>1, <2>2, <2>5, <2>9 DEF Behind, CrossesCheckpoint
    <3> QED
      BY <2>2, <2>5, <2>6, <2>9, <3>1, <3>3, <3>4, StayProgress, DeviceAssumption
      DEF TypeInv, TypeOK
  <2>10. CASE /\ dev' \in {Answer("FLASH_ERROR"), Off} /\ UNCHANGED journal /\ Fault
    <3>1. faults' \in Nat /\ faults' >= faults
      BY <2>10, DeviceAssumption DEF Fault, TypeInv, TypeOK
    <3> QED
      BY <1>1, <2>1, <2>5, <2>10, <3>1, AnswerSafe, StayProgress
  <2> QED
    BY <1>3, <2>1, <2>8, <2>9, <2>10 DEF Data, AdvanceTo, p, new
<1> QED
  BY <1>2, <1>3

\* A record that counts no data is backed by any flash.
LEMMA NothingBacked ==
  ASSUME NEW r, r.state \notin {"RECEIVING", "VERIFYING"} \/ r.received = 0
  PROVE  \A f : Backed(f, r)
  BY DEF Backed

\* The deferred erase keeps the invariant: no record counts data yet.
LEMMA EraseAppProgress ==
  ASSUME TypeInv, SafetyInv, ProgressInv, EraseApp
  PROVE  ProgressInv'
<1> DEFINE size == SizeOf(dev.rec.manifest)
           idle == [dev EXCEPT !.pc = "idle"]
           zero == [dev.rec EXCEPT !.received = 0]
           ready == WithState(zero, "RECEIVING", 0)
           bad == WithState(dev.rec, "FAILED", FlashErrorCode)
           with(r) == [idle EXCEPT !.rec = r]
<1>1. /\ dev.at = "service" /\ dev.at \in BootPlace /\ dev \in Dev
      /\ dev.rec \in Payload /\ dev.rec.state = "ERASING" /\ dev.rec.received = 0
  BY RecordTypes DEF EraseApp, TypeInv, WellFormed, TypeOK, Dev, BootPlace,
                     ProgressInv, Sound, Begun
<1>2. zero = dev.rec
  BY <1>1 DEF Payload
<1>3. /\ ready \in Payload /\ ready.state = "RECEIVING" /\ ready.received = 0
      /\ ready.manifest = dev.rec.manifest
      /\ bad \in Payload /\ bad.state = "FAILED"
  <2>1. {"RECEIVING", "FAILED"} \subseteq BootState
          /\ 0 \in ErrorCode /\ FlashErrorCode \in ErrorCode
    BY Written
  <2> HIDE DEF zero
  <2> QED
    BY <1>1, <1>2, <2>1, UpdateTypes
<1>4. ServiceFits(idle, dev.rec) /\ \A r : ServiceFits(with(r), r)
  BY <1>1 DEF Dev, ServiceFits
<1>5. journal.latest.state \in {"ERASING", "RECEIVING", "FAILED"}
        /\ (journal.latest.state = "RECEIVING" => journal.latest.received = 0)
  BY <1>1 DEF SafetyInv, Fits, Ahead, ProgressInv, Behind
<1>6. /\ \A f : Backed(f, journal.latest) /\ Backed(f, dev.rec)
      /\ \A f : Backed(f, ready) /\ Backed(f, bad)
  BY <1>1, <1>3, <1>5, NothingBacked
<1>7. Room(dev.rec, Left) /\ Left \in Int /\ ~ Lost /\ Begun(dev.rec)
  BY <1>5, DeviceAssumption, CapacityAssumption
  DEF ProgressInv, Sound, Left, TypeInv, TypeOK, JournalOf, Lost, SafeToCompact
<1>8. Begun(ready) /\ Begun(bad) /\ Behind(dev.rec, ready) /\ Behind(dev.rec, bad)
        /\ ~ Underway(bad)
  BY <1>1, <1>3 DEF Begun, Behind, Underway, UpdateStates
<1>9. ASSUME size > 0  PROVE  Room(ready, Left - 1)
  <2>1. size # 0
    BY <1>1, <1>9, NeededTypes
  <2>2. Needed(ready) = Needed(dev.rec) - 1
    BY <1>1, <1>3, <2>1, NeededTypes DEF Needed
  <2>3. Underway(ready) => Underway(dev.rec)
    BY <1>1, <1>3 DEF Underway, UpdateStates
  <2> HIDE DEF ready, size
  <2> QED
    BY <1>1, <1>3, <1>7, <2>2, <2>3, NeededTypes DEF Room
<1>10. /\ \/ size > 0 /\ Append(ready, with(ready), with(zero))
          \/ Append(bad, with(bad), idle)
          \/ dev' = Off /\ UNCHANGED journal /\ Fault
  BY DEF EraseApp
<1> HIDE DEF size, idle, zero, ready, bad, with
<1>11. CASE size > 0 /\ Append(ready, with(ready), with(zero))
  BY <1>1, <1>2, <1>3, <1>4, <1>6, <1>7, <1>8, <1>9, <1>11, AppendProgress
<1>12. CASE Append(bad, with(bad), idle)
  BY <1>1, <1>3, <1>4, <1>6, <1>8, <1>12, AppendProgress
<1>13. CASE dev' = Off /\ UNCHANGED journal /\ Fault
  <2>1. faults' \in Nat /\ faults' >= faults
    BY <1>13, DeviceAssumption DEF Fault, TypeInv, TypeOK
  <2> QED
    BY <1>1, <1>6, <1>7, <1>13, <2>1, StayProgress DEF ProgressInv
<1> QED
  BY <1>10, <1>11, <1>12, <1>13

\* What START and ENTER_BOOT leave: the slots asked for were there when the
\* record was written, less the one it took.
LEMMA ReserveLeft ==
  ASSUME TypeOK, NEW n, NEW p, NEW done, NEW failed, ReserveAndAppend(n, p, done, failed)
  PROVE  /\ Left' \in Nat /\ Left \in Nat
         /\ \/ n \in 1 .. (Capacity - 1) /\ Left' >= n - 1
                 /\ \/ dev' = done /\ journal'.latest = p
                    \/ Left' >= Left
            \/ Left' >= Left /\ UNCHANGED journal
            \/ Lost /\ n \in 1 .. (Capacity - 1) /\ Left' >= Capacity - 2
<1>1. journal \in JournalOf(Payload) /\ faults \in Nat /\ Capacity \in Nat
  BY DeviceAssumption, CapacityAssumption DEF TypeOK
<1>2. journal.free \in 0 .. Capacity
  BY <1>1 DEF JournalOf
<1>3. CASE HasRoom(journal, n) /\ Append(p, done, failed)
  <2>1. n \in 1 .. (Capacity - 1) /\ journal.free >= n /\ journal.free > 0
    BY <1>1, <1>2, <1>3 DEF HasRoom
  <2>2. /\ Left' \in Nat /\ Left \in Nat
        /\ \/ dev' = done /\ journal'.latest = p /\ Left' >= Left - 1
           \/ Left' >= Left - 0
    BY <1>1, <1>2, <1>3, <2>1, AppendLeft DEF Enough
  <2>3. Left >= n
    BY <1>1, <1>2, <2>1 DEF Left
  <2> QED
    BY <1>1, <2>1, <2>2, <2>3
<1>4. CASE /\ CanCompact(journal, n) /\ NoFault
           /\ journal' = AppendDone(CompactDone(journal), p)
  <2>1. journal'.free = Capacity - 2
    BY <1>1, <1>4, CapacityAssumption DEF AppendDone, CompactDone
  <2> QED
    BY <1>1, <1>2, <1>4, <2>1, CapacityAssumption DEF CanCompact, NoFault, Left, Lost
<1>5. CASE /\ CanCompact(journal, n) /\ Fault
           /\ journal' \in CompactCut(journal) \cup AppendCut(CompactDone(journal), p)
  <2>1. faults' = faults + 1
    BY <1>5 DEF Fault
  <2>2. journal'.free \in Nat
          /\ (journal' = journal \/ journal'.free >= Capacity - 3)
    <3>1. CASE journal' \in CompactCut(journal)
      BY <1>1, <1>2, <3>1, CapacityAssumption
      DEF CompactCut, Tear, CompactDone, EmptyJournal
    <3>2. CASE journal' \in AppendCut(CompactDone(journal), p)
      BY <1>1, <3>2, CapacityAssumption DEF AppendCut, Tear, AppendDone, CompactDone
    <3> QED
      BY <1>5, <3>1, <3>2
  <2> QED
    BY <1>1, <1>2, <1>5, <2>1, <2>2, CapacityAssumption DEF CanCompact, Left, Lost
<1>6. CASE NoFault /\ UNCHANGED journal
  BY <1>1, <1>2, <1>6 DEF NoFault, Left
<1> QED
  BY <1>3, <1>4, <1>5, <1>6 DEF ReserveAndAppend

\* START keeps the invariant: it makes the room its own record speaks of.
LEMMA StartProgress ==
  ASSUME TypeInv, SafetyInv, ProgressInv, NEW s \in Session, NEW m \in Manifest,
         Start(s, m)
  PROVE  ProgressInv'
<1> DEFINE n == Reserve(SizeOf(m))
           p == NewRecord("UPDATE_REQUESTED", s, m)
<1>1. dev.at \in BootPlace /\ UNCHANGED <<flash, starts>>
  BY DEF Start, Serving, BootPlace
<1>2. CASE StartStatus(s, m) # "ACCEPT"
  <2>1. dev'.rec = dev.rec /\ dev'.at = "service" /\ Quiet
    BY <1>1, <1>2, AnswerSafe DEF Start, ServiceFits, Quiet
  <2> QED
    BY <2>1, MoveProgress DEF AppPlace
<1>3. CASE /\ StartStatus(s, m) = "ACCEPT"
           /\ ReserveAndAppend(n, p, Recorded(p, "OK"), Answer("FLASH_ERROR"))
  <2>1. /\ p \in Payload /\ p.state = "UPDATE_REQUESTED" /\ p.received = 0
        /\ p.manifest = m
    BY RecordTypes, Written DEF NewRecord
  <2> HIDE DEF p
  <2>2. dev.rec.state \in {"NONE", "UPDATE_REQUESTED", "CONFIRMED", "FAILED"}
    <3>1. dev.rec.state \in BootState \cup {"NONE"} /\ Used(dev.rec.state)
      BY <1>1, RecordTypes, AnswerSafe DEF TypeInv, TypeOK, Dev, Payload
    <3> QED
      BY <1>3, <3>1 DEF StartStatus, ActiveStates, BootState, Used
  <2>3. /\ \A l : Behind(dev.rec, l)
        /\ Begun(p) /\ Behind(p, p)
        /\ \A f : Backed(f, p)
    BY <2>1, <2>2, NothingBacked DEF Behind, Begun
  <2>4. /\ Backed(flash', journal.latest) /\ Backed(flash', dev.rec) /\ Begun(dev.rec)
        /\ Room(journal.latest, Left) /\ Room(dev.rec, Left)
        /\ journal.latest \in Payload \cup {NoRecord} /\ dev.rec \in Payload \cup {NoRecord}
    BY <1>1 DEF ProgressInv, Sound, TypeInv, TypeOK, JournalOf, Dev
  <2>5. /\ Left' \in Nat /\ Left \in Nat
        /\ \/ n \in 1 .. (Capacity - 1) /\ Left' >= n - 1
                /\ \/ dev' = Recorded(p, "OK") /\ journal'.latest = p
                   \/ Left' >= Left
           \/ Left' >= Left /\ UNCHANGED journal
           \/ Lost /\ n \in 1 .. (Capacity - 1) /\ Left' >= Capacity - 2
    BY <1>3, ReserveLeft DEF TypeInv
  <2>6. n \in 1 .. (Capacity - 1) /\ Left' >= n - 1 => Room(p, Left')
    <3> DEFINE ceil == (SizeOf(m) + Checkpoint - 1) \div Checkpoint
    <3>1. ceil \in Nat /\ Overhead \in Nat /\ Checkpoint \in Nat \ {0}
      BY <2>1, NeededTypes
    <3>2. 0 \div Checkpoint = 0
      BY <3>1
    <3>3. n = ceil + Overhead /\ Needed(p) = ceil - 0 \div Checkpoint + 4
      BY <2>1 DEF Reserve, Needed
    <3>4. Room(p, Left') <=> (Underway(p) => n < Capacity
                                             /\ Left' >= Needed(p) + Overhead - 5)
      BY <2>1 DEF Room
    <3> HIDE DEF n, ceil
    <3> QED
      BY <2>5, <3>1, <3>2, <3>3, <3>4, CapacityAssumption
  <2> HIDE DEF n
  <2>7. Left' >= Left => Room(journal.latest, Left') /\ Room(dev.rec, Left')
    BY <2>4, <2>5, MoreRoom
  <2>8. Lost /\ Left' >= Capacity - 2 => Room(journal.latest, Left') /\ Room(dev.rec, Left')
    <3>1. Lost => Room(journal.latest, Left')
      BY DEF Lost, SafeToCompact, Room, Underway, UpdateStates
    <3> QED
      BY <1>1, <2>5, <3>1, LostRoom
  <2>9. Lost /\ n \in 1 .. (Capacity - 1) /\ Left' >= Capacity - 2 => Left' >= n - 1
    BY <2>5, CapacityAssumption
  <2>10. journal'.latest = p => Room(p, Left')
    BY <2>5, <2>6, <2>7, <2>9
  <2>11. journal'.latest # p => Room(journal.latest, Left')
    BY <2>5, <2>7, <2>8
  <2>12. dev' # Recorded(p, "OK") \/ journal'.latest # p => Room(dev.rec, Left')
    BY <2>5, <2>7, <2>8
  <2>13. Outcome(p, Recorded(p, "OK"), Answer("FLASH_ERROR"))
    BY <1>3, <2>1, ReserveOutcome DEF TypeInv, TypeOK
  <2>14. /\ Recorded(p, "OK").rec = p /\ Answer("FLASH_ERROR").rec = dev.rec
         /\ Bare(Recorded(p, "OK")) /\ Bare(Answer("FLASH_ERROR"))
    BY <1>1, AnswerSafe DEF ServiceFits, Bare, AppPlace
  <2> QED
    BY <2>3, <2>4, <2>10, <2>11, <2>12, <2>13, <2>14, OutcomeProgress
<1> QED
  BY <1>2, <1>3 DEF Start

\* A step of the application, which has no record in RAM, that appends p.
LEMMA AppProgress ==
  ASSUME ProgressInv, dev.at \in AppPlace, flash' = flash,
         NEW p, NEW done, NEW failed, Outcome(p, done, failed),
         Begun(p), ~ Underway(p), Behind(p, p), \A f : Backed(f, p),
         journal'.latest # p => Room(journal.latest, Left'),
         done.rec = dev.rec, failed.rec = dev.rec
  PROVE  ProgressInv'
<1>1. dev.rec = NoRecord
  BY DEF ProgressInv, Bare
<1>2. /\ Calm(dev.rec) /\ Bare(done) /\ Bare(failed) /\ Room(p, Left')
  BY <1>1, NoRecordCalm DEF Bare, Room
<1>3. /\ Begun(dev.rec) /\ \A f : Backed(f, dev.rec)
      /\ \A left : Room(dev.rec, left)
      /\ \A l : Behind(dev.rec, l)
  BY <1>2, CalmSound
<1>4. Backed(flash', journal.latest)
  BY DEF ProgressInv, Sound
<1> QED
  BY <1>1, <1>2, <1>3, <1>4, OutcomeProgress

\* The confirmation keeps the invariant: it ends the update.
LEMMA ConfirmProgress ==
  ASSUME TypeInv, SafetyInv, ProgressInv, Confirm
  PROVE  ProgressInv'
<1> DEFINE p == WithState(journal.latest, "CONFIRMED", 0)
           at(place) == [dev EXCEPT !.at = place]
<1>1. dev.at \in AppPlace /\ flash' = flash
  BY DEF Confirm, AppPlace
<1>2. \A place : at(place).rec = dev.rec
  BY DEF TypeInv, TypeOK, Dev
<1>3. CASE /\ Compatible(journal.latest)
           /\ Append(p, at("running"), at("blocked"))
  <2>1. journal.latest \in Payload /\ journal.latest.state = "PENDING_BOOT"
    BY <1>3, RecordTypes DEF Compatible, TypeInv, TypeOK, JournalOf
  <2>2. p \in Payload /\ p.state = "CONFIRMED"
    <3>1. "CONFIRMED" \in BootState /\ 0 \in ErrorCode
      BY Written
    <3> QED
      BY <2>1, <3>1, UpdateTypes
  <2> HIDE DEF p, at
  <2>3. Outcome(p, at("running"), at("blocked"))
    BY <1>3, <2>2, AppendOutcome DEF TypeInv, TypeOK
  <2>4. Begun(p) /\ ~ Underway(p) /\ Behind(p, p) /\ \A f : Backed(f, p)
    BY <2>2, CalmSound DEF Calm, Underway, UpdateStates
  <2>5. Room(journal.latest, Left')
    BY <2>1 DEF Room, Underway, UpdateStates
  <2> QED
    BY <1>1, <1>2, <2>3, <2>4, <2>5, AppProgress
<1>4. CASE Quiet /\ dev' = at("blocked")
  BY <1>1, <1>2, <1>4, MoveProgress
<1> QED
  BY <1>1, <1>3, <1>4 DEF Confirm, Quiet

\* ENTER_BOOT keeps the invariant: its record announces no image yet.
LEMMA EnterBootProgress ==
  ASSUME TypeInv, SafetyInv, ProgressInv, NEW s \in Session \cup {0}, AppEnterBoot(s)
  PROVE  ProgressInv'
<1> DEFINE p == NewRecord("UPDATE_REQUESTED", s, NoManifest)
           reset == [AppAnswer("OK") EXCEPT !.deferred = "reset"]
<1>1. dev.at \in AppPlace /\ flash' = flash
  BY DEF AppEnterBoot, AppServing, AppPlace
<1>2. /\ p \in Payload /\ p.state = "UPDATE_REQUESTED" /\ p.received = 0
      /\ p.manifest = NoManifest
  BY RecordTypes, Written DEF NewRecord
<1>3. reset.rec = dev.rec /\ AppAnswer("FLASH_ERROR").rec = dev.rec
  BY DEF TypeInv, TypeOK, Dev, AppAnswer
<1>4. ReserveAndAppend(Reserve(Units), p, reset, AppAnswer("FLASH_ERROR"))
  BY DEF AppEnterBoot
<1> HIDE DEF p, reset
<1>5. Outcome(p, reset, AppAnswer("FLASH_ERROR"))
  BY <1>2, <1>4, ReserveOutcome DEF TypeInv, TypeOK
<1>6. Begun(p) /\ ~ Underway(p) /\ Behind(p, p) /\ \A f : Backed(f, p)
  BY <1>2, NothingBacked DEF Begun, Underway, Behind
<1>7. ASSUME journal'.latest # p  PROVE  Room(journal.latest, Left')
  <2>1. Room(journal.latest, Left) /\ journal.latest \in Payload \cup {NoRecord}
    BY DEF ProgressInv, Sound, TypeInv, TypeOK, JournalOf
  <2>2. Left' \in Nat /\ Left \in Nat /\ (Left' >= Left \/ Lost)
    BY <1>4, <1>7, ReserveLeft DEF TypeInv
  <2>3. CASE Left' >= Left
    BY <2>1, <2>2, <2>3, MoreRoom
  <2>4. CASE Lost
    BY <2>4 DEF Lost, SafeToCompact, Room, Underway, UpdateStates
  <2> QED
    BY <2>2, <2>3, <2>4
<1> QED
  BY <1>1, <1>3, <1>5, <1>6, <1>7, AppProgress

\* The decision at reset keeps the invariant: the record comes from the journal.
LEMMA BootProgress ==
  ASSUME TypeInv, SafetyInv, ProgressInv, Boot
  PROVE  ProgressInv'
<1>1. PICK ready \in BOOLEAN, valid \in VectorValid :
        LET rec == journal.latest
            allowed == valid /\ (rec = NoRecord \/ AllowsAppBoot(rec.state))
            loop == [Off EXCEPT !.rec = rec, !.at = IF ready THEN "service" ELSE "dead"]
        IN IF allowed /\ rec.state = "PENDING_BOOT" THEN CountedStart(loop)
           ELSE /\ dev' = IF ~ allowed THEN loop
                          ELSE IF ready THEN [loop EXCEPT !.at = "window"] ELSE Jump
                /\ UNCHANGED <<journal, faults, starts>>
  BY DEF Boot
<1> DEFINE rec == journal.latest
           place == IF ready THEN "service" ELSE "dead"
           loop == [Off EXCEPT !.rec = rec, !.at = place]
           with(r) == [loop EXCEPT !.rec = r]
           failed == WithState(rec, "FAILED", TimeoutCode)
           counted == WithState(rec, "PENDING_BOOT", rec.error + 1)
<1>2. /\ flash' = flash /\ rec \in Payload \cup {NoRecord}
      /\ Sound(rec)
  BY DEF Boot, TypeInv, TypeOK, JournalOf, ProgressInv
<1>3. /\ loop.at \in {"service", "dead"} /\ loop.rec = rec
      /\ \A r : with(r).at = loop.at /\ with(r).rec = r
  BY DEF Off
<1>4. CASE rec.state = "PENDING_BOOT" /\ CountedStart(loop)
  <2>1. /\ Calm(rec) /\ Calm(loop.rec) /\ rec \in Payload
    BY <1>2, <1>3, <1>4, RecordTypes DEF Calm, UpdateStates
  <2>2. Calm(failed) /\ Calm(counted)
    BY <2>1 DEF WithState, Payload, Calm, UpdateStates
  <2>3. /\ Bare(loop) /\ Bare(Jump) /\ Calm(Jump.rec)
        /\ \A r : Bare(with(r))
    BY <1>3, NoRecordCalm DEF Bare, AppPlace
  <2>4. \/ Append(failed, with(failed), loop)
        \/ Append(counted, Jump, loop) /\ rec.error < MaxAttempts
    <3>1. rec.error \in Int /\ MaxAttempts \in Int
      BY <2>1, DeviceAssumption DEF Payload, ErrorCode
    <3> QED
      BY <1>3, <1>4, <3>1 DEF CountedStart
  <2> HIDE DEF loop, with, failed, counted
  <2>5. ASSUME NEW p, NEW done, Outcome(p, done, loop), Calm(p),
               done.rec = p \/ Calm(done.rec), Bare(done)
        PROVE  ProgressInv'
    <3>1. /\ Begun(p) /\ Behind(p, p) /\ Backed(flash', p) /\ Room(p, Left')
          /\ Begun(loop.rec) /\ Backed(flash', loop.rec) /\ Room(loop.rec, Left')
          /\ Backed(flash', rec) /\ Room(rec, Left')
          /\ \A l : Behind(loop.rec, l)
      BY <2>1, <2>5, CalmSound
    <3> QED
      BY <2>3, <2>5, <3>1, OutcomeProgress
  <2>6. CASE Append(failed, with(failed), loop)
    <3>1. failed \in Payload
      <4>1. "FAILED" \in BootState /\ TimeoutCode \in ErrorCode
        BY Written
      <4> QED
        BY <2>1, <4>1, UpdateTypes DEF failed
    <3>2. Outcome(failed, with(failed), loop)
      BY <2>6, <3>1, AppendOutcome DEF TypeInv, TypeOK
    <3> QED
      BY <1>3, <2>2, <2>3, <2>5, <3>2
  <2>7. CASE Append(counted, Jump, loop) /\ rec.error < MaxAttempts
    <3>1. counted \in Payload
      <4>1. "PENDING_BOOT" \in BootState /\ rec.error \in Nat
        BY <1>4, <2>1, Written, DeviceAssumption
        DEF SafetyInv, JournalSafe, StartsAreCounted, TypeInv, TypeOK, Payload, ErrorCode
      <4>2. rec.error + 1 \in ErrorCode
        BY <2>7, <4>1, DeviceAssumption DEF ErrorCode
      <4> QED
        BY <2>1, <4>1, <4>2, UpdateTypes DEF counted
    <3>2. Outcome(counted, Jump, loop)
      BY <2>7, <3>1, AppendOutcome DEF TypeInv, TypeOK
    <3> QED
      BY <2>2, <2>3, <2>5, <3>2
  <2> QED
    BY <2>4, <2>6, <2>7
<1>5. CASE UNCHANGED <<journal, faults, starts>> /\ dev' = Jump
  BY <1>2, <1>5, MoveProgress DEF Quiet
<1>6. CASE /\ UNCHANGED <<journal, faults, starts>>
           /\ dev' \in {loop, [loop EXCEPT !.at = "window"]}
  <2>1. dev'.rec = rec /\ dev'.at \in {"service", "dead", "window"}
    BY <1>6 DEF Off
  <2>2. Behind(rec, rec)
    BY <1>2, BehindSelf DEF Sound
  <2> QED
    BY <1>2, <1>6, <2>1, <2>2
    DEF ProgressInv, Sound, Backed, Room, Left, Bare, Begun, Behind, AppPlace
<1> QED
  BY <1>1, <1>4, <1>5, <1>6

-----------------------------------------------------------------------------
\* The invariant holds of a board as it leaves the factory.
LEMMA ProgressInit == Init => ProgressInv
<1> SUFFICES ASSUME Init PROVE ProgressInv
  OBVIOUS
<1>1. journal.latest = NoRecord /\ dev.rec = NoRecord
  BY DEF Init, EmptyJournal, Off
<1> QED
  BY <1>1, NoRecordCalm, CalmSound DEF ProgressInv, Sound, Bare

\* Every step keeps the invariant.
LEMMA ProgressStep ==
  ASSUME TypeInv, SafetyInv, ProgressInv, [Next]_vars
  PROVE  ProgressInv'
<1>1. CASE Request
  BY <1>1, QuietProgress, StartProgress, EraseProgress, VerifyProgress, AbortProgress,
     DataProgress DEF Request
<1>2. CASE Bootloader
  BY <1>2, QuietProgress, BootProgress, CheckCrcProgress, EraseAppProgress DEF Bootloader
<1>3. CASE Application
  BY <1>3, QuietProgress, ConfirmProgress, EnterBootProgress DEF Application
<1>4. CASE (\E sent \in BOOLEAN : SendReply(sent)) \/ WatchdogReset \/ PowerLoss
  BY <1>4, QuietProgress
<1>5. CASE UNCHANGED vars
  BY <1>5
  DEF vars, ProgressInv, Sound, Backed, Room, Left, Bare, Begun, Behind
<1> QED
  BY <1>1, <1>2, <1>3, <1>4, <1>5 DEF Next

\* The inductive invariant: the journal and the RAM count only data that are in the
\* flash, at most a checkpoint apart, and enough slots are left.
THEOREM ProgressHolds == Spec => [](TypeInv /\ SafetyInv /\ ProgressInv)
<1>1. Init => TypeInv /\ SafetyInv /\ ProgressInv
  BY TypeInit, SafetyInit, ProgressInit
<1>2. (TypeInv /\ SafetyInv /\ ProgressInv) /\ [Next]_vars
        => (TypeInv /\ SafetyInv /\ ProgressInv)'
  BY TypeStep, SafetyStep, ProgressStep
<1> QED
  BY <1>1, <1>2, PTL DEF Spec

\* Whatever is cut short, the data a record vouches for are in the flash
\* (boot_upgrade_handle_data writes first and records afterwards).
THEOREM RecordedDataAreInFlash == Spec => []ProgressIsInFlash
<1>1. ProgressInv => ProgressIsInFlash
  BY DEF ProgressInv, Sound, Backed, ProgressIsInFlash
<1> QED
  BY <1>1, ProgressHolds, PTL

\* A reset takes back less than one checkpoint of what was acknowledged
\* (UPGRADE_METADATA_CHECKPOINT_SIZE).
THEOREM ResetsLoseLessThanCheckpoint == Spec => []ResumeLosesLessThanCheckpoint
<1>1. TypeInv /\ ProgressInv => ResumeLosesLessThanCheckpoint
  <2> SUFFICES ASSUME TypeInv, ProgressInv, dev.rec.state = "RECEIVING",
                      journal.latest.state \in {"RECEIVING", "VERIFYING"},
                      dev.rec.received \div Checkpoint
                        <= journal.latest.received \div Checkpoint
               PROVE  dev.rec.received - journal.latest.received < Checkpoint
    BY DEF ProgressInv, Behind, ResumeLosesLessThanCheckpoint
  <2>1. dev.rec \in Payload /\ journal.latest \in Payload
    BY RecordTypes DEF TypeInv, TypeOK, JournalOf, Dev
  <2> QED
    BY <2>1, NeededTypes, DivGap
<1> QED
  BY <1>1, ProgressHolds, PTL

\* An update START let in never runs out of slots, whatever tears the records
\* (boot_upgrade_handle_start's required_records).
THEOREM ReservedSlotsSuffice == Spec => []ReserveSuffices
<1>1. ProgressInv => ReserveSuffices
  BY DEF ProgressInv, Sound, Room, Underway, UpdateStates, Left, ReserveSuffices
<1> QED
  BY <1>1, ProgressHolds, PTL
-----------------------------------------------------------------------------
(***************************************************************************)
(* What a client that sends one image per session may rely on: the records *)
(* of RAM and journal are of one session, no request but START and         *)
(* ENTER_BOOT begins another, and the data a record counts are those of    *)
(* its own image.                                                          *)
(***************************************************************************)
SameUpdate(r, q) == r.session = q.session /\ r.manifest = q.manifest

\* Beside a bootloader with r in RAM the journal says l, which is of the same
\* session unless it is a START of which the append reported an error.
Kin(r, l) ==
  r # NoRecord /\ l # NoRecord /\ l.state # "UPDATE_REQUESTED" => SameUpdate(r, l)

\* The data record r counts are in flash f, and its own.
Filled(f, r) ==
  r.state = "RECEIVING" => \A u \in 0 .. (r.received - 1) : f[u] = r.manifest.image

ContentsInv ==
  /\ Kin(dev.rec, journal.latest)
  /\ Filled(flash, dev.rec) /\ Filled(flash, journal.latest)

\* A record of no other session than there was.
Stems(r) ==
  r = NoRecord \/ \E q \in {dev.rec, journal.latest} : q # NoRecord /\ SameUpdate(r, q)

\* The step begins no session.
Carried == Stems(dev'.rec) /\ Stems(journal'.latest)

\* An append of a record that goes on with the session of q, which is in RAM or in
\* the journal.
LEMMA AppendFills ==
  ASSUME ContentsInv, flash' = flash, NEW q \in {dev.rec, journal.latest},
         q # NoRecord, Kin(q, journal.latest),
         NEW p, SameUpdate(p, q), p.state # "RECEIVING",
         NEW done, NEW failed, Outcome(p, done, failed),
         done.rec \in {p, NoRecord}, failed.rec \in {q, NoRecord}
  PROVE  ContentsInv' /\ Carried /\ flash' = flash
<1>1. Stems(p) /\ Stems(q) /\ Stems(NoRecord) /\ Stems(journal.latest)
  BY DEF Stems, SameUpdate
<1>2. Off.rec = NoRecord /\ NoRecord.state = "NONE"
  BY DEF Off, NoRecord
<1>3. \A l : Kin(NoRecord, l) /\ Kin(l, NoRecord)
  BY DEF Kin
<1>4. Kin(p, p) /\ Kin(q, p) /\ Kin(q, journal.latest)
  BY DEF Kin, SameUpdate
<1>5. \A f : Filled(f, p) /\ Filled(f, NoRecord)
  BY <1>2 DEF Filled
<1>6. Filled(flash', q) /\ Filled(flash', journal.latest)
  BY DEF ContentsInv
<1>7. CASE dev' = done /\ journal'.latest = p
  BY <1>1, <1>3, <1>4, <1>5, <1>7 DEF ContentsInv, Carried
<1>8. CASE dev' \in {failed, Off} /\ journal'.latest \in {journal.latest, p, NoRecord}
  <2>1. dev'.rec \in {q, NoRecord}
    BY <1>2, <1>8
  <2> QED
    BY <1>1, <1>3, <1>4, <1>5, <1>6, <1>8, <2>1 DEF ContentsInv, Carried
<1> QED
  BY <1>7, <1>8 DEF Outcome

\* A step that leaves flash and journal alone.
LEMMA StayFills ==
  ASSUME ContentsInv, flash' = flash, journal' = journal,
         dev'.rec \in {dev.rec, NoRecord, journal.latest}
  PROVE  ContentsInv' /\ Carried /\ flash' = flash
  BY DEF ContentsInv, Carried, Stems, Kin, SameUpdate, Filled, NoRecord

\* A handler of the bootloader that goes on with its record.
LEMMA HandlerFills ==
  ASSUME ContentsInv, flash' = flash, dev.rec \in Payload,
         NEW p, SameUpdate(p, dev.rec), p.state # "RECEIVING",
         NEW done, NEW failed, Outcome(p, done, failed),
         done.rec = p, failed.rec = dev.rec
  PROVE  ContentsInv' /\ Carried /\ flash' = flash
<1>1. dev.rec # NoRecord /\ Kin(dev.rec, journal.latest)
  BY RecordTypes DEF ContentsInv
<1> QED
  BY <1>1, AppendFills

\* The steps that write neither flash nor journal.
LEMMA QuietFills ==
  ASSUME TypeInv, ContentsInv,
         \/ ReadOnlyRequest \/ AppReadOnlyRequest \/ AppInit \/ WindowExpires
         \/ WatchdogReset \/ PowerLoss
         \/ \E s \in Session : Activate(s)
         \/ \E sent \in BOOLEAN : SendReply(sent)
  PROVE  ContentsInv' /\ Carried /\ flash' = flash
<1>1. dev \in Dev /\ Quiet
  BY DEF TypeInv, TypeOK, ReadOnlyRequest, AppReadOnlyRequest, AppInit, WindowExpires,
         WatchdogReset, PowerLoss, Activate, SendReply
<1>2. /\ \A st : Answer(st).rec = dev.rec
      /\ \A st : AppAnswer(st).rec = dev.rec
      /\ \A st : [Answer(st) EXCEPT !.deferred = "reset"].rec = dev.rec
      /\ Off.rec = NoRecord /\ Jump.rec = NoRecord
  BY <1>1 DEF Dev, Answer, AppAnswer, Off, Jump
<1>3. dev'.rec \in {dev.rec, NoRecord}
  <2>1. CASE ReadOnlyRequest \/ AppReadOnlyRequest \/ WindowExpires \/ WatchdogReset
               \/ PowerLoss
    BY <1>2, <2>1
    DEF ReadOnlyRequest, AppReadOnlyRequest, WindowExpires, WatchdogReset, PowerLoss
  <2>2. CASE AppInit
    BY <1>1, <2>2 DEF AppInit, Dev
  <2>3. CASE \E s \in Session : Activate(s)
    BY <1>2, <2>3 DEF Activate
  <2>4. CASE \E sent \in BOOLEAN : SendReply(sent)
    BY <1>1, <1>2, <2>4 DEF SendReply, Dev
  <2> QED
    BY <2>1, <2>2, <2>3, <2>4
<1> QED
  BY <1>1, <1>3, StayFills DEF Quiet

\* ERASE, VERIFY and ABORT go on with the record in RAM.
LEMMA EraseFills ==
  ASSUME TypeInv, SafetyInv, ContentsInv, NEW s \in Session, Erase(s)
  PROVE  ContentsInv' /\ Carried /\ flash' = flash
<1> DEFINE p == WithState(dev.rec, "ERASING", 0)
           later(d) == [d EXCEPT !.deferred = "erase"]
<1>1. dev.at \in BootPlace /\ flash' = flash /\ dev \in Dev
  BY DEF Erase, Serving, BootPlace, TypeInv, TypeOK
<1>2. /\ \A st : Answer(st).rec = dev.rec
      /\ later(Answer("BUSY")).rec = dev.rec
      /\ \A q : later(Recorded(q, "BUSY")).rec = q
  BY <1>1 DEF Dev, Answer, Recorded
<1>3. CASE journal' = journal /\ \/ \E st : dev' = Answer(st)
                                 \/ dev' = later(Answer("BUSY"))
  <2>1. dev'.rec = dev.rec
    <3> HIDE DEF later
    <3> QED
      BY <1>2, <1>3
  <2> QED
    BY <1>1, <1>3, <2>1, StayFills
<1>4. CASE /\ EraseStatus(s) = "ACCEPT"
           /\ Append(p, later(Recorded(p, "BUSY")), Answer("FLASH_ERROR"))
  <2>1. dev.rec \in Payload
    BY <1>1, <1>4, RecordTypes DEF Dev, EraseStatus, OwnSession
  <2>2. p \in Payload /\ p.state = "ERASING" /\ SameUpdate(p, dev.rec)
    <3>1. "ERASING" \in BootState /\ 0 \in ErrorCode
      BY Written
    <3> QED
      BY <2>1, <3>1, UpdateTypes DEF SameUpdate
  <2> HIDE DEF p, later
  <2>3. Outcome(p, later(Recorded(p, "BUSY")), Answer("FLASH_ERROR"))
    BY <1>4, <2>2, AppendOutcome DEF TypeInv, TypeOK
  <2> QED
    BY <1>1, <1>2, <2>1, <2>2, <2>3, HandlerFills
<1> QED
  BY <1>1, <1>3, <1>4 DEF Erase

LEMMA VerifyFills ==
  ASSUME TypeInv, SafetyInv, ContentsInv, NEW s \in Session, Verify(s)
  PROVE  ContentsInv' /\ Carried /\ flash' = flash
<1> DEFINE p == WithState(dev.rec, "VERIFYING", 0)
           checking == [dev EXCEPT !.at = "service", !.pc = "verify"]
           found(r) == [checking EXCEPT !.rec = r]
<1>1. dev.at \in BootPlace /\ flash' = flash /\ dev \in Dev
  BY DEF Verify, Serving, BootPlace, TypeInv, TypeOK
<1>2. /\ \A st : Answer(st).rec = dev.rec
      /\ checking.rec = dev.rec /\ \A r : found(r).rec = r
  BY <1>1 DEF Dev, Answer
<1>3. CASE journal' = journal /\ \/ \E st : dev' = Answer(st)
                                 \/ dev' = checking
  <2>1. dev'.rec = dev.rec
    <3> HIDE DEF checking
    <3> QED
      BY <1>2, <1>3
  <2> QED
    BY <1>1, <1>3, <2>1, StayFills
<1>4. CASE /\ VerifyStatus(s) = "ACCEPT"
           /\ Append(p, found(p), Answer("FLASH_ERROR"))
  <2>1. dev.rec \in Payload
    BY <1>1, <1>4, RecordTypes DEF Dev, VerifyStatus, OwnSession
  <2>2. p \in Payload /\ p.state = "VERIFYING" /\ SameUpdate(p, dev.rec)
    <3>1. "VERIFYING" \in BootState /\ 0 \in ErrorCode
      BY Written
    <3> QED
      BY <2>1, <3>1, UpdateTypes DEF SameUpdate
  <2> HIDE DEF p, checking, found
  <2>3. Outcome(p, found(p), Answer("FLASH_ERROR"))
    BY <1>4, <2>2, AppendOutcome DEF TypeInv, TypeOK
  <2> QED
    BY <1>1, <1>2, <2>1, <2>2, <2>3, HandlerFills
<1> QED
  BY <1>1, <1>3, <1>4 DEF Verify

LEMMA AbortFills ==
  ASSUME TypeInv, SafetyInv, ContentsInv, NEW s \in Session, Abort(s)
  PROVE  ContentsInv' /\ Carried /\ flash' = flash
<1> DEFINE p == WithState(dev.rec, "FAILED", 0)
<1>1. dev.at \in BootPlace /\ flash' = flash /\ dev \in Dev
  BY DEF Abort, Serving, BootPlace, TypeInv, TypeOK
<1>2. CASE OwnSession(s)
  <2>1. p \in Payload /\ p.state = "FAILED" /\ SameUpdate(p, dev.rec) /\ dev.rec \in Payload
    <3>1. "FAILED" \in BootState /\ 0 \in ErrorCode /\ dev.rec \in Payload
      BY <1>1, <1>2, Written, RecordTypes DEF OwnSession, Dev
    <3> QED
      BY <3>1, UpdateTypes DEF SameUpdate
  <2>2. Append(p, Recorded(p, "OK"), Answer("FLASH_ERROR"))
    BY <1>2 DEF Abort
  <2> HIDE DEF p
  <2>3. Outcome(p, Recorded(p, "OK"), Answer("FLASH_ERROR"))
    BY <2>1, <2>2, AppendOutcome DEF TypeInv, TypeOK
  <2> QED
    BY <1>1, <2>1, <2>3, AnswerSafe, HandlerFills DEF ServiceFits
<1>3. CASE ~ OwnSession(s)
  <2>1. dev'.rec = dev.rec /\ journal' = journal
    BY <1>1, <1>3, AnswerSafe DEF Abort, ServiceFits
  <2> QED
    BY <1>1, <2>1, StayFills
<1> QED
  BY <1>2, <1>3

\* So does what the CRC check finds.
LEMMA CheckCrcFills ==
  ASSUME TypeInv, SafetyInv, ContentsInv, CheckCrc
  PROVE  ContentsInv' /\ Carried /\ flash' = flash
<1> DEFINE good == WithState(dev.rec, "PENDING_BOOT", 0)
           bad == WithState(dev.rec, "FAILED", VerifyFailedCode)
<1>1. dev.at \in BootPlace /\ flash' = flash /\ dev.rec \in Payload
  BY RecordTypes DEF CheckCrc, TypeInv, WellFormed, BootPlace, Dev
<1>2. /\ good \in Payload /\ good.state = "PENDING_BOOT" /\ SameUpdate(good, dev.rec)
      /\ bad \in Payload /\ bad.state = "FAILED" /\ SameUpdate(bad, dev.rec)
  <2>1. {"PENDING_BOOT", "FAILED"} \subseteq BootState
          /\ 0 \in ErrorCode /\ VerifyFailedCode \in ErrorCode
    BY Written
  <2> QED
    BY <1>1, <2>1, UpdateTypes DEF SameUpdate
<1>3. \/ Append(good, Recorded(good, "OK"), Answer("FLASH_ERROR"))
      \/ Append(bad, Recorded(bad, "VERIFY_FAILED"), Answer("VERIFY_FAILED"))
  BY DEF CheckCrc
<1> HIDE DEF good, bad
<1>4. \/ Outcome(good, Recorded(good, "OK"), Answer("FLASH_ERROR"))
      \/ Outcome(bad, Recorded(bad, "VERIFY_FAILED"), Answer("VERIFY_FAILED"))
  BY <1>2, <1>3, AppendOutcome DEF TypeInv, TypeOK
<1>5. \A r, st : Recorded(r, st).rec = r /\ Answer(st).rec = dev.rec
  BY <1>1, AnswerSafe DEF ServiceFits
<1> QED
  BY <1>1, <1>2, <1>4, <1>5, HandlerFills

\* The decision at reset goes on with the journal's record.
LEMMA BootFills ==
  ASSUME TypeInv, SafetyInv, ContentsInv, Boot
  PROVE  ContentsInv' /\ Carried /\ flash' = flash
<1>1. PICK ready \in BOOLEAN, valid \in VectorValid :
        LET rec == journal.latest
            allowed == valid /\ (rec = NoRecord \/ AllowsAppBoot(rec.state))
            loop == [Off EXCEPT !.rec = rec, !.at = IF ready THEN "service" ELSE "dead"]
        IN IF allowed /\ rec.state = "PENDING_BOOT" THEN CountedStart(loop)
           ELSE /\ dev' = IF ~ allowed THEN loop
                          ELSE IF ready THEN [loop EXCEPT !.at = "window"] ELSE Jump
                /\ UNCHANGED <<journal, faults, starts>>
  BY DEF Boot
<1> DEFINE rec == journal.latest
           place == IF ready THEN "service" ELSE "dead"
           loop == [Off EXCEPT !.rec = rec, !.at = place]
           with(r) == [loop EXCEPT !.rec = r]
           failed == WithState(rec, "FAILED", TimeoutCode)
           counted == WithState(rec, "PENDING_BOOT", rec.error + 1)
<1>2. flash' = flash /\ rec \in Payload \cup {NoRecord}
  BY DEF Boot, TypeInv, TypeOK, JournalOf
<1>3. loop.rec = rec /\ (\A r : with(r).rec = r) /\ Jump.rec = NoRecord
  BY DEF Off, Jump
<1>4. CASE rec.state = "PENDING_BOOT" /\ CountedStart(loop)
  <2>1. rec \in Payload /\ rec # NoRecord /\ Kin(rec, rec)
    BY <1>2, <1>4, RecordTypes DEF Kin, SameUpdate
  <2>2. \/ Append(failed, with(failed), loop)
        \/ Append(counted, Jump, loop) /\ rec.error < MaxAttempts
    <3>1. rec.error \in Int /\ MaxAttempts \in Int
      BY <2>1, DeviceAssumption DEF Payload, ErrorCode
    <3> QED
      BY <1>3, <1>4, <3>1 DEF CountedStart
  <2>3. failed \in Payload /\ failed.state = "FAILED" /\ SameUpdate(failed, rec)
    <3>1. "FAILED" \in BootState /\ TimeoutCode \in ErrorCode
      BY Written
    <3> QED
      BY <2>1, <3>1, UpdateTypes DEF SameUpdate
  <2>4. rec.error < MaxAttempts =>
          counted \in Payload /\ counted.state = "PENDING_BOOT" /\ SameUpdate(counted, rec)
    <3>1. "PENDING_BOOT" \in BootState /\ rec.error \in Nat
      BY <1>4, <2>1, Written, DeviceAssumption
      DEF SafetyInv, JournalSafe, StartsAreCounted, TypeInv, TypeOK, Payload, ErrorCode
    <3>2. rec.error < MaxAttempts => rec.error + 1 \in ErrorCode
      BY <3>1, DeviceAssumption DEF ErrorCode
    <3> QED
      BY <2>1, <3>1, <3>2, UpdateTypes DEF SameUpdate
  <2> HIDE DEF loop, with, failed, counted
  <2>5. ASSUME NEW p \in Payload, NEW done, Append(p, done, loop), SameUpdate(p, rec),
               p.state # "RECEIVING", done.rec \in {p, NoRecord}
        PROVE  ContentsInv' /\ Carried /\ flash' = flash
    <3>1. Outcome(p, done, loop)
      BY <2>5, AppendOutcome DEF TypeInv, TypeOK
    <3> QED
      BY <1>2, <1>3, <2>1, <2>5, <3>1, AppendFills
  <2> QED
    BY <1>3, <2>2, <2>3, <2>4, <2>5
<1>5. CASE UNCHANGED journal /\ dev' \in {loop, [loop EXCEPT !.at = "window"], Jump}
  <2>1. dev'.rec \in {rec, NoRecord}
    BY <1>3, <1>5 DEF Off
  <2> QED
    BY <1>2, <1>5, <2>1, StayFills
<1> QED
  BY <1>1, <1>4, <1>5

\* The confirmation too.
LEMMA ConfirmFills ==
  ASSUME TypeInv, ProgressInv, ContentsInv, Confirm
  PROVE  ContentsInv' /\ Carried /\ flash' = flash
<1> DEFINE p == WithState(journal.latest, "CONFIRMED", 0)
           at(place) == [dev EXCEPT !.at = place]
<1>1. dev.rec = NoRecord /\ flash' = flash
  BY DEF Confirm, AppPlace, ProgressInv, Bare
<1>2. \A place : at(place).rec = dev.rec
  BY DEF TypeInv, TypeOK, Dev
<1>3. CASE /\ Compatible(journal.latest)
           /\ Append(p, at("running"), at("blocked"))
  <2>1. journal.latest \in Payload /\ journal.latest # NoRecord
    BY <1>3, RecordTypes DEF Compatible, TypeInv, TypeOK, JournalOf
  <2>2. p \in Payload /\ p.state = "CONFIRMED" /\ SameUpdate(p, journal.latest)
    <3>1. "CONFIRMED" \in BootState /\ 0 \in ErrorCode
      BY Written
    <3> QED
      BY <2>1, <3>1, UpdateTypes DEF SameUpdate
  <2> HIDE DEF p, at
  <2>3. Outcome(p, at("running"), at("blocked"))
    BY <1>3, <2>2, AppendOutcome DEF TypeInv, TypeOK
  <2>4. Kin(journal.latest, journal.latest)
    BY DEF Kin, SameUpdate
  <2> QED
    BY <1>1, <1>2, <2>1, <2>2, <2>3, <2>4, AppendFills
<1>4. CASE UNCHANGED journal /\ dev' = at("blocked")
  BY <1>1, <1>2, <1>4, StayFills
<1> QED
  BY <1>3, <1>4 DEF Confirm

\* START and ENTER_BOOT may begin a session; what is counted stays what it is.
LEMMA RequestedFills ==
  ASSUME TypeInv, ContentsInv, flash' = flash,
         NEW p \in Payload, p.state = "UPDATE_REQUESTED",
         NEW done, NEW failed, Outcome(p, done, failed),
         done.rec \in {p, NoRecord}, failed.rec = dev.rec
  PROVE  ContentsInv'
<1>1. Off.rec = NoRecord /\ NoRecord.state = "NONE"
  BY DEF Off, NoRecord
<1>2. \A r : Kin(r, p) /\ Kin(NoRecord, r) /\ Kin(r, NoRecord)
  BY DEF Kin
<1>3. \A f : Filled(f, p) /\ Filled(f, NoRecord)
  BY <1>1 DEF Filled
<1>4. CASE dev' = done /\ journal'.latest = p
  BY <1>2, <1>3, <1>4 DEF ContentsInv
<1>5. CASE dev' \in {failed, Off} /\ journal'.latest \in {journal.latest, p, NoRecord}
  <2>1. dev'.rec \in {dev.rec, NoRecord}
    BY <1>1, <1>5
  <2> QED
    BY <1>2, <1>3, <1>5, <2>1 DEF ContentsInv
<1> QED
  BY <1>4, <1>5 DEF Outcome

LEMMA StartFills ==
  ASSUME TypeInv, SafetyInv, ContentsInv, NEW s \in Session, NEW m \in Manifest,
         Start(s, m)
  PROVE  ContentsInv' /\ flash' = flash
<1> DEFINE p == NewRecord("UPDATE_REQUESTED", s, m)
<1>1. dev.at \in BootPlace /\ flash' = flash
  BY DEF Start, Serving, BootPlace
<1>2. \A r, st : Recorded(r, st).rec = r /\ Answer(st).rec = dev.rec
  BY <1>1, AnswerSafe DEF ServiceFits
<1>3. CASE StartStatus(s, m) # "ACCEPT"
  BY <1>1, <1>2, <1>3, StayFills DEF Start
<1>4. CASE StartStatus(s, m) = "ACCEPT"
  <2>1. p \in Payload /\ p.state = "UPDATE_REQUESTED"
    BY RecordTypes, Written DEF NewRecord
  <2>2. Outcome(p, Recorded(p, "OK"), Answer("FLASH_ERROR"))
    BY <1>4, <2>1, ReserveOutcome DEF Start, TypeInv, TypeOK
  <2> HIDE DEF p
  <2> QED
    BY <1>1, <1>2, <2>1, <2>2, RequestedFills
<1> QED
  BY <1>3, <1>4

LEMMA EnterBootFills ==
  ASSUME TypeInv, ProgressInv, ContentsInv, NEW s \in Session \cup {0}, AppEnterBoot(s)
  PROVE  ContentsInv' /\ flash' = flash
<1> DEFINE p == NewRecord("UPDATE_REQUESTED", s, NoManifest)
           reset == [AppAnswer("OK") EXCEPT !.deferred = "reset"]
<1>1. dev.rec = NoRecord /\ flash' = flash
  BY DEF AppEnterBoot, AppServing, AppPlace, ProgressInv, Bare
<1>2. p \in Payload /\ p.state = "UPDATE_REQUESTED"
  BY RecordTypes, Written DEF NewRecord
<1>3. reset.rec = dev.rec /\ AppAnswer("FLASH_ERROR").rec = dev.rec
  BY DEF TypeInv, TypeOK, Dev, AppAnswer
<1>4. ReserveAndAppend(Reserve(Units), p, reset, AppAnswer("FLASH_ERROR"))
  BY DEF AppEnterBoot
<1> HIDE DEF p, reset
<1>5. Outcome(p, reset, AppAnswer("FLASH_ERROR"))
  BY <1>2, <1>4, ReserveOutcome DEF TypeInv, TypeOK
<1> QED
  BY <1>1, <1>2, <1>3, <1>5, RequestedFills

\* The deferred erase takes back no data that are counted.
LEMMA EraseAppFills ==
  ASSUME TypeInv, SafetyInv, ProgressInv, ContentsInv, EraseApp
  PROVE  ContentsInv' /\ Carried
<1> DEFINE size == SizeOf(dev.rec.manifest)
           idle == [dev EXCEPT !.pc = "idle"]
           zero == [dev.rec EXCEPT !.received = 0]
           ready == WithState(zero, "RECEIVING", 0)
           bad == WithState(dev.rec, "FAILED", FlashErrorCode)
           with(r) == [idle EXCEPT !.rec = r]
<1>1. /\ dev \in Dev /\ dev.at \in BootPlace
      /\ dev.rec \in Payload /\ dev.rec.state = "ERASING" /\ dev.rec.received = 0
  BY RecordTypes DEF EraseApp, TypeInv, WellFormed, TypeOK, Dev, BootPlace,
                     ProgressInv, Sound, Begun
<1>2. zero = dev.rec
  BY <1>1 DEF Payload
<1>3. /\ ready \in Payload /\ ready.state = "RECEIVING" /\ ready.received = 0
      /\ SameUpdate(ready, dev.rec)
      /\ bad \in Payload /\ bad.state = "FAILED" /\ SameUpdate(bad, dev.rec)
  <2>1. {"RECEIVING", "FAILED"} \subseteq BootState
          /\ 0 \in ErrorCode /\ FlashErrorCode \in ErrorCode
    BY Written
  <2> HIDE DEF zero
  <2> QED
    BY <1>1, <1>2, <2>1, UpdateTypes DEF SameUpdate
<1>4. idle.rec = dev.rec /\ (\A r : with(r).rec = r) /\ Off.rec = NoRecord
  BY <1>1 DEF Dev, Off
<1>5. /\ journal.latest.state \in {"ERASING", "RECEIVING", "FAILED"}
      /\ journal.latest.state = "RECEIVING" => journal.latest.received = 0
  BY <1>1 DEF SafetyInv, Fits, Ahead, ProgressInv, Behind
<1>6. /\ journal.latest # NoRecord /\ dev.rec # NoRecord
      /\ SameUpdate(dev.rec, journal.latest)
  BY <1>1, <1>5, RecordTypes DEF ContentsInv, Kin
<1>7. \/ Outcome(ready, with(ready), with(dev.rec))
      \/ Outcome(bad, with(bad), idle)
      \/ dev' = Off /\ UNCHANGED journal
  <2>1. \/ Append(ready, with(ready), with(zero))
        \/ Append(bad, with(bad), idle)
        \/ dev' = Off /\ UNCHANGED journal
    BY DEF EraseApp
  <2> HIDE DEF idle, zero, ready, bad, with
  <2> QED
    BY <1>2, <1>3, <2>1, AppendOutcome DEF TypeInv, TypeOK
<1> HIDE DEF size, idle, zero, ready, bad, with
<1>8. /\ dev'.rec \in {ready, bad, dev.rec, NoRecord}
      /\ journal'.latest \in {ready, bad, journal.latest, NoRecord}
      /\ dev'.rec = ready => journal'.latest = ready
      /\ dev'.rec = bad => journal'.latest = bad
  <2>1. ready # NoRecord /\ bad # NoRecord /\ ready # dev.rec /\ bad # dev.rec
    BY <1>1, <1>3, RecordTypes
  <2> QED
    BY <1>3, <1>4, <1>7, <2>1 DEF Outcome
<1>9. \A r \in {ready, bad, dev.rec, journal.latest, NoRecord} :
        r.state = "RECEIVING" => r.received = 0
  BY <1>1, <1>3, <1>5, RecordTypes
<1>10. Filled(flash', dev'.rec) /\ Filled(flash', journal'.latest)
  <2>1. \A r : (r.state = "RECEIVING" => r.received = 0) => \A f : Filled(f, r)
    BY DEF Filled
  <2> QED
    BY <1>8, <1>9, <2>1
<1>11. \A r, q \in {ready, bad, dev.rec, journal.latest} : SameUpdate(r, q)
  BY <1>3, <1>6 DEF SameUpdate
<1>12. Kin(dev'.rec, journal'.latest) /\ Carried
  BY <1>6, <1>8, <1>11 DEF Kin, Carried, Stems
<1> QED
  BY <1>10, <1>12 DEF ContentsInv

\* Programming a chunk, whole or cut short, changes no unit that has data.
LEMMA WriteSpares ==
  ASSUME TypeOK, NEW off \in Unit, NEW len \in Nat, NEW i \in Image,
         \/ flash' = flash
         \/ flash' = AfterWrite(off, len, i) /\ Matches(off, len, i)
         \/ RangeIsErased(off, len)
              /\ flash' \in WriteCut(off, len, i) \cup {AfterWrite(off, len, i)}
  PROVE  \A u \in Unit : flash[u] \in Image => flash'[u] = flash[u]
<1> SUFFICES ASSUME NEW u \in Unit, flash[u] \in Image  PROVE  flash'[u] = flash[u]
  OBVIOUS
<1>1. CASE flash' = AfterWrite(off, len, i) /\ Matches(off, len, i)
  BY <1>1 DEF AfterWrite, Matches
<1>2. CASE RangeIsErased(off, len)
  <2>1. u \notin Chunk(off, len)
    BY <1>2, DeviceAssumption DEF RangeIsErased
  <2>2. CASE flash' = AfterWrite(off, len, i)
    BY <2>1, <2>2 DEF AfterWrite
  <2>3. CASE \E n \in Chunk(off, len), half \in BOOLEAN :
               flash' = [v \in Unit |-> IF off <= v /\ v < n THEN i
                                        ELSE IF v = n /\ half THEN Partial
                                        ELSE flash[v]]
    <3>1. PICK n \in Chunk(off, len), half \in BOOLEAN :
            flash' = [v \in Unit |-> IF off <= v /\ v < n THEN i
                                     ELSE IF v = n /\ half THEN Partial
                                     ELSE flash[v]]
      BY <2>3
    <3>2. ~ (off <= u /\ u < n) /\ u # n
      BY <2>1, <3>1, DeviceAssumption DEF Chunk, Unit, Positive
    <3> QED
      BY <3>1, <3>2
  <2>4. CASE flash' = flash
    BY <2>4
  <2> QED
    BY <1>2, <2>2, <2>3, <2>4 DEF WriteCut, AfterWrite
<1> QED
  BY <1>1, <1>2

\* DATA goes on with the session, spoils nothing, and speaks of data received only
\* to the session that is receiving.
LEMMA DataCarries ==
  ASSUME TypeInv, SafetyInv, ContentsInv, NEW s \in Session, NEW off \in Unit,
         NEW len \in 1 .. MaxChunk, NEW i \in Image, Data(s, off, len, i)
  PROVE  /\ Kin(dev'.rec, journal'.latest) /\ Carried
         /\ \A u \in Unit : flash[u] \in Image => flash'[u] = flash[u]
         /\ dev'.status \in {"OK", "BAD_OFFSET"} =>
              dev'.rec.state = "RECEIVING" /\ dev'.rec.session = s
         /\ \/ journal'.latest = journal.latest /\ dev'.rec \in {dev.rec, NoRecord}
            \/ /\ dev.rec.session = s /\ dev.rec.state = "RECEIVING"
               /\ off = dev.rec.received /\ flash' = AfterWrite(off, len, i)
               /\ \A r \in {journal'.latest, dev'.rec} :
                    \/ r \in {journal.latest, dev.rec, NoRecord}
                    \/ r.received = off + len /\ r.manifest = dev.rec.manifest
<1> DEFINE new == [dev.rec EXCEPT !.received = off + len]
           p == WithState(new, "RECEIVING", 0)
           status == DataStatus(s, off, len, i)
<1>1. dev.at \in BootPlace /\ dev \in Dev /\ Kin(dev.rec, journal.latest)
  BY DEF Data, Serving, BootPlace, TypeInv, TypeOK, ContentsInv
<1>2. \A st : Answer(st).rec = dev.rec /\ Answer(st).status = st
  BY <1>1 DEF Dev, Answer
<1>3. Off.rec = NoRecord /\ Off.status = "NONE" /\ \A l : Kin(NoRecord, l)
  BY DEF Off, Kin
<1>4. Stems(dev.rec) /\ Stems(journal.latest) /\ Stems(NoRecord)
  BY DEF Stems, SameUpdate
<1>5. CASE status # "NEW"
  <2>1. dev' = Answer(status) /\ UNCHANGED <<journal, flash>>
    BY <1>5 DEF Data
  <2>2. status \in {"OK", "BAD_OFFSET"} =>
          dev.rec.state = "RECEIVING" /\ dev.rec.session = s
    BY DEF DataStatus, OwnSession
  <2> HIDE DEF status
  <2>3. dev'.rec = dev.rec /\ dev'.status = status
    BY <1>2, <2>1
  <2> QED
    BY <1>1, <1>4, <2>1, <2>2, <2>3 DEF Carried
<1>6. CASE status = "NEW"
  <2>1. /\ dev.rec \in Payload /\ dev.rec.state = "RECEIVING" /\ off = dev.rec.received
        /\ off + len \in 0 .. Units
        /\ RangeIsErased(off, len) \/ Matches(off, len, i)
        /\ dev.rec.session = s
    BY <1>6, NewChunk, SizeTypes, DeviceAssumption
    DEF Payload, Positive, DataStatus, OwnSession
  <2>2. /\ new \in Payload /\ new.state = "RECEIVING"
        /\ new.received = off + len /\ new.manifest = dev.rec.manifest
        /\ SameUpdate(new, dev.rec)
    BY <2>1 DEF Payload, SameUpdate
  <2>3. /\ p \in Payload /\ p.state = "RECEIVING" /\ p.received = off + len
        /\ p.manifest = dev.rec.manifest /\ SameUpdate(p, dev.rec)
    <3>1. "RECEIVING" \in BootState /\ 0 \in ErrorCode
      BY Written
    <3> HIDE DEF new
    <3> QED
      BY <2>2, <3>1, UpdateTypes, ZenonT(40) DEF SameUpdate
  <2>4. /\ \/ flash' = AfterWrite(off, len, i)
           \/ RangeIsErased(off, len) /\ flash' \in WriteCut(off, len, i)
        /\ \/ flash' = AfterWrite(off, len, i)
                /\ Append(p, Recorded(p, "OK"), Answer("FLASH_ERROR"))
           \/ flash' = AfterWrite(off, len, i) /\ UNCHANGED journal
                /\ dev' = [Answer("OK") EXCEPT !.rec.received = off + len]
           \/ dev' \in {Answer("FLASH_ERROR"), Off} /\ UNCHANGED journal
    BY <1>6 DEF Data, AdvanceTo
  <2>5. \A u \in Unit : flash[u] \in Image => flash'[u] = flash[u]
    BY <2>1, <2>4, WriteSpares DEF TypeInv
  <2>6. Stems(new) /\ Stems(p) /\ dev.rec # NoRecord /\ p # NoRecord /\ new # NoRecord
    BY <2>1, <2>2, <2>3, RecordTypes DEF Stems
  <2>7. \A l : Kin(dev.rec, l) => Kin(new, l) /\ Kin(p, l)
    BY <2>2, <2>3, <2>6 DEF Kin, SameUpdate
  <2>8. Kin(p, p) /\ Kin(dev.rec, p)
    BY <2>3 DEF Kin, SameUpdate
  <2>9. [Answer("OK") EXCEPT !.rec.received = off + len].rec = new
    BY <1>1 DEF Dev, Answer
  <2>10. \A st : Recorded(p, st).rec = p
    BY <1>1, AnswerSafe DEF ServiceFits
  <2> HIDE DEF new, p, status
  <2>11. CASE /\ flash' = AfterWrite(off, len, i)
              /\ Append(p, Recorded(p, "OK"), Answer("FLASH_ERROR"))
    <3>1. Outcome(p, Recorded(p, "OK"), Answer("FLASH_ERROR"))
      BY <2>3, <2>11, AppendOutcome DEF TypeInv, TypeOK
    <3>2. ~ SafeToCompact(journal.latest.state)
      BY <1>1, <2>1, AnswerSafe DEF Ahead, SafeToCompact
    <3>3. \/ dev' = Recorded(p, "OK") /\ journal'.latest = p
          \/ dev' \in {Answer("FLASH_ERROR"), Off} /\ journal'.latest \in {journal.latest, p}
      BY <3>1, <3>2 DEF Outcome
    <3>4. /\ dev'.rec \in {p, dev.rec, NoRecord} /\ journal'.latest \in {journal.latest, p}
          /\ dev'.rec = p => journal'.latest = p \/ p = dev.rec
          /\ dev'.status \in {"OK", "BAD_OFFSET"} => dev'.rec = p
      BY <1>2, <1>3, <2>6, <2>10, <3>3
    <3> QED
      BY <1>1, <1>3, <1>4, <2>1, <2>3, <2>5, <2>6, <2>7, <2>8, <2>11, <3>4
      DEF Carried, SameUpdate
  <2>12. CASE /\ flash' = AfterWrite(off, len, i) /\ UNCHANGED journal
              /\ dev' = [Answer("OK") EXCEPT !.rec.received = off + len]
    <3>1. dev'.rec = new
      BY <2>9, <2>12
    <3> QED
      BY <1>1, <1>4, <2>1, <2>2, <2>5, <2>6, <2>7, <2>12, <3>1 DEF Carried, SameUpdate
  <2>13. CASE dev' \in {Answer("FLASH_ERROR"), Off} /\ UNCHANGED journal
    <3>1. dev'.rec \in {dev.rec, NoRecord} /\ dev'.status \notin {"OK", "BAD_OFFSET"}
      BY <1>2, <1>3, <2>13
    <3> QED
      BY <1>1, <1>3, <1>4, <2>5, <2>13, <3>1 DEF Carried
  <2> QED
    BY <2>4, <2>11, <2>12, <2>13
<1> QED
  BY <1>5, <1>6

\* Data that are counted stay, while no unit that has data changes.
LEMMA SparedStaysFilled ==
  ASSUME \A u \in Unit : flash[u] \in Image => flash'[u] = flash[u],
         NEW r \in Payload \cup {NoRecord}, Announced(r), Filled(flash, r)
  PROVE  Filled(flash', r)
<1> SUFFICES ASSUME r.state = "RECEIVING", NEW u \in 0 .. (r.received - 1)
             PROVE  flash'[u] = r.manifest.image
  BY DEF Filled
<1>1. r \in Payload /\ r.manifest.image \in Image
  BY RecordTypes, SizeTypes DEF Announced
<1>2. u \in Unit
  BY <1>1, DeviceAssumption DEF Payload, Unit, Positive
<1> QED
  BY <1>1, <1>2 DEF Filled

\* DATA of the image its session is for keeps the invariant.
LEMMA DataFills ==
  ASSUME TypeInv, SafetyInv, ContentsInv, NEW s \in Session, NEW off \in Unit,
         NEW len \in 1 .. MaxChunk, NEW i \in Image, Data(s, off, len, i),
         dev.rec # NoRecord /\ dev.rec.session = s => dev.rec.manifest.image = i
  PROVE  ContentsInv'
<1>1. /\ Kin(dev'.rec, journal'.latest)
      /\ \A u \in Unit : flash[u] \in Image => flash'[u] = flash[u]
  BY DataCarries
<1>2. /\ \A r \in {dev.rec, journal.latest} :
           r \in Payload \cup {NoRecord} /\ Announced(r) /\ Filled(flash, r)
      /\ \A f : Filled(f, NoRecord)
  BY RecordTypes
  DEF TypeInv, TypeOK, JournalOf, Dev, SafetyInv, JournalSafe, Fits, ContentsInv, Filled
<1>3. \A r \in {dev.rec, journal.latest, NoRecord} : Filled(flash', r)
  BY <1>1, <1>2, SparedStaysFilled
<1>4. CASE journal'.latest = journal.latest /\ dev'.rec \in {dev.rec, NoRecord}
  BY <1>1, <1>3, <1>4 DEF ContentsInv
<1>5. CASE /\ dev.rec.session = s /\ dev.rec.state = "RECEIVING"
           /\ off = dev.rec.received /\ flash' = AfterWrite(off, len, i)
           /\ \A r \in {journal'.latest, dev'.rec} :
                \/ r \in {journal.latest, dev.rec, NoRecord}
                \/ r.received = off + len /\ r.manifest = dev.rec.manifest
  <2>1. dev.rec # NoRecord /\ dev.rec.manifest.image = i /\ Filled(flash', dev.rec)
    BY <1>3, <1>5, RecordTypes
  <2>2. \A u \in 0 .. (off + len - 1) : u \in Unit => flash'[u] = i
    <3>1. ASSUME NEW u \in 0 .. (off + len - 1), u \in Unit  PROVE  flash'[u] = i
      <4>1. CASE u \in Chunk(off, len)
        BY <1>5, <3>1, <4>1 DEF AfterWrite
      <4>2. CASE u \notin Chunk(off, len)
        <5>1. u \in 0 .. (dev.rec.received - 1)
          BY <1>5, <3>1, <4>2, DeviceAssumption DEF Chunk, Unit, Positive
        <5> QED
          BY <1>5, <2>1, <5>1 DEF Filled
      <4> QED
        BY <4>1, <4>2
    <3> QED
      BY <3>1
  <2>3. \A r \in {journal'.latest, dev'.rec} : r \in Payload \cup {NoRecord}
    BY DataTypes DEF TypeInv, TypeOK, JournalOf, Dev
  <2>4. ASSUME NEW r \in {journal'.latest, dev'.rec},
               r.received = off + len, r.manifest = dev.rec.manifest
        PROVE  Filled(flash', r)
    <3> SUFFICES ASSUME r.state = "RECEIVING"  PROVE  Filled(flash', r)
      BY DEF Filled
    <3>1. r \in Payload /\ r.received \in Int
      BY <2>3, RecordTypes, DeviceAssumption DEF Payload, Positive
    <3>2. r.received = off + len /\ off \in Int /\ len \in Int
      BY <2>4, DeviceAssumption DEF Unit, Positive
    <3>3. ASSUME NEW u \in 0 .. (r.received - 1)  PROVE  flash'[u] = r.manifest.image
      <4>1. u \in Unit
        BY <3>1, <3>3, DeviceAssumption DEF Payload, Unit, Positive
      <4>2. u \in 0 .. (off + len - 1)
        BY <3>1, <3>2, <3>3
      <4> QED
        BY <2>1, <2>2, <2>4, <4>1, <4>2
    <3> QED
      BY <3>3 DEF Filled
  <2>5. \A r \in {journal'.latest, dev'.rec} : Filled(flash', r)
    BY <1>3, <1>5, <2>4
  <2> QED
    BY <1>1, <2>5 DEF ContentsInv
<1> QED
  BY <1>4, <1>5, DataCarries

\* The steps that begin no session and are not DATA.
LEMMA OtherFills ==
  ASSUME TypeInv, SafetyInv, ProgressInv, ContentsInv,
         \/ ReadOnlyRequest \/ AppReadOnlyRequest \/ AppInit \/ WindowExpires
         \/ WatchdogReset \/ PowerLoss \/ CheckCrc \/ Boot \/ Confirm
         \/ \E s \in Session : Erase(s) \/ Verify(s) \/ Activate(s) \/ Abort(s)
         \/ \E sent \in BOOLEAN : SendReply(sent)
  PROVE  ContentsInv' /\ Carried /\ flash' = flash
<1>1. CASE CheckCrc \/ Boot \/ Confirm
  BY <1>1, CheckCrcFills, BootFills, ConfirmFills
<1>2. CASE \E s \in Session : Erase(s) \/ Verify(s) \/ Abort(s)
  BY <1>2, EraseFills, VerifyFills, AbortFills
<1> QED
  BY <1>1, <1>2, QuietFills

\* Nothing is counted at the start.
LEMMA ContentsInit == Init => ContentsInv
<1> SUFFICES ASSUME Init PROVE ContentsInv
  OBVIOUS
<1>1. dev.rec = NoRecord /\ journal.latest = NoRecord
  BY DEF Init, Off, EmptyJournal
<1> QED
  BY <1>1 DEF ContentsInv, Kin, Filled, NoRecord
-----------------------------------------------------------------------------
(***************************************************************************)
(* What a client that sees an image confirmed may rely on: once nobody     *)
(* asks anything of the device but to report, the record stays.            *)
(***************************************************************************)
\* A bootloader that reports a confirmed image reports what the journal says.
Reports == dev.at \in BootPlace /\ dev.rec.state = "CONFIRMED" => journal.latest = dev.rec

LEMMA ReportsStay ==
  ASSUME TypeInv, Reports,
         \/ ReadOnlyRequest \/ AppReadOnlyRequest \/ AppInit \/ WindowExpires
         \/ WatchdogReset \/ PowerLoss \/ Boot \/ Confirm
         \/ \E sent \in BOOLEAN : SendReply(sent)
  PROVE  /\ Reports'
         /\ journal.latest.state = "CONFIRMED" => journal'.latest = journal.latest
<1>1. dev \in Dev /\ BootPlace \cap AppPlace = {} /\ "off" \notin BootPlace
  BY DEF TypeInv, TypeOK, BootPlace, AppPlace
<1>2. /\ Off.at = "off" /\ Off.rec = NoRecord /\ Jump.at = "entry"
      /\ \A st : Answer(st).rec = dev.rec
      /\ \A st : AppAnswer(st).at = dev.at
      /\ NoRecord.state = "NONE" /\ "entry" \in AppPlace
  BY <1>1 DEF Off, Jump, Answer, AppAnswer, Dev, NoRecord, AppPlace
<1>3. CASE UNCHANGED journal /\ (dev'.at \in BootPlace =>
                                   dev'.rec = dev.rec /\ dev.at \in BootPlace)
  BY <1>3 DEF Reports
<1>4. CASE ReadOnlyRequest \/ AppReadOnlyRequest \/ WindowExpires \/ WatchdogReset
             \/ PowerLoss
  <2>1. UNCHANGED journal
    BY <1>4
    DEF ReadOnlyRequest, AppReadOnlyRequest, WindowExpires, WatchdogReset, PowerLoss, Quiet
  <2>2. CASE ReadOnlyRequest
    BY <1>2, <1>3, <2>1, <2>2 DEF ReadOnlyRequest, Serving, BootPlace
  <2>3. CASE AppReadOnlyRequest
    BY <1>1, <1>2, <1>3, <2>1, <2>3 DEF AppReadOnlyRequest, AppServing, AppPlace
  <2>4. CASE WindowExpires \/ WatchdogReset \/ PowerLoss
    BY <1>1, <1>2, <1>3, <2>1, <2>4 DEF WindowExpires, WatchdogReset, PowerLoss
  <2> QED
    BY <1>4, <2>2, <2>3, <2>4
<1>5. CASE AppInit
  <2>1. UNCHANGED journal /\ dev'.at \in AppPlace
    BY <1>1, <1>5 DEF AppInit, Quiet, AppPlace, Dev
  <2> QED
    BY <1>1, <1>3, <2>1
<1>6. CASE \E sent \in BOOLEAN : SendReply(sent)
  <2>1. UNCHANGED journal /\ (dev' = Off \/ (dev'.at = dev.at /\ dev'.rec = dev.rec))
    BY <1>1, <1>6 DEF SendReply, Quiet, Dev
  <2> QED
    BY <1>1, <1>2, <1>3, <2>1
<1>7. CASE Boot
  <2>1. PICK ready \in BOOLEAN, valid \in VectorValid :
          LET rec == journal.latest
              allowed == valid /\ (rec = NoRecord \/ AllowsAppBoot(rec.state))
              loop == [Off EXCEPT !.rec = rec, !.at = IF ready THEN "service" ELSE "dead"]
          IN IF allowed /\ rec.state = "PENDING_BOOT" THEN CountedStart(loop)
             ELSE /\ dev' = IF ~ allowed THEN loop
                            ELSE IF ready THEN [loop EXCEPT !.at = "window"] ELSE Jump
                  /\ UNCHANGED <<journal, faults, starts>>
    BY <1>7 DEF Boot
  <2> DEFINE rec == journal.latest
             place == IF ready THEN "service" ELSE "dead"
             loop == [Off EXCEPT !.rec = rec, !.at = place]
             with(r) == [loop EXCEPT !.rec = r]
             failed == WithState(rec, "FAILED", TimeoutCode)
             counted == WithState(rec, "PENDING_BOOT", rec.error + 1)
  <2>2. rec \in Payload \cup {NoRecord} /\ loop.rec = rec /\ (\A r : with(r).rec = r)
    BY DEF TypeInv, TypeOK, JournalOf, Off
  <2>3. CASE rec.state = "PENDING_BOOT" /\ CountedStart(loop)
    <3>1. failed.state = "FAILED"
      BY <1>2, <2>2, <2>3 DEF WithState, Payload
    <3>2. dev' \in {with(failed), loop, Jump, Off}
      BY <2>2, <2>3 DEF CountedStart, Append
    <3>3. dev'.at \in BootPlace => dev'.rec.state # "CONFIRMED"
      <4> HIDE DEF loop, with, failed
      <4> QED
        BY <1>1, <1>2, <2>2, <2>3, <3>1, <3>2
    <3> QED
      BY <2>3, <3>3 DEF Reports
  <2>4. CASE UNCHANGED journal /\ dev' \in {loop, [loop EXCEPT !.at = "window"], Jump}
    <3>1. dev'.rec = journal.latest \/ dev' = Jump
      BY <2>2, <2>4 DEF Off
    <3> QED
      BY <1>1, <1>2, <2>4, <3>1 DEF Reports
  <2> QED
    BY <2>1, <2>3, <2>4
<1>8. CASE Confirm
  <2>1. dev.at \notin BootPlace /\ \A place : [dev EXCEPT !.at = place].at = place
    BY <1>1, <1>8 DEF Confirm, BootPlace, Dev
  <2>2. dev' = Off \/ \E place \in AppPlace : dev' = [dev EXCEPT !.at = place]
    BY <1>8 DEF Confirm, Append, AppPlace
  <2>3. dev'.at \notin BootPlace
    BY <1>1, <1>2, <2>1, <2>2
  <2>4. journal.latest.state = "PENDING_BOOT" \/ UNCHANGED journal
    BY <1>8 DEF Confirm, Compatible
  <2> QED
    BY <2>3, <2>4 DEF Reports
<1> QED
  BY <1>4, <1>5, <1>6, <1>7, <1>8
=============================================================================
