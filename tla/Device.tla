------------------------------- MODULE Device -------------------------------
(***************************************************************************)
(* The STM32: bootloader (boot_upgrade.c, main.c, flash_if.c) and          *)
(* application (app_upgrade.c) sharing the journal in sector 4 and the     *)
(* application flash.  Both programs are one loop, so a handler is cut     *)
(* short only by an error of the flash or by the loss of power; whoever is *)
(* at the other end of the UART may send any request at any time.          *)
(*                                                                         *)
(* The application flash is counted in units; a unit is the data of one    *)
(* chunk of the smallest size a client sends.                              *)
(***************************************************************************)
EXTENDS Journal

CONSTANTS
  Image,                 \* contents the application flash may be given
  Size, Version,         \* of each image: its units, its compiled-in version
  Factory,               \* images a board may leave the factory with
  Manifest,              \* [image, version] a START may announce
  Session,               \* session identifiers other than 0
  Units, SectorUnits,    \* application flash, erase granularity
  MaxChunk,              \* most units in one DATA
  Checkpoint,            \* UPGRADE_METADATA_CHECKPOINT_SIZE
  Overhead,              \* BOOT_UPGRADE_STATE_RECORD_OVERHEAD, 8
  MaxAttempts,           \* UPGRADE_PENDING_BOOT_MAX_ATTEMPTS, 3
  MaxFaults,             \* bound: flash operations that are cut short
  Erased, Partial        \* unit contents: all ones; neither erased nor whole

Positive == Nat \ {0}

ASSUME DeviceAssumption ==
  /\ Size \in [Image -> 1 .. Units] /\ Version \in [Image -> Positive]
  /\ Factory \subseteq Image
  /\ Manifest \subseteq [image : Image, version : Positive]
  /\ Session \subseteq Positive
  /\ Units \in Positive /\ SectorUnits \in Positive /\ MaxChunk \in Positive
  /\ Checkpoint \in Positive /\ Overhead \in Nat
  /\ MaxAttempts \in Nat /\ MaxFaults \in Nat
  /\ Erased \notin Image /\ Partial \notin Image /\ Erased # Partial

Unit == 0 .. (Units - 1)

\* The manifest fields of a record nobody sent a START for are zero.
NoManifest == [image |-> Erased, version |-> 0]

SizeOf(m) == IF m = NoManifest THEN 0 ELSE Size[m.image]

ErrorCode == (0 .. MaxAttempts) \cup {10, 11, 13}
FlashErrorCode == 10        \* UPG_STATUS_FLASH_ERROR
VerifyFailedCode == 11      \* UPG_STATUS_VERIFY_FAILED
TimeoutCode == 13           \* UPG_STATUS_TIMEOUT

\* error_code counts the starts of the image while the state is PENDING_BOOT.
Payload == [state : BootState, session : Session \cup {0},
            manifest : Manifest \cup {NoManifest}, received : 0 .. Units,
            error : ErrorCode]

\* boot_metadata_record_init
NewRecord(state, s, m) == [state |-> state, session |-> s, manifest |-> m,
                           received |-> 0, error |-> 0]

\* The record boot_upgrade_append_state writes when it has one.
WithState(r, state, error) == [r EXCEPT !.state = state, !.error = error]

VARIABLES
  journal,               \* sector 4, as Journal sees it
  flash,                 \* the application sectors
  dev,                   \* the RAM of whichever program runs
  faults,                \* flash operations cut short so far
  starts                 \* observer: jumps to the image since it was verified

vars == <<journal, flash, dev, faults, starts>>

\* "entry" is a jump to the application before app_upgrade_init; "dead" is the
\* bootloader's loop with no working UART; "blocked" is APP_CONFIRM_BLOCKED.
BootPlace == {"window", "service", "dead"}
AppPlace == {"entry", "running", "waiting", "blocked"}

Dev == [at : BootPlace \cup AppPlace \cup {"off"},
        rec : Payload \cup {NoRecord},
        pc : {"idle", "reply", "erase", "verify"},
        deferred : {"none", "erase", "reset"},
        status : {"NONE", "OK", "BUSY", "BAD_FRAME", "BAD_SESSION", "BAD_OFFSET",
                  "BAD_IMAGE_SIZE", "FLASH_ERROR", "VERIFY_FAILED"}]

Off == [at |-> "off", rec |-> NoRecord, pc |-> "idle", deferred |-> "none",
        status |-> "NONE"]

InApp == dev.at \in AppPlace

\* The flash holds image i from its first unit to its last.
Holds(i) == \A u \in 0 .. (Size[i] - 1) : flash[u] = i

Init ==
  /\ journal = EmptyJournal
  /\ flash \in {[u \in Unit |-> Erased]}
       \cup {[u \in Unit |-> IF u < Size[i] THEN i ELSE Erased] : i \in Factory}
  /\ dev = Off
  /\ faults = 0
  /\ starts = 0

-----------------------------------------------------------------------------
\* Flash operations, whole and cut short.

Fault == faults < MaxFaults /\ faults' = faults + 1

NoFault == UNCHANGED faults

\* Append p; the device is `done' if that worked and `failed' if it did not.
\* A cut-short append returns an error, even though the record may be there, or
\* ends with the loss of power.
Append(p, done, failed) ==
  \/ CanAppend(journal) /\ NoFault
     /\ journal' = AppendDone(journal, p) /\ dev' = done
  \/ ~ CanAppend(journal) /\ NoFault /\ UNCHANGED journal /\ dev' = failed
  \/ CanAppend(journal) /\ Fault
     /\ journal' \in AppendCut(journal, p) /\ dev' \in {failed, Off}

\* Make room for n records and append p to what is left.
ReserveAndAppend(n, p, done, failed) ==
  \/ HasRoom(journal, n) /\ Append(p, done, failed)
  \/ CanCompact(journal, n) /\ NoFault
     /\ journal' = AppendDone(CompactDone(journal), p) /\ dev' = done
  \/ CanCompact(journal, n) /\ Fault
     /\ journal' \in CompactCut(journal) \cup AppendCut(CompactDone(journal), p)
     /\ dev' \in {failed, Off}
  \/ ~ HasRoom(journal, n) /\ ~ CanCompact(journal, n)
     /\ NoFault /\ UNCHANGED journal /\ dev' = failed

\* Mutant: the last, partial checkpoint is not counted.
MutReserve(size) == size \div Checkpoint + Overhead

\* Records START asks for: one per checkpoint and some for the state changes.
Reserve(size) == (size + Checkpoint - 1) \div Checkpoint + Overhead

\* Whole sectors are erased, in ascending order.
EraseSpan(size) == ((size + SectorUnits - 1) \div SectorUnits) * SectorUnits

AfterErase(size) == [u \in Unit |-> IF u < EraseSpan(size) THEN Erased ELSE flash[u]]

EraseCut(size) ==
  {[u \in Unit |-> IF u < n THEN Erased
                   ELSE IF u = n /\ half THEN Partial ELSE flash[u]] :
     n \in {k \in Unit : k < EraseSpan(size)}, half \in BOOLEAN}
    \cup {AfterErase(size)}

Chunk(off, len) == {u \in Unit : off <= u /\ u < off + len}

AfterWrite(off, len, i) == [u \in Unit |-> IF u \in Chunk(off, len) THEN i ELSE flash[u]]

WriteCut(off, len, i) ==
  {[u \in Unit |-> IF off <= u /\ u < n THEN i
                   ELSE IF u = n /\ half THEN Partial ELSE flash[u]] :
     n \in Chunk(off, len), half \in BOOLEAN}
    \cup {AfterWrite(off, len, i)}

RangeIsErased(off, len) == \A u \in Chunk(off, len) : flash[u] = Erased

Matches(off, len, i) == \A u \in Chunk(off, len) : flash[u] = i

-----------------------------------------------------------------------------
\* Bootloader: requests.  Every addressed frame ends the 500 ms window.

Serving == dev.at \in {"window", "service"} /\ dev.pc = "idle"

Answer(st) == [dev EXCEPT !.at = "service", !.pc = "reply", !.status = st]

Recorded(p, st) == [Answer(st) EXCEPT !.rec = p]

Quiet == UNCHANGED <<journal, flash, faults, starts>>

\* HELLO, GET_INFO, ENTER_BOOT and QUERY_PROGRESS answer and change nothing.  So
\* does a frame the bootloader cannot use, or a START whose manifest is not for
\* this board; every refusal of that kind is a BAD_FRAME here.
ReadOnlyRequest ==
  /\ Serving
  /\ Quiet
  /\ \E st \in {"OK", "BAD_FRAME"}
            \cup (IF dev.rec.state = "ERASING" THEN {"BUSY"} ELSE {}) :
       dev' = Answer(st)

ActiveStates == {"ERASING", "RECEIVING", "VERIFYING", "PENDING_BOOT"}

\* boot_upgrade_handle_start, up to its first flash operation.
StartStatus(s, m) ==
  IF dev.rec.state \notin ActiveStates THEN "ACCEPT"
  ELSE IF dev.rec.session # s \/ dev.rec.manifest # m
          \/ dev.rec.state \in {"ERASING", "VERIFYING"}
       THEN "BUSY" ELSE "OK"

Start(s, m) ==
  /\ Serving
  /\ UNCHANGED <<flash, starts>>
  /\ LET p == NewRecord("UPDATE_REQUESTED", s, m)
     IN IF StartStatus(s, m) = "ACCEPT"
        THEN ReserveAndAppend(Reserve(SizeOf(m)), p,
                              Recorded(p, "OK"), Answer("FLASH_ERROR"))
        ELSE dev' = Answer(StartStatus(s, m)) /\ UNCHANGED <<journal, faults>>

\* The session check every later request makes.
OwnSession(s) == dev.rec # NoRecord /\ dev.rec.session = s

\* Mutant: the state is not checked.
MutEraseStatus(s) == IF OwnSession(s) THEN "ACCEPT" ELSE "BAD_SESSION"

EraseStatus(s) ==
  IF ~ OwnSession(s) THEN "BAD_SESSION"
  ELSE IF dev.rec.state = "RECEIVING" THEN "OK"
  ELSE IF dev.rec.state \in {"UPDATE_REQUESTED", "ERASING"} THEN "ACCEPT"
  ELSE "BUSY"

\* ERASE is answered BUSY; the sectors are erased after the answer has left.
Erase(s) ==
  /\ Serving
  /\ UNCHANGED <<flash, starts>>
  /\ LET p == WithState(dev.rec, "ERASING", 0)
     IN IF EraseStatus(s) # "ACCEPT"
        THEN dev' = Answer(EraseStatus(s)) /\ UNCHANGED <<journal, faults>>
        ELSE IF dev.rec.state = "UPDATE_REQUESTED"
        THEN Append(p, [Recorded(p, "BUSY") EXCEPT !.deferred = "erase"],
                    Answer("FLASH_ERROR"))
        ELSE /\ dev' = [Answer("BUSY") EXCEPT !.deferred = "erase"]
             /\ UNCHANGED <<journal, faults>>

\* Mutant: a chunk below the expected offset is written again.
MutDataStatus(s, off, len, i) ==
  IF ~ OwnSession(s) THEN "BAD_SESSION"
  ELSE IF dev.rec.state # "RECEIVING" THEN "BUSY"
  ELSE IF off + len > SizeOf(dev.rec.manifest) THEN "BAD_IMAGE_SIZE"
  ELSE IF off > dev.rec.received THEN "BAD_OFFSET" ELSE "NEW"

\* boot_upgrade_handle_data, as far as what it leaves alone; "NEW" is the chunk
\* at the expected offset whose bytes are, or can be, in the flash.
DataStatus(s, off, len, i) ==
  LET got == dev.rec.received IN
  IF ~ OwnSession(s) THEN "BAD_SESSION"
  ELSE IF dev.rec.state # "RECEIVING" THEN "BUSY"
  ELSE IF off + len > SizeOf(dev.rec.manifest) THEN "BAD_IMAGE_SIZE"
  ELSE IF off > got \/ (off < got /\ off + len > got) THEN "BAD_OFFSET"
  ELSE IF ~ Matches(off, len, i) /\ (off < got \/ ~ RangeIsErased(off, len))
       THEN "FLASH_ERROR"
  ELSE IF off < got THEN "OK" ELSE "NEW"

\* Mutant: only the end of the image is recorded.
MutCrossesCheckpoint(old, new, size) == new = size

\* Progress is recorded when a checkpoint boundary is crossed and at the end.
CrossesCheckpoint(old, new, size) ==
  old \div Checkpoint # new \div Checkpoint \/ new = size

\* If the record cannot be written the progress in RAM is taken back too.
AdvanceTo(new) ==
  LET p == WithState([dev.rec EXCEPT !.received = new], "RECEIVING", 0)
  IN IF CrossesCheckpoint(dev.rec.received, new, SizeOf(dev.rec.manifest))
     THEN Append(p, Recorded(p, "OK"), Answer("FLASH_ERROR"))
     ELSE /\ dev' = [Answer("OK") EXCEPT !.rec.received = new]
          /\ UNCHANGED <<journal, faults>>

Data(s, off, len, i) ==
  /\ Serving
  /\ UNCHANGED starts
  /\ IF DataStatus(s, off, len, i) # "NEW"
     THEN /\ dev' = Answer(DataStatus(s, off, len, i))
          /\ UNCHANGED <<journal, flash, faults>>
     ELSE \/ flash' = AfterWrite(off, len, i) /\ AdvanceTo(off + len)
          \/ RangeIsErased(off, len) /\ Fault
             /\ flash' \in WriteCut(off, len, i)
             /\ dev' \in {Answer("FLASH_ERROR"), Off} /\ UNCHANGED journal

VerifyStatus(s) ==
  IF ~ OwnSession(s) THEN "BAD_SESSION"
  ELSE IF dev.rec.state \notin {"RECEIVING", "VERIFYING"} THEN "BUSY"
  ELSE IF dev.rec.received # SizeOf(dev.rec.manifest) THEN "BAD_OFFSET"
  ELSE "ACCEPT"

\* VERIFY first records that it is verifying ...
Verify(s) ==
  /\ Serving
  /\ UNCHANGED <<flash, starts>>
  /\ LET p == WithState(dev.rec, "VERIFYING", 0)
         checking == [dev EXCEPT !.at = "service", !.pc = "verify"]
     IN IF VerifyStatus(s) # "ACCEPT"
        THEN dev' = Answer(VerifyStatus(s)) /\ UNCHANGED <<journal, faults>>
        ELSE IF dev.rec.state = "RECEIVING"
        THEN Append(p, [checking EXCEPT !.rec = p], Answer("FLASH_ERROR"))
        ELSE dev' = checking /\ UNCHANGED <<journal, faults>>

\* ... then computes the CRC over the flash and records what it found.
CheckCrc ==
  /\ dev.pc = "verify"
  /\ UNCHANGED flash
  /\ LET good == WithState(dev.rec, "PENDING_BOOT", 0)
         bad == WithState(dev.rec, "FAILED", VerifyFailedCode)
     IN IF Holds(dev.rec.manifest.image)
        THEN Append(good, Recorded(good, "OK"), Answer("FLASH_ERROR"))
        ELSE Append(bad, Recorded(bad, "VERIFY_FAILED"), Answer("VERIFY_FAILED"))
  /\ starts' = IF journal'.latest.state = "PENDING_BOOT" THEN 0 ELSE starts

Activate(s) ==
  /\ Serving
  /\ Quiet
  /\ dev' = IF ~ OwnSession(s) THEN Answer("BAD_SESSION")
            ELSE IF dev.rec.state # "PENDING_BOOT" THEN Answer("BUSY")
            ELSE [Answer("OK") EXCEPT !.deferred = "reset"]

\* ABORT looks at the session only, whatever the state.
Abort(s) ==
  /\ Serving
  /\ UNCHANGED <<flash, starts>>
  /\ LET p == WithState(dev.rec, "FAILED", 0)
     IN IF OwnSession(s)
        THEN Append(p, Recorded(p, "OK"), Answer("FLASH_ERROR"))
        ELSE dev' = Answer("BAD_SESSION") /\ UNCHANGED <<journal, faults>>

-----------------------------------------------------------------------------
\* The answer leaves, or the UART fails to send it.  The bootloader drops the
\* deferred action of an answer it could not send; the application does not.
SendReply(sent) ==
  /\ dev.pc = "reply"
  /\ Quiet
  /\ dev' = IF sent /\ dev.deferred = "reset" THEN Off
            ELSE IF sent /\ dev.deferred = "erase"
            THEN [dev EXCEPT !.pc = "erase", !.deferred = "none", !.status = "NONE"]
            ELSE [dev EXCEPT !.pc = "idle", !.status = "NONE",
                             !.deferred = IF InApp THEN @ ELSE "none"]

\* The deferred erase.  flash_if_erase_app refuses a size of zero.  An error of
\* the erase itself is recorded, and is not one of the faults counted here.
EraseApp ==
  /\ dev.pc = "erase"
  /\ UNCHANGED starts
  /\ LET size == SizeOf(dev.rec.manifest)
         idle == [dev EXCEPT !.pc = "idle"]
         zero == [dev.rec EXCEPT !.received = 0]
         ready == WithState(zero, "RECEIVING", 0)
         bad == WithState(dev.rec, "FAILED", FlashErrorCode)
         Fail == Append(bad, [idle EXCEPT !.rec = bad], idle)
     IN \/ /\ size > 0
           /\ flash' = AfterErase(size)
           /\ Append(ready, [idle EXCEPT !.rec = ready], [idle EXCEPT !.rec = zero])
        \/ /\ size = 0
           /\ UNCHANGED flash
           /\ Fail
        \/ /\ size > 0
           /\ flash' \in EraseCut(size)
           /\ \/ Fault /\ dev' = Off /\ UNCHANGED journal
              \/ Fail

-----------------------------------------------------------------------------
\* Reset: the bootloader's decision (main.c).

\* Boot_IsAppValid looks at the first two words only.
VectorValid ==
  IF flash[0] \in Image THEN {TRUE} ELSE IF flash[0] = Partial THEN BOOLEAN ELSE {FALSE}

Jump == [Off EXCEPT !.at = "entry"]

\* Mutant: the attempts are counted but not limited.
MutNoLimit(d) ==
  LET counted == WithState(d.rec, "PENDING_BOOT", d.rec.error + 1)
  IN /\ Append(counted, Jump, d)
     /\ starts' = IF dev' = Jump THEN starts + 1 ELSE starts

\* Mutant: the jump is not recorded.
MutUncounted(d) ==
  LET failed == [d.rec EXCEPT !.state = "FAILED", !.error = TimeoutCode]
  IN IF d.rec.error >= MaxAttempts
     THEN Append(failed, [d EXCEPT !.rec = failed], d) /\ UNCHANGED starts
     ELSE /\ dev' = Jump /\ UNCHANGED <<journal, faults>>
          /\ starts' = IF starts < MaxAttempts THEN starts + 1 ELSE starts

\* boot_upgrade_prepare_application_boot for a PENDING_BOOT record: the start is
\* counted in the journal before the jump.
CountedStart(d) ==
  LET rec == d.rec
      failed == WithState(rec, "FAILED", TimeoutCode)
      counted == WithState(rec, "PENDING_BOOT", rec.error + 1)
  IN IF rec.error >= MaxAttempts
     THEN /\ Append(failed, [d EXCEPT !.rec = failed], d)
          /\ UNCHANGED starts
     ELSE /\ Append(counted, Jump, d)
          /\ starts' = IF dev' = Jump THEN starts + 1 ELSE starts

Boot ==
  /\ dev.at = "off"
  /\ UNCHANGED flash
  /\ \E ready \in BOOLEAN, valid \in VectorValid :
       LET rec == journal.latest
           allowed == valid /\ (rec = NoRecord \/ AllowsAppBoot(rec.state))
           loop == [Off EXCEPT !.rec = rec, !.at = IF ready THEN "service" ELSE "dead"]
       IN IF allowed /\ rec.state = "PENDING_BOOT" THEN CountedStart(loop)
          ELSE /\ dev' = IF ~ allowed THEN loop
                         ELSE IF ready THEN [loop EXCEPT !.at = "window"] ELSE Jump
               /\ UNCHANGED <<journal, faults, starts>>

\* Nobody spoke in the 500 ms window.
WindowExpires ==
  /\ dev.at = "window" /\ dev.pc = "idle"
  /\ Quiet
  /\ dev' = Jump

-----------------------------------------------------------------------------
\* Application (app_upgrade.c).

RunningVersion == IF flash[0] \in Image THEN Version[flash[0]] ELSE 0

\* Mutant: the version is not compared.
MutCompatible(r) ==
  /\ r.state = "PENDING_BOOT"
  /\ r.session # 0
  /\ r.received = SizeOf(r.manifest) /\ r.received # 0

\* app_upgrade_pending_record_is_compatible
Compatible(r) ==
  /\ r.state = "PENDING_BOOT"
  /\ r.session # 0
  /\ r.manifest.version = RunningVersion
  /\ r.received = SizeOf(r.manifest) /\ r.received # 0

\* app_upgrade_init
AppInit ==
  /\ dev.at = "entry"
  /\ Quiet
  /\ \E ready \in BOOLEAN :
       dev' = [dev EXCEPT !.at =
                 IF ~ ready THEN "blocked"
                 ELSE IF journal.latest.state # "PENDING_BOOT" THEN "running"
                 ELSE IF Compatible(journal.latest) THEN "waiting" ELSE "blocked"]

\* 3000 ms after the start, with the main loop and the UART alive.
Confirm ==
  /\ dev.at = "waiting" /\ dev.pc = "idle"
  /\ UNCHANGED <<flash, starts>>
  /\ LET p == WithState(journal.latest, "CONFIRMED", 0)
         blocked == [dev EXCEPT !.at = "blocked"]
     IN IF Compatible(journal.latest)
        THEN Append(p, [dev EXCEPT !.at = "running"], blocked)
        ELSE dev' = blocked /\ UNCHANGED <<journal, faults>>

AppServing == dev.at \in {"running", "waiting"} /\ dev.pc = "idle"

AppAnswer(st) == [dev EXCEPT !.pc = "reply", !.status = st]

\* HELLO and GET_INFO are answered, everything else is BUSY.
AppReadOnlyRequest ==
  /\ AppServing
  /\ Quiet
  /\ \E st \in {"OK", "BUSY"} : dev' = AppAnswer(st)

\* app_upgrade_handle_enter_boot, with room asked for the largest image.
AppEnterBoot(s) ==
  /\ AppServing
  /\ UNCHANGED <<flash, starts>>
  /\ ReserveAndAppend(Reserve(Units), NewRecord("UPDATE_REQUESTED", s, NoManifest),
                      [AppAnswer("OK") EXCEPT !.deferred = "reset"],
                      AppAnswer("FLASH_ERROR"))

\* The application hangs, or stops feeding the watchdog because it is blocked.
WatchdogReset == InApp /\ Quiet /\ dev' = Off

PowerLoss == dev.at # "off" /\ Quiet /\ dev' = Off

-----------------------------------------------------------------------------
Request ==
  \/ ReadOnlyRequest
  \/ \E s \in Session :
       \/ \E m \in Manifest : Start(s, m)
       \/ Erase(s) \/ Verify(s) \/ Activate(s) \/ Abort(s)
       \/ \E off \in Unit, len \in 1 .. MaxChunk, i \in Image : Data(s, off, len, i)

Bootloader == Boot \/ WindowExpires \/ CheckCrc \/ EraseApp

Application ==
  \/ AppInit \/ Confirm \/ AppReadOnlyRequest
  \/ \E s \in Session \cup {0} : AppEnterBoot(s)

Next ==
  \/ Request \/ Bootloader \/ Application
  \/ \E sent \in BOOLEAN : SendReply(sent)
  \/ WatchdogReset \/ PowerLoss

Spec == Init /\ [][Next]_vars

\* The processor runs: reset leads to the bootloader's decision, the application
\* initialises, an answer leaves or fails.  app_upgrade_poll looks at the clock
\* before it looks for a request, so requests cannot put the confirmation off
\* for ever.  A blocked application does not feed the watchdog.
Fairness ==
  /\ WF_vars(Boot)
  /\ WF_vars(AppInit)
  /\ WF_vars(\E sent \in BOOLEAN : SendReply(sent))
  /\ SF_vars(Confirm)
  /\ WF_vars(dev.at = "blocked" /\ WatchdogReset)

FairSpec == Spec /\ Fairness

-----------------------------------------------------------------------------
\* Every variable has its type.
TypeOK ==
  /\ journal \in JournalOf(Payload)
  /\ flash \in [Unit -> Image \cup {Erased, Partial}]
  /\ dev \in Dev
  /\ faults \in 0 .. MaxFaults
  /\ starts \in Nat

\* The application never runs on a flash that does not hold one whole image:
\* not after a torn erase or chunk, not when the journal was lost or found
\* corrupt, though main.c looks at two words of the flash only.
RunsWholeImage == InApp => \E i \in Image : Holds(i)

\* While the journal says an image waits to be confirmed, or is, the flash holds
\* exactly the image START announced (boot_upgrade_handle_verify's CRC and
\* everything that may touch the flash or the record afterwards).
PendingIsVerified ==
  journal.latest.state \in {"PENDING_BOOT", "CONFIRMED"}
    => Holds(journal.latest.manifest.image)

\* Only an image of the announced version confirms itself.
ConfirmedIsCompatible ==
  journal.latest.state = "CONFIRMED"
    => Version[journal.latest.manifest.image] = journal.latest.manifest.version

\* Progress the journal vouches for is in the flash: after any crash the bytes
\* below received_bytes have been written since the erase.
ProgressIsInFlash ==
  journal.latest.state \in {"RECEIVING", "VERIFYING"}
    => \A u \in 0 .. (journal.latest.received - 1) : flash[u] \in Image

\* A reset costs less than one checkpoint: unless the session was aborted, what
\* the journal resumes it from is at most Checkpoint - 1 units behind what the
\* device has acknowledged (docs/m7_reliability_verification.md, requirement 4).
\* It may be ahead: an append that reported an error may have been recorded.
ResumeLosesLessThanCheckpoint ==
  dev.rec.state = "RECEIVING" =>
    \/ journal.latest.state = "FAILED"
    \/ /\ journal.latest.state \in {"RECEIVING", "VERIFYING"}
       /\ journal.latest.session = dev.rec.session
       /\ dev.rec.received - journal.latest.received < Checkpoint

\* Every start of an unconfirmed image is in the journal before it happens, so
\* it is started at most MaxAttempts times, whatever resets interrupt it.
StartsAreCounted ==
  journal.latest.state = "PENDING_BOOT"
    => starts <= journal.latest.error /\ journal.latest.error <= MaxAttempts

\* Records an update still needs to reach PENDING_BOOT.
Needed(r) ==
  LET size == SizeOf(r.manifest)
      left == (size + Checkpoint - 1) \div Checkpoint - r.received \div Checkpoint
  IN CASE r.state = "UPDATE_REQUESTED" -> left + 4
       [] r.state = "ERASING"          -> left + 3
       [] r.state = "RECEIVING"        -> (IF r.received = size THEN 0 ELSE left) + 2
       [] r.state = "VERIFYING"        -> 1
       [] OTHER                        -> 0

\* The room START makes lasts: an accepted update reaches PENDING_BOOT without
\* running out of slots, with three to spare for torn records, since the journal
\* cannot be compacted on the way (boot_upgrade_handle_start's required_records).
ReserveSuffices ==
  LET r == journal.latest
  IN r.state \in {"UPDATE_REQUESTED", "ERASING", "RECEIVING", "VERIFYING"}
       /\ r.manifest # NoManifest
     => journal.free + faults >= Needed(r) + Overhead - 5

\* What the device has acknowledged stays as it is until the next erase:
\* duplicates, refused chunks and torn writes change only later units
\* (docs/m7_reliability_verification.md, requirement 3).
AcknowledgedDataStays ==
  [][dev.rec.state = "RECEIVING"
       => \A u \in 0 .. (dev.rec.received - 1) : flash'[u] = flash[u]]_vars

\* An image that was started and neither confirmed nor failed does not stay so:
\* whatever resets it, it is confirmed, given up after MaxAttempts starts, or
\* superseded by an ENTER_BOOT (docs/m11_implementation.md).
PendingIsDecided ==
  InApp /\ journal.latest.state = "PENDING_BOOT"
    ~> journal.latest.state # "PENDING_BOOT"

\* After an image was given up another START of any announced image is possible
\* (docs/m11_implementation.md: "run `upgrade start' again").
FailedAllowsRestart ==
  journal.latest.state = "FAILED" /\ journal.latest.error = TimeoutCode =>
    \A m \in Manifest : \/ HasRoom(journal, Reserve(SizeOf(m)))
                        \/ CanCompact(journal, Reserve(SizeOf(m)))

\* A device that is receiving can go on from its recorded offset with the same
\* chunks (docs/m7_reliability_verification.md, requirement 5): no unit it still
\* expects is half programmed, since neither DATA nor ERASE would clear it.
ResumeIsPossible ==
  dev.at = "service" /\ dev.pc = "idle" /\ dev.rec.state = "RECEIVING" =>
    \A u \in dev.rec.received .. (SizeOf(dev.rec.manifest) - 1) : flash[u] # Partial
=============================================================================
