# A formal model of the remote upgrade system

An ESP32 gateway downloads a firmware package over Wi-Fi, keeps it in a flash
partition, and writes it to an STM32 node over a UART that speaks a private
Modbus RTU function. The node's bootloader receives the image, records what it
is doing in a journal in flash, starts the new application, and gives up after
three starts that nobody confirmed.

This directory holds TLA+ specifications of that system, TLC configurations that
check them on small instances, and proofs, checked by TLAPS, of what holds for
every instance. `PROJECT.json` maps every definition to the lines it models and
lists the runs, the hazards each property is aimed at, the mutants (a plausible
bug per property, which the property's run must find), the findings and the
theorems.

    tlc -config MCDevice.cfg MCDevice.tla        # one run
    tlapm Device_proofs.tla                      # one proof module

## 1. Inventory

| Component (source) | State it keeps | Operations | Talks to |
|---|---|---|---|
| Upgrade journal, `boot_metadata.c` | 862 slots of flash sector 4; nothing in RAM | scan, load latest, append, compact, compact-if-needed | bootloader and application, by calls |
| Upgrade service, `boot_upgrade.c` | copy of the latest record, received bytes, pending response, deferred erase/reset | HELLO, GET_INFO, ENTER_BOOT, START, ERASE, DATA, QUERY_PROGRESS, VERIFY, ACTIVATE, ABORT; counted start | journal, application flash, UART |
| Boot decision, bootloader `main.c` | none | vector check, 500 ms window, jump | service, journal |
| Flash driver, `flash_if.c` | application sectors | erase sectors, program, verify | service |
| Application service, `app_upgrade.c` | confirmation state, deferred reset, uptime clock | confirm after 3000 ms, ENTER_BOOT, feed the watchdog | journal, UART |
| Protocol, `protocol/src` | RTU stream buffer and timers | encode, decode, CRC, frame assembly | both ends of the UART |
| UART transport of the node, `common/Src/uart_rtu_transport.c` | 512-byte ring, overflow flag | receive interrupt, poll, send | stream |
| Request client, `upgrade_client.c`, over `transport_uart.c` | sequence number, attempts left | flush, send, wait until the line falls silent, match, retry | node |
| Upgrade manager, `upgrade_manager.c` | session, progress, cancel flag, task | probe, enter boot, start, erase, transfer, verify, activate, confirm | client, store, console |
| Firmware store, `firmware_store.c` | `stm_fw` partition, `s_manifest`, `s_manifest_valid` | open, begin, resume, write, read, commit, validate | downloader, manager, console |
| Downloader, `firmware_downloader.c` | task, progress, NVS checkpoint, cancel flag | start, cancel, fetch manifest, download with resume, verify, commit | store, server, console |
| Console, `gateway_console.c` | none | `firmware ...`, `upgrade ...`, `wifi ...` | everything on the gateway |
| Wi-Fi, `gateway_wifi.c` | connection state, credentials | connect, reconnect, time sync | downloader, console |
| Firmware server, `server/app` | immutable release files | manifest, package, ETag, ranges | downloader |

**What is hard here.** Not the happy path, which the repository tests on
hardware, but:

* *Power loss inside any flash operation.* A journal record is several words, an
  image several sectors, an erase is not atomic; whichever program runs after the next
  reset reads what is left.
* *State in two places.* The record in RAM and the journal (an append may report
  an error for a record that is there); the NVS checkpoint and the partition;
  the valid marker and the checkpoint; the `s_manifest_valid` flag and the flash.
* *Messages that are late, repeated, of another session, or in no order*; the
  node answers ERASE before it erases and resets after it answered ACTIVATE.
* *An interrupt against a polling loop* that stands still while the flash is
  written, with a ring between them and a microsecond clock that wraps.
* *Resources that cannot be reclaimed in mid-update*: the journal may not be
  compacted between START and PENDING_BOOT.
* *Three tasks on the gateway* (console, download, upgrade), whose exclusion is
  a check in the console, and one command, `firmware validate`, that nothing
  excludes.
* *A server whose releases change* between a manifest and its package.
* *Liveness*: an image that starts is confirmed or given up; a download ends; a
  failed one can be repeated.

**What correctness means for each part.**

* Journal: the latest record never goes back except in the compaction of a state
  that may boot; no slot is programmed twice; a corrupt journal is not silently
  cleared.
* Node: the application runs on one whole image only; PENDING_BOOT and CONFIRMED
  say what is in the flash; acknowledged bytes stay; a reset loses less than one
  checkpoint; the journal does not run out in mid-update; starts are counted.
* Package cache: a marked package is whole; READY means the release that was asked
  for; a checkpoint is never applied to what another firmware left; nobody pulls
  the package from under the upgrade task, and only a failed read makes it unreadable to
  it; a cancel that was accepted holds.
* UART and stream: a frame reaches the program whole or not at all, in the order
  sent, and one that found the program listening is not lost.
* Client and manager: an answer is accepted only for the request it was given to;
  SUCCESS implies that the package is in the flash and CONFIRMED; what was counted
  as transferred stays there; an upgrade ends, and one that is repeated succeeds.

## 2. Modules

| Module | Models | Kind |
|---|---|---|
| `Journal` | the meaning of the journal: a value with the latest record and the number of erased slots; what append and compaction do to it, whole or cut short | operators |
| `JournalSpec` | that meaning as a state machine | abstract specification |
| `BootMetadata` | `boot_metadata.c` slot by slot, one step per flash operation; implements `JournalSpec` | detailed specification |
| `Device` | bootloader, application, application flash and journal of the node, any client | system |
| `Downloader` | firmware store, downloader, console guards, server, resets of the gateway | system |
| `FrameChannel` | a line that delivers frames whole, in order, some of them lost | abstract specification |
| `RtuStream` | `modbus_rtu_stream.c`: one byte, one poll, silence on a wrapping clock | operators |
| `UartRtu` | receive interrupt, ring and main loop around `RtuStream`; implements `FrameChannel` | detailed specification |
| `Upgrade` | upgrade manager, request client and the line, composed with `Device`; implements `Device` | system |
| `MC*` | instances for TLC | |
| `*_proofs` | theorems | |

### BootMetadata (`boot_metadata.c`)

`slots` is the sector, `Erased` and `Torn` standing for a slot of ones and one
that fails a check; `scan`, `todo`, `pc` and `status` are the locals of the one
public call that is running; `acked` is an observer. `Scan` is
`boot_metadata_scan`, `AppendStatus` and `CompactStatus` are the checks in the
code's order, and a call then programs or erases one slot or sector per step.
Each flash step may succeed, be cut short by an error that is reported, or by
the loss of power (the call is gone, the slot is whole, torn or untouched). An
erase that is cut short may leave some slots behind if `PartialErase`. CRC and
magic checks are equality of content. `ImplementsJournal` is the refinement:
between calls the abstract journal is what a scan of the slots finds, during a
call what the call itself found, and `call` and `result` are the record that will
be written last and the status. So OK is returned only for an effect that is
complete, an interrupted call leaves one of the values `Journal` names, and a
refusal has one of the abstract reasons. `Device` uses exactly these operators.

### Device (`boot_upgrade.c`, `main.c`, `flash_if.c`, `app_upgrade.c`)

`dev` is the RAM of whichever program runs: where it is (`at`), the record, what
the loop still has to do (`pc`), the deferred action and the status of the answer
on its way. The other end of the UART is not constrained at all: any request with
any session, offset, length and content may come whenever the node serves one,
so every loss, repetition, reordering or restart of a client is included. A
request handler is one step, because nothing of the firmware runs concurrently
with it; VERIFY is two (a record is written before the CRC runs), ERASE is three
(request, answer, deferred erase). `Fault` counts flash operations that are cut
short; after one the device either sees an error or has lost power, in each of
the states the operation may leave behind. Losing power between operations is
`PowerLoss`, and is not counted.

Abstractions, and why they lose nothing the properties look at:

* a unit of flash is the smallest chunk a client sends; it holds the bytes of one
  image at that place, or ones, or is `Partial`;
* a CRC-32 matches when the content does;
* errors of unlock, lock and read-back are those of the operation they belong to;
* refusals that leave every variable alone share the status `BAD_FRAME`, and
  frames that fail to decode are one of them; a START for other hardware is too;
* the two words of the vector check belong to unit 0: a whole one is valid, an
  erased one is not, a partial one may be either;
* the logging and self-test builds are left out.

### Downloader (`firmware_downloader.c`, `firmware_store.c`, `gateway_console.c`)

`flash`, `marker` and `checkpoint` survive a reset; `ready` is
`s_manifest_valid`. `pc` and the variables after it are the download task, which
takes one step per call that can fail, block or be overtaken by the console:
waits, manifest, each sector of the erase, each read and write, checkpoint,
verification, the entry into COMMIT_PACKAGE, the last look for a cancel, the
marker, the validation, the clearing of the checkpoint. The console runs one
command at a time; `firmware validate` takes several steps, since it reads the header,
then the image for a long time, and then writes the flag: it may find a sector that has
changed meanwhile, or fail to read one (`validating` is the status it will return, `unread`
a failed `esp_partition_read`). The upgrade task appears as far as it
uses the partition: `UpgradeEnd` is also the end of a transfer whose `firmware_store_read`
fails, be it for the flash or because `ready` was cleared. The server may replace the release offered under an id at any
time, also in the middle of a stream.

Abstractions:

* a sector holds one release's bytes at that place, `Erased` or `Torn`; the header
  sector has its `valid_marker` apart; a SHA-256 matches when the content does;
* a sector that a power failure leaves half programmed *with the bytes the manifest
  promises* counts as erased, since programming it again completes it; one half
  programmed with other bytes is `Torn`;
* `state` keeps the values the guards and properties look at: `ACTIVE` stands for
  all before COMMIT_PACKAGE;
* an erase works on one sector after the other, from the header up. `esp_partition_erase_range`
  may take aligned blocks of 64 KiB at once; `CommittedIsWhole` stands on a power
  failure in such an erase not leaving the header intact before sectors it has reached;
* `s_download_active` is left out: it is set whenever the task writes or commits;
* a failure of `firmware_store_open` at start-up, after which `app_main` returns,
  is left out;
* a server may answer 200 to a range request, though the repository's own server
  honours a matching `If-Range`.

### UartRtu (`uart_rtu_transport.c`, `modbus_rtu_stream.c`)

The sender puts bytes on the line with the pauses a Modbus sender keeps, at least a
tick of the clock apart. The receive interrupt may run between any two steps of
the main loop; it stores the byte, or drops it if the ring is full, and arms
the one-byte receive again. The main loop takes the bytes out of the ring one by one,
then asks the stream for a frame, then handles it, which may stall the processor, the
interrupt included, while flash is programmed or erased; it is away from the ring for
at most `MaxBusy` ticks. A byte that finds the data register full is lost (overrun); a
damaged one reaches the stream and is caught by the CRC; in both cases the error
callback arms the receive again. Every clock value is taken modulo `Wrap`, and
`Elapsed` is the code's unsigned subtraction.

The refinement mapping forgets bytes, clocks, ring and buffer, and keeps how many
frames were begun and which were handed over. `ChannelSpec` then says that whatever
the interleaving, the program is handed frames that were sent, in their order, each
once, and never a mixture of two; frames may be lost. Which may not is
`CleanFramesAreKept`: one that nothing spoiled (no damaged byte, no byte dropped by a
full ring, no byte that had to wait for a stalled processor and got a late time stamp,
none that waited inside for a whole period of the clock, 71 minutes in the code).
`Mistimed` names the last two. The last is no pedantry: a byte's age comes out as
nought after a whole period, and the frame on the line at that moment may then be cut,
or joined to the one before. No ring holds enough work for 71 minutes of erases (512
bytes are some dozens of requests), so the code is safe for a reason outside the stream,
and the property says which.

Abstractions: a frame is its number and the place of each byte; its CRC matches
exactly if the bytes are those of one frame; taking a byte out of the ring or a poll
takes less than a tick; the HAL is external, and its re-arm cannot fail (its one
reason to fail, a receive in progress, has just been removed by the interrupt).

### Upgrade (`upgrade_manager.c`, `upgrade_client.c`, `transport_uart.c`)

`gw.pc` names the call the task is in (`find`, `enter`, `info`, `query`, `start`,
`check`, `erase`, `poll`, `transfer`, `verify`, `verified`, `activate`, `wait` and
its three questions, `abort`, and the two of a probe), `client` the attempts left and
`next_sequence`. An answer, or the failure of the last attempt, takes the task to its
next call in one step: nobody else sees its variables meanwhile. Requests travel to
the ring of the node (`reqs`), the one being handled is `serving`, answers collect in
the gateway's UART (`reps`) until the line falls silent. The node is an instance of
`Device`, so each request is *handled by the very actions* whose properties are
proved there, and `NodeSpec` checks that the composition never takes the node
anywhere `Device` does not go.

What may go wrong is counted: `trouble.lost` for a frame that is lost,
`trouble.other` for an answer that comes after its time-out, a reset of the node, an
erase that fails, a reboot of the gateway, an abort, a deadline that strikes although
the node would still have come round.

Abstractions, and what they rest on:

* the task's loops pause before every request and the user types his commands, so
  these start when the node has answered what it is going to answer; calls with
  retries do not wait, which is where late answers come from;
* two answers that arrive without a pause are read as one frame, which does not
  decode; the application's BUSY answers to QUERY and DATA do not decode either,
  as they carry no payload;
* while the single flash bank is erased the CPU stands still
  (`docs/protocol.md:216`), so one request at most is received meanwhile;
* HELLO waits 100 ms, which a reset of the node outlasts; all other time-outs (1 s)
  outlast the reset, and a CRC over the image: a time-out of VERIFY is trouble;
* the node's UART works after every reset;
* read errors of the package partition, which end a task, and packages for other hardware
  are left out (`Downloader` has the first, `Device` the second).

## 3. Runs

| Run | Checks | Instance |
|---|---|---|
| `journal` | `TypeOK`, `SequencesDistinct`, `ChosenSlotIsErased`, `LatestLostOnlyByCompaction`, `CorruptIsAbsorbing` | 3 slots, 6 sequence numbers, torn erases |
| `journal_refines` | `ImplementsJournal` | 3 slots, 5 sequence numbers, 2 payloads per state |
| `journal_compaction` | violates `AckedRecordSurvives` (finding 1) | 3 slots |
| `device` | `TypeOK`, `RunsWholeImage`, `PendingIsVerified`, `ConfirmedIsCompatible`, `ProgressIsInFlash`, `ResumeLosesLessThanCheckpoint`, `StartsAreCounted`, `ReserveSuffices`, `AcknowledgedDataStays` | 2 images of 3 and 2 units, 2 sessions, 3 manifests, 12 slots, 2 faults |
| `device_live` | `PendingIsDecided` | 1 session, no faults |
| `device_restart` | violates `FailedAllowsRestart` (finding 2) | 20 slots |
| `device_resume` | violates `ResumeIsPossible` (finding 3) | 1 fault |
| `download` | `TypeOK`, `CommittedIsWhole`, `ReadyIsTheManifest`, `CheckpointKeepsItsId`, `UpgradeSendsWholePackage`, `CanceledIsNotCommitted`, `OnlyFailedReadEndsTransfer` | 3 releases under 2 ids, 2 resets, 1 of each other event but network errors; 3 848 116 states |
| `download_retry` | `DownloadEnds`, `RetryRepairs` | no reset and no local fault; 2 network errors, 2 cancels, 1 validation, 1 publication |
| `download_reset` | violates `RetryRepairs` (finding 4) | 1 reset, 1 cancel |
| `uart` | `TypeOK`, `CleanFramesAreKept`, `ChannelSpec`, `CleanFramesArrive` | 3 frames of 2 bytes, ring of 3 (2 usable), clock of 7 ticks, stalls up to 4, 1 damaged byte; 417 718 states |
| `upgrade` | `TypeOK`, `AnswersMatch`, `TransferredIsInFlash`, `SuccessIsConfirmed`, `FewLossesAreSurvived`, `NodeSpec`, `TaskEnds`, `RestartRepairs` | 2 packages of 1 and 2 units, chunks of 1 unit, 3 attempts, sequence numbers modulo 3, 2 pieces of trouble; 285 632 states |

**Why the bounds are enough.**

*Journal.* With three slots every arrangement of a torn, an old and a new record
beside an erased slot occurs, the journal fills, and a compaction followed by an
append (slots 0 and 1) leaves one slot to spare. Six sequence numbers fill it,
compact it, and reach the limit. `RECEIVING` and `PENDING_BOOT` stand for states
that may not and may be compacted.

*Device.* Three units make a sector boundary, a checkpoint boundary (each two
units) and a last chunk that is not a whole one; chunks of one and two units
overlap each other's boundaries. Image `b` is shorter than `a`, so that part of
`a` stays behind it, and one manifest names the wrong version for it. Nine or ten of the
twelve slots are what one START asks for, so the journal is compacted within a
run or two of the protocol. Two faults allow an append that is there although it
failed, followed by a torn operation that depends on it.

*Downloader.* Three sectors and a checkpoint every two give a checkpoint in the
middle and one at the end; the two-sector release of the other id leaves a tail
of the longer one; `a2` replaces `a1` under one id. Two resets allow a torn erase
followed by a torn resume. In `download_retry` the failing events are finite, as
a network that never works again repairs nothing.

*UartRtu.* A ring with two usable places overflows as soon as the main loop stands
still for one frame and a half, and its indices wrap; three frames make one that is
damaged, one that shares the ring with it and one after it. The clock wraps within
each behaviour. Its period of seven ticks is that of `FrameGap` and `MaxBusy` together,
so the main loop, which looks at the clock at least every `MaxBusy` ticks, cannot
miss a silence for ever; the code's 2^32 microseconds are far more. It is short enough
for a byte to wait for a whole period. A tick within a frame and three between frames
tell them apart.

*Upgrade.* Two packages, of one unit and of two: the transfer of the longer one takes
two chunks, and either package leaves the node in each of its states for the other;
sequence numbers modulo three come round within a transfer, so that numbers alone
distinguish less than in the code. Two pieces of trouble at any step: a lost answer
and then another, a loss followed by a reset, an abort followed by a loss. With three
attempts two losses are the most a call can survive. `Capacity` 40 leaves room for
several updates, as running out of slots is a question to `Device`.

Deadlock is checked everywhere but in `upgrade`, where a gateway that has finished
waits for its user.

**Fairness.**

`Device`: weak fairness of the boot decision, of `app_upgrade_init` and of the
answer leaving (the transmission has a timeout): the processor runs. Strong
fairness of `Confirm`: `app_upgrade_poll` compares the clock before it looks for
a request, so requests cannot put the confirmation off for ever although each
disables it for a moment; and the board, if reset again and again, either runs
for three seconds at last or uses up its starts. A blocked application does not
feed the watchdog, hence weak fairness of that reset. Nothing is assumed of
clients or of the absence of resets.

`Downloader`: weak fairness of the task (waits, HTTP reads and flash calls all
return), of the end of a validation and of an upgrade. Strong fairness of
`StartDownload(Wanted)` is an operator who repeats the command, which is the
design's premise: "running the download again" (`docs/m9_download_design.md`).
`DownloadEnds` does not depend on it.

`UartRtu`: strong fairness of the clock and of the end of a handler, which the other
steps disable for a moment again and again; weak fairness of the interrupt, of the
main loop and of the end of a stall, and of a sender in the middle of a frame. The
main loop spins, and every flash operation it may wait for ends, so time passes and the
loop comes back however often the interrupt runs.

`Upgrade`: weak fairness of both programs as long as no trouble is owed to a step;
strong fairness of `Confirm`, for the reason given under `Device`; of a deadline,
since a loop that comes round again and again reads the clock each time; and weak
fairness of `StartTask`, the user who starts the upgrade again after a failure.
`TaskEnds` does not depend on the last. `RestartRepairs` excludes one state the
design leaves open: the node is in a session for a package the gateway no longer
holds. Nothing ends that session: the new package is refused by the size of its image
before the manager has a session to abort, or by a BUSY to its START
(`upgrade_manager.c:579-640`). A user has to publish the old package again.

## 4. What is proved

For every value of the constants that satisfies the assumptions named in the
modules (at least two slots, images no larger than the flash, the special values
different from contents), without bounds on faults, resets or steps.

**Journal** (`BootMetadata_proofs`). The inductive invariant `JournalInv` says
what the locals of a running call may be: the slots it still has to program are
erased (or will be, by the erase that precedes them) and the records it will put
there are numbered above all others. From it: `SequencesDistinct`,
`ChosenSlotIsErased`, `LatestLostOnlyByCompaction`, `CorruptIsAbsorbing`. It is
needed because "all sequence numbers differ" alone does not survive the second
half of a compaction followed by an append.

**The journal's refinement** (`BootMetadata_proofs`, second half): `SlotsImplementJournal`,
that `BootMetadata` implements `JournalSpec`, whose operators are the ones `Device`
uses. The sector is looked at as callers see it, `Viewed`: the record a scan finds and
the number of erased slots. Three lemmas say what tearing a slot, committing it and
erasing the sector do to that pair; `CallInv` says what a running call has made of it
so far, and that is enough to name the outcome of each step, whole or cut short, among
those of `JournalSpec`. The theorem assumes that an interrupted erase is all or
nothing, as the run does; the other theorems about the journal do not.

**Node** (`Device_proofs`). `TypeInv` carries the limits
(progress within the image, counted starts within `MaxAttempts`), and
`AcknowledgedDataIsKept` needs no more. The safety properties rest on `SafetyInv`:
`JournalSafe` says for each state of the journal what the flash holds, and `Fits`
how far the record in RAM may have fallen behind the journal. The properties alone
are not inductive: an append that reports an error but is recorded makes the
journal one state ahead of the RAM, and the following request is decided by the
RAM; `Ahead(state)` enumerates the journal states the RAM's may have given rise
to, and each handler is shown to keep within them. Proved: `RunsWholeImage`,
`PendingIsVerified`, `ConfirmedIsCompatible`, `StartsAreCounted`.

`DeviceProgress_proofs` adds what an update in progress rests on. `ProgressInv` says of a
record, `Backed`: what it counts as received is in the flash; `Begun`: nothing is received
before the erase is over; `Room`: the free slots, together with the
faults so far, cover every checkpoint and state change still to come. It says so of
two records, the latest of the journal and the one in RAM, because a reset makes the
first into the second, and `Behind` relates them: the RAM has passed no checkpoint
the journal has not, unless the session was given up. The
arithmetic (how many checkpoint boundaries lie before an offset, and that a chunk
crosses at most the one it ends at or beyond) is four lemmas on `\div`, stated once.
Proved: `ProgressIsInFlash`, `ResumeLosesLessThanCheckpoint`, `ReserveSuffices`. With
them every invariant and action property of `Device` is a theorem, for all image
sizes, chunk sizes, checkpoint intervals and numbers of faults.

**Upgrade** (`Upgrade_proofs`). The invariant has three parts: of the gateway (the
request under way is the one its place asks for, an offset lies within the image, a
session is set where one is needed), of the line (every request in it is one of the
protocol's, and every answer was given to one), and `Device`'s type invariant. It is
what shows that a DATA request in the ring, sent many steps before, still carries a
chunk of 1 to `MaxChunk` units when it is handled; hence `NodeIsDevice`: the composition
implements `Device`, with the node's variables as they are. The theorems of the node then
hold during upgrades; `UpgradesRunWholeImages` and `UpgradesVerifyImages` are two
of them, carried over, and `BoardIsSafe` carries the node's inductive invariants for the
proofs below. (`Device` appears twice in that module, once through
`Upgrade` and once through the proofs about it; `SameStep` shows that both say the
same.)

**Answers** (`UpgradeAnswers_proofs`): `AnswersAreMatched`, for every `SeqMod` of at
least 2 (the code's is 2^32), every number of attempts and every length of the node's
ring. It is not an argument about how long an answer may be under way. The node
serves its requests in order, so what it still has to serve is a queue, `Flight`, the
one being answered first. `QueueInv`: behind a request with the kind and number of the
call under way there is nothing but that request again. `AnswerInv`: once an answer
with that kind and number has come, nothing else is left with the node at all, since all
that was sent earlier was served earlier; so the *next* number, whichever it is, is new to
the queue. Two weaknesses of the numbers keep this from being the whole proof. A call
that fails does not move `next_sequence` on; `NumberInv` names the places a failure may
lead to (`Reused`), where the kind tells old from new, and what the kinds of the others
exclude. And `upgrade start` begins again at 0; `EraseInv` says what an earlier task may
leave behind, which is possible only while the node is erasing, because everything else
is served before a user can type (see section 2): then the HELLOs of the new task are
the last requests in the queue and the first with their number.

**Data and outcome of an upgrade** (`UpgradeFlash_proofs`). Two theorems, each with a
hypothesis about the packages that its statement names.

`TransferredDataAreInFlash` (`TransferredIsInFlash`, if `SizesDiffer`: images of one
size are the same image). The manager sets its offset to what an answer tells it, in
`upgrade_manager_poll_erase` and after BAD_OFFSET, so what must be inductive is what
the answers say, and the node says it of its session. `ContentsInv`
(`DeviceProgress_proofs`) is what a client that sends one image per session can
rely on: the records of RAM and journal are of one session, and the data a record counts
are its own image's. `DataInv` and `PlaceInv` say that while a chunk is under way
its session is, on the node, that of its package, and that no START or ENTER_BOOT is
left in the queue, the only requests that could begin another one; `ServedInv` ties the
status of an answer to the record it is given from, and `OffsetInv` says that the
offset in each answer that would be followed is one of data in the flash. The queue
argument of `UpgradeAnswers_proofs` shows that no chunk of an earlier call remains when a
session begins. Why images must differ in size: section 5.

`SuccessIsOfTheImage` (`SuccessIsConfirmed`, if `VersionsDiffer`: one version is that of
one manifest, which is all the manager looks at). From the moment an application has
answered HELLO, `ConfirmInv` says, the node is `Settled`: it does not erase or verify, what
is left in the queue are HELLO, GET_INFO and QUERY, and a bootloader's record of a
confirmed image is the journal's. None of these requests, no reset, and no confirmation
changes a record that is CONFIRMED; so what an answer said of it (`Truthful`) is still so
when the answer is read, some steps and perhaps some resets later. With
`PendingIsVerified`, carried over from the node, the image is there too.

**UART and stream** (`UartRtu_proofs`). `TypeCorrect`, with the types the proof needs
(`TypeInv`: a slot of the ring between `tail` and `head` holds a byte, a frame that is
complete has been taken before anyone else looks). `RefinesChannel`, that
`UartRtu` implements `FrameChannel`, needs no clock: however silence is measured, what
the stream hands over has a CRC that matches, so it is the bytes of one frame, and the
question is which. `OrderInv` follows the bytes from the data register through the
ring to the buffer of the stream: they are in the order of the line (`RingOrder`,
`StreamOrder`), and later than everything that was handed over (`HandedOrder`); so
a frame is handed over at most once and never after a later one. Slots are counted from
the tail (`Pos`), which rids the proof of remainders of the ring's length.

`CleanKept` is the other half: what is not spoiled is not lost (`CleanFramesAreKept`).
Here the clock is all that counts, as the stream cuts where it sees silence. The
invariant `CleanInv` (`CleanHolds`) relates three clocks modulo `Wrap`, the one that
runs, the stamps in the ring and the stamp of the stream, by the age of each stamp:

* `OldInv` and `YoungInv` bound ages by the silence on the line: no byte is younger than
  the silence, one of an earlier frame is at least `FrameGap` old, and the byte sent last
  is no older than the silence after it;
* `GapInv` (`Apart`, `Together`) compares any two stamps in ring and stream: bytes of two
  frames are `FrameGap` apart, unless both are spoiled, and neighbours in a clean frame at
  most `InterChar`;
* `PollInv` is what the main loop knows when it looks at the clock: it has just found the
  ring empty, so what is in it now came in this very tick. If the poll then sees a
  silence of `FrameGap`, so does the line, and a clean frame in the stream is whole;
* `StreamInv` says that the stream holds the beginning of a clean frame without a hole, or
  nothing clean, and `HeldInv` that each byte of a clean frame that is out is in the
  stream, the ring or the data register, or the frame was handed over.

A frame next to a clean one may be spoiled or be the same request again, so the order in
the queue (`Before`) had to be proved for damaged bytes too. The ages are unambiguous only
because a stamp that reaches the age of a whole period spoils the frames it may be
compared with. The first attempt at this proof had no such clause, and failed there; TLC
then found a frame lost in an instance with a ring of five, a clock of five ticks and
four frames, where the instance checked before (a clock of ten) was too small to show
it. Property and model now say it. With `Wrap = 6` in `MCUartRtu.cfg`, where polls can
miss a silence for ever and `CleanFramesArrive` is false, `CleanFramesAreKept` still holds
(691 002 states), and TLC finds the lost frame if the clause is left out. In the run
`CleanFramesArrive` does not take such a wait as an excuse for the frame sent last, as
nothing follows that it could be joined to.

**Package cache** (`Downloader_proofs`). `TypeInv`
knows that a record never counts more sectors than its release has. `MarkerInv`:
from the erase of the header until the commit the marker is erased, so that no
reset can find a half package marked. `VerifiedInv`: what was verified stays until
the task has ended. `UpgradeInv`: an upgrade and a download exclude each other,
and what a validation found during an upgrade, if it could read the partition, is still
so when it stores it, although it may be stale during a download. So the package of a
transfer stays whole, and only a `firmware validate` whose read failed clears the flag that
`firmware_store_read` insists on: the transfer then fails, with the package intact. `CancelInv`: the last check happens
in the state that refuses cancels. `CheckpointInv`: the record of the task, and
the saved one, count only sectors that belong to their id or to nothing; it needs
`resume` to tell an erase that starts afresh (whose record is an old one) from
one that follows an ignored range. Proved: `CommittedIsWhole`,
`ReadyIsTheManifest`, `CheckpointKeepsItsId`, `UpgradeSendsWholePackage`,
`OnlyFailedReadEndsTransfer`, `CanceledIsNotCommitted`.

**Only model-checked.** Of `Upgrade`, `FewLossesAreSurvived`: it compares two steps of
the past (a loss, and an attempt that failed for it) and would need a count of the frames
each call has lost. Everything under fairness (`PendingIsDecided`,
`DownloadEnds`, `RetryRepairs`, `CleanFramesArrive`, `TaskEnds`, `RestartRepairs`), which
the prover does not do; the four violations. Every other property of a passing run is a
theorem.

## 5. Findings

1. `journal_compaction`: the compaction erases the sector before it rewrites the
   latest record, so a power loss in between loses a PENDING_BOOT or CONFIRMED
   record, where `boot_metadata.h` says it is preserved. The node still runs only
   whole images (`RunsWholeImage`), but the count of starts is gone.
2. `device_restart`: FAILED may not be compacted away. When a board gives an image
   up with fewer erased slots than START asks for, every START is refused from
   then on; the M11 notes promise that `upgrade start` can be run again.
3. `device_resume`: a chunk that power loss leaves half programmed is neither
   equal to the data nor erased, and ERASE does not erase in RECEIVING: the
   session can only be aborted, where the M7 plan says it can be resumed.
4. `download_reset`: the partition is erased before the new checkpoint is saved. A
   reset in between leaves the older checkpoint of the same release in force; the
   next download resumes over erased sectors, fails its hash, and keeps a
   checkpoint that says all is received, so that every later download of that id
   fails too. The M9 design says that downloading again repairs the cache. (The
   same loop follows a stream that mixes two releases, if the server then returns
   to the first; the runs allow one publication, since the server's releases are
   immutable but for `--force`.) `CheckpointKeepsItsId` and `CommittedIsWhole`
   hold all the same: nothing wrong is ever marked valid.

Besides these, behaviour a user will meet, all of it among the histories of `Upgrade`
(the properties name it as their exceptions, or allow it):

* an ERASE whose answer is lost fails the task if the erase outlasts the five
  attempts of a second each (`FewLossesAreSurvived` has this exception);
* ACTIVATE is sent once. If the request itself is lost the node stays in the
  bootloader until the 45 s deadline fails the task; the next start finishes it;
* a node that is reset between VERIFY and ACTIVATE starts its new application, which
  answers ACTIVATE with BUSY: FAILED is reported for an image that is
  confirmed a moment later;
* two packages of the *same size* can be mixed up for a while: the only thing the
  manager compares before it resumes a session is the size of its image, and BUSY is
  taken for an acknowledgement of START when the node was erasing or verifying
  (`upgrade_manager.c:579-611`), though a START of another package is answered
  BUSY too. A task for the new package, which finds the node erasing for the old one,
  then sends its data into the old one's session. With both packages of two units and four
  pieces of trouble TLC finds a history in which the old package is published again and its
  transfer is resumed over the other one's data, against `TransferredIsInFlash`. VERIFY's
  CRC discovers it and nothing wrong is started (`UpgradesVerifyImages` assumes no
  sizes); but that session fails. Hence the hypothesis `SizesDiffer` of the theorem, and
  the sizes in the run;
* likewise the manager reports SUCCESS of an application that has the right *version*:
  a package that is changed without a new version is not told from the one that runs
  (`VersionsDiffer`);
* a session for a package the gateway no longer has cannot be ended by `upgrade start`
  (see the fairness of `RestartRepairs` in section 3). The M7 plan, section 1, expects
  an upgrade to be continued or repeated once conditions are restored; it speaks of
  the same package.

And one among the histories of `Downloader`:

* a `firmware validate` typed during a transfer makes the upgrade fail if one of its own reads
  of the partition fails (`firmware_store.c:359`, `370`), although the transfer's reads
  would have succeeded (`OnlyFailedReadEndsTransfer`: nothing else clears the flag then).

## 6. What is not modelled

Nine tenths of the repository's lines are CMSIS and the STM32 HAL, twice (once per
firmware image). They are third-party code; the specifications stand on what the
firmware's own code uses of them. The rest of what is left out:

* *Encoding, CRC-16/CRC-32 and SHA-256 arithmetic.* Pure functions on bytes with unit
  tests in the repository. What they decide (a frame decodes, a digest matches) is in
  the models.
* *Wi-Fi* (`gateway_wifi.c`). Its handlers run one after the other on the event loop
  and keep no state an upgrade depends on; the connection that comes and goes is
  the network error of `Downloader`.
* *Reliability faults* (`reliability_fault.c`). Injections compiled in for tests. What
  they drop and repeat the line of `Upgrade` drops and repeats by itself; the gap and the
  wrong CRC they send are requests `Device` takes from any client.
* *The console's parsing and printing, PC tools, packaging scripts.* Sequential
  programs without state of their own.
* *Self-tests* of journal and flash: destructive bring-up programs, not in the product.
* *Diagnostic counters* of UART, stream and client.
* *Electrical behaviour of the flash* beyond a word that is programmed, not, or partly;
  and in `Journal` an interrupted erase is all or nothing (`BootMetadata` has the
  partial one too, and its theorems hold for it; only `SlotsImplementJournal` does not).

## 7. Plan

Done: `Journal`, `JournalSpec`, `BootMetadata` with its proofs, the refinement included;
`Device` with its proofs, progress and reserve among them; `Downloader` with its proofs;
`RtuStream`, `UartRtu` and `FrameChannel` with the refinement proved, and that clean
frames are kept; `Upgrade`, with
`NodeIsDevice`, the match of answers, the data in the flash and the meaning of SUCCESS.
In the order of their worth, what could follow:

1. An interrupted erase that leaves some slots, in `JournalSpec` and `Device` as well:
   the journal may then come back with an *older* record.
2. `FewLossesAreSurvived` for every number of attempts.
