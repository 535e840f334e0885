----------------------------- MODULE Downloader -----------------------------
(***************************************************************************)
(* The package cache of the gateway: the download task with its NVS        *)
(* checkpoint (firmware_downloader.c), the stm_fw partition it fills       *)
(* (firmware_store.c), the console commands that compete for it            *)
(* (gateway_console.c), resets of the gateway, and a server whose releases *)
(* are replaced while they are downloaded.                                 *)
(*                                                                         *)
(* The partition is an array of sectors.  A sector holds the bytes of one  *)
(* release at that place, or it is Erased, or it is Torn (anything else);  *)
(* sector 0 is the package header, whose valid_marker is a field of its    *)
(* own.  Checksums are equality of content.  A sector that power failure   *)
(* leaves partly programmed with the bytes the manifest promises counts as *)
(* Erased: programming them again completes it.                            *)
(***************************************************************************)
EXTENDS Naturals

CONSTANTS Releases,        \* published packages, told apart by their SHA-256
          Ids,             \* firmware ids
          IdOf,            \* the id a release is published under
          Size,            \* sectors of a release
          Sectors,         \* sectors of the partition
          CheckpointEvery, \* sectors between checkpoints (64 KiB)
          Erased, Torn, Valid, None,
          Wanted,          \* the id the operator asks for again and again
          Bound            \* how often each kind of event below may happen

ASSUME SizeAssumption ==
  /\ Size \in [Releases -> 1 .. Sectors]
  /\ Sectors \in Nat \ {0}
ASSUME IdAssumption == IdOf \in [Releases -> Ids] /\ Wanted \in Ids
ASSUME CheckpointAssumption == CheckpointEvery \in Nat \ {0}
ASSUME ValueAssumption ==
  /\ Erased \notin Releases /\ Torn \notin Releases /\ None \notin Releases
  /\ Erased # Torn /\ Erased # Valid /\ Torn # Valid

\* The events a run bounds: failing HTTP calls, failing flash, NVS or memory
\* calls, resets, cancel and validate commands, releases put in the place of
\* others.
Events == {"network", "local", "reset", "cancel", "validate", "publish"}

ASSUME BoundAssumption == Bound \in [Events -> Nat]

VARIABLES
  flash,       \* content of each sector
  marker,      \* valid_marker in flash: Erased, Valid or Torn
  checkpoint,  \* the NVS record: None or [release, received]
  ready,       \* s_manifest_valid
  pc,          \* where the download task is; "none" when s_task is NULL
  requested,   \* s_requested_firmware_id
  manifest,    \* the release whose manifest the task fetched
  record,      \* the task's copy of the checkpoint
  resume,      \* whether the task continues a checkpoint
  stored,      \* received_size at the last save of this request
  next,        \* the next sector to erase
  state,       \* s_progress.state, "ACTIVE" standing for all before COMMIT
  cancel,      \* s_cancel_requested
  failed,      \* the status the task ends with is an error
  validating,  \* what `firmware validate` has found but not yet stored
  upgrade,     \* the upgrade task's use of the partition
  published,   \* the release the server offers under each id
  spent        \* events so far

store == <<flash, marker, ready>>
task == <<pc, requested, manifest, record, resume, stored, next, state,
          cancel, failed>>
others == <<validating, upgrade, published>>
vars == <<store, checkpoint, task, others, spent>>

Records == [release : Releases, received : 0 .. Sectors]
ASSUME NoneAssumption == None \notin Records

Phases == {"none", "wait", "fetch", "prepare", "erase", "save", "request",
           "receive", "checkpoint", "verify", "verified", "commit",
           "mark", "validate", "clear", "finish"}

-----------------------------------------------------------------------------
(* What the partition holds.                                               *)

\* The header passes firmware_store_validate_manifest.
HeaderValid == marker = Valid /\ flash[0] \in Releases

\* Every sector of release r is r's.
Holds(r) == \A s \in 0 .. Size[r] - 1 : flash[s] = r

\* firmware_store_validate: the header, and the image the header describes.
PackageValid == HeaderValid /\ Holds(flash[0])

\* Flash bits only go from 1 to 0: new data needs an erased sector.
Programmed(old, data) == IF old \in {Erased, data} THEN data ELSE Torn

-----------------------------------------------------------------------------
(* Outcomes shared by the steps of the task.                               *)

Happen(kinds) ==
  /\ \A kind \in kinds : spent[kind] < Bound[kind]
  /\ spent' = [e \in Events |-> IF e \in kinds THEN spent[e] + 1 ELSE spent[e]]
Event(kind) == Happen({kind})

\* goto finished with an error.
End == pc' = "finish" /\ failed' = TRUE

\* An error once download_binary runs: a canceled task saves its record, and
\* nobody looks whether that failed.
EndDownload ==
  /\ End
  /\ checkpoint' \in {checkpoint} \cup (IF cancel THEN {record} ELSE {})

\* The console runs one command at a time; only `firmware validate` takes long.
ConsoleIsFree == validating = None

\* Mutant: init_record keeps the received_size of the same release.
MutFresh(r) ==
  [release |-> r,
   received |-> IF record.release = r THEN record.received ELSE 0]

Fresh(r) == [release |-> r, received |-> 0]

\* Mutant: any checkpoint will do.
MutMatches(saved, r) == saved # None

\* firmware_downloader_checkpoint_matches: id, size, SHA-256 and ETag.
Matches(saved, r) == saved # None /\ saved.release = r

\* The task saves a checkpoint at the end and when it enters a new 64 KiB.
CheckpointDue(received) ==
  \/ received = Size[manifest]
  \/ received \div CheckpointEvery > stored \div CheckpointEvery

-----------------------------------------------------------------------------
(* The download task, one action per call that can fail, block or be       *)
(* interrupted by the console.                                             *)

\* Waiting for Wi-Fi and for the time, and looking for a cancel after each.
Wait ==
  /\ pc = "wait"
  /\ \/ cancel /\ End /\ UNCHANGED spent
     \/ ~cancel /\ pc' = "fetch" /\ UNCHANGED <<failed, spent>>
     \/ Event("network") /\ End
  /\ UNCHANGED <<store, checkpoint, others, requested, manifest, record,
                 resume, stored, next, state, cancel>>

FetchManifest ==
  /\ pc = "fetch"
  /\ \/ /\ manifest' = published[requested]
        /\ pc' = "prepare"
        /\ UNCHANGED <<failed, spent>>
     \/ Event("network") /\ End /\ UNCHANGED manifest
  /\ UNCHANGED <<store, checkpoint, others, requested, record, resume, stored,
                 next, state, cancel>>

\* firmware_store_download_begin up to the erase of the first sector.
BeginErase ==
  /\ ready' = FALSE
  /\ next' = 0
  /\ pc' = "erase"

\* Resume from a matching checkpoint if the marker is still erased, or begin.
Prepare ==
  /\ pc = "prepare"
  /\ \/ cancel /\ End /\ UNCHANGED <<ready, record, resume, next, spent>>
     \/ /\ ~cancel
        /\ Matches(checkpoint, manifest)
        /\ marker = Erased
        /\ record' = checkpoint
        /\ resume' = TRUE
        /\ ready' = FALSE
        /\ pc' = "request"
        /\ UNCHANGED <<next, failed, spent>>
     \/ /\ ~cancel
        /\ \/ ~Matches(checkpoint, manifest) /\ UNCHANGED spent
           \/ marker # Erased /\ UNCHANGED spent
           \/ Event("local")
        /\ BeginErase
        /\ UNCHANGED <<record, resume, failed>>
  /\ UNCHANGED <<flash, marker, checkpoint, others, requested, manifest, stored,
                 state, cancel>>

\* Mutants: erase_size rounds to the sector after; the header is erased last.
MutEraseSize(r) == Size[r] + 1
MutEraseOrder(n) == Size[manifest] - 1 - n

\* erase_size: the sectors the package touches, erased from the header up.
EraseSize(r) == Size[r]
EraseOrder(n) == n

\* esp_partition_erase_range.  resume is still TRUE if the server ignored the
\* range: then the error is one of download_binary's.
EraseSector ==
  /\ pc = "erase"
  /\ \/ /\ flash' = [flash EXCEPT ![EraseOrder(next)] = Erased]
        /\ marker' = IF EraseOrder(next) = 0 THEN Erased ELSE marker
        /\ next' = next + 1
        /\ pc' = IF next + 1 = EraseSize(manifest) THEN "save" ELSE "erase"
        /\ UNCHANGED <<failed, checkpoint, spent>>
     \/ /\ Event("local")
        /\ IF resume THEN EndDownload ELSE End /\ UNCHANGED checkpoint
        /\ UNCHANGED <<flash, marker, next>>
  /\ UNCHANGED <<ready, others, requested, manifest, record, resume, stored,
                 state, cancel>>

\* init_record and save_checkpoint of a download that starts at byte 0.
SaveFresh ==
  /\ pc = "save"
  /\ record' = Fresh(manifest)
  /\ \/ /\ checkpoint' = Fresh(manifest)
        /\ pc' = "request"
        /\ resume' = FALSE
        /\ UNCHANGED <<failed, spent>>
     \/ /\ Event("local") /\ End
        /\ \/ UNCHANGED checkpoint
           \/ resume /\ cancel /\ checkpoint' = record'
        /\ UNCHANGED resume
  /\ UNCHANGED <<store, others, requested, manifest, stored, next, state,
                 cancel>>

\* The GET of the package.  Nothing is requested if all of it was received;
\* the answer must be of the manifest's release; a server may ignore the range.
Request ==
  /\ pc = "request"
  /\ \/ /\ record.received = Size[manifest]
        /\ pc' = "verify"
        /\ UNCHANGED <<store, checkpoint, stored, next, failed, spent>>
     \/ /\ record.received < Size[manifest]
        /\ published[requested] = manifest
        /\ stored' = record.received
        /\ pc' = "receive"
        /\ UNCHANGED <<store, checkpoint, next, failed, spent>>
     \/ /\ record.received \in 1 .. Size[manifest] - 1
        /\ resume
        /\ published[requested] = manifest
        /\ BeginErase
        /\ UNCHANGED <<flash, marker, checkpoint, stored, failed, spent>>
     \/ /\ record.received < Size[manifest]
        /\ \/ published[requested] # manifest /\ UNCHANGED spent
           \/ Event("network")
        /\ EndDownload
        /\ UNCHANGED <<store, stored, next>>
  /\ UNCHANGED <<others, requested, manifest, record, resume, state, cancel>>

\* One pass of the loop: cancel, read, write.  The server may have put another
\* file in the place of the one it streams.
Receive ==
  /\ pc = "receive"
  /\ \/ /\ cancel /\ EndDownload
        /\ UNCHANGED <<flash, record, spent>>
     \/ /\ ~cancel
        /\ \E data \in {manifest, published[requested]} :
             /\ record.received < Size[data]
             /\ flash' = [flash EXCEPT ![record.received] = Programmed(@, data)]
        /\ record' = [record EXCEPT !.received = @ + 1]
        /\ pc' = IF CheckpointDue(record'.received) THEN "checkpoint"
                                                    ELSE "receive"
        /\ UNCHANGED <<checkpoint, failed, spent>>
     \/ /\ ~cancel
        /\ Event("network") \/ Event("local")
        /\ EndDownload
        /\ UNCHANGED <<flash, record>>
  /\ UNCHANGED <<marker, ready, others, requested, manifest, resume, stored,
                 next, state, cancel>>

\* save_checkpoint inside the loop.
SaveCheckpoint ==
  /\ pc = "checkpoint"
  /\ \/ /\ checkpoint' = record
        /\ stored' = record.received
        /\ pc' = IF record.received = Size[manifest] THEN "verify"
                                                     ELSE "receive"
        /\ UNCHANGED <<failed, spent>>
     \/ Event("local") /\ EndDownload /\ UNCHANGED stored
  /\ UNCHANGED <<store, others, requested, manifest, record, resume, next,
                 state, cancel>>

\* Mutant: the hash is not compared.
MutAuthentic(r) == marker = Erased

\* The SHA-256 of all the sectors with the marker put in, and the header
\* against the manifest.
Authentic(r) == Holds(r) /\ marker = Erased

\* firmware_downloader_verify_package.
Verify ==
  /\ pc = "verify"
  /\ \/ /\ ~cancel /\ Authentic(manifest)
        /\ pc' = "verified"
        /\ UNCHANGED <<checkpoint, failed, spent>>
     \/ /\ \/ (cancel \/ ~Authentic(manifest)) /\ UNCHANGED spent
           \/ Event("local")
        /\ EndDownload
  /\ UNCHANGED <<store, others, requested, manifest, record, resume, stored,
                 next, state, cancel>>

\* set_state(COMMIT_PACKAGE), from where on a cancel is refused.
EnterCommit ==
  /\ pc = "verified"
  /\ state' = "COMMIT_PACKAGE"
  /\ pc' = "commit"
  /\ UNCHANGED <<store, checkpoint, others, spent, requested, manifest, record,
                 resume, stored, next, cancel, failed>>

\* The last look for a cancel.
LastCancelCheck ==
  /\ pc = "commit"
  /\ IF cancel THEN End ELSE pc' = "mark" /\ UNCHANGED failed
  /\ UNCHANGED <<store, checkpoint, others, spent, requested, manifest, record,
                 resume, stored, next, state, cancel>>

\* What firmware_store_download_commit asks of the partition.
Committable ==
  /\ flash[0] \in Releases
  /\ Holds(flash[0])
  /\ Size[flash[0]] = Size[manifest]

\* firmware_store_download_commit up to the marker.  `firmware validate` reads
\* into the same s_manifest and may have undone the marker put there.
Commit ==
  /\ pc = "mark"
  /\ \/ /\ Committable
        /\ marker' = Valid
        /\ pc' = "validate"
        /\ UNCHANGED <<failed, spent>>
     \/ /\ \/ (~Committable \/ ~ConsoleIsFree) /\ UNCHANGED spent
           \/ Event("local")
        /\ End
        /\ UNCHANGED marker
  /\ UNCHANGED <<flash, ready, checkpoint, others, requested, manifest, record,
                 resume, stored, next, state, cancel>>

\* The firmware_store_validate that ends firmware_store_download_commit.
CommitValidate ==
  /\ pc = "validate"
  /\ \/ /\ ready' = PackageValid
        /\ IF PackageValid THEN pc' = "clear" /\ UNCHANGED failed ELSE End
        /\ UNCHANGED spent
     \/ Event("local") /\ ready' = FALSE /\ End
  /\ UNCHANGED <<flash, marker, checkpoint, others, requested, manifest, record,
                 resume, stored, next, state, cancel>>

\* clear_checkpoint; its failure is only logged.
ClearCheckpoint ==
  /\ pc = "clear"
  /\ pc' = "finish"
  /\ \/ checkpoint' = None /\ UNCHANGED spent
     \/ Event("local") /\ UNCHANGED checkpoint
  /\ UNCHANGED <<store, others, requested, manifest, record, resume, stored,
                 next, state, cancel, failed>>

\* Mutant: s_task is not cleared.
MutFinish ==
  /\ pc = "finish"
  /\ state' = IF ~failed THEN "READY" ELSE IF cancel THEN "CANCELED"
                                                      ELSE "FAILED"
  /\ cancel' = FALSE
  /\ UNCHANGED <<store, checkpoint, others, spent, pc, requested, manifest,
                 record, resume, stored, next, failed>>

\* firmware_downloader_finish.
Finish ==
  /\ pc = "finish"
  /\ state' = IF ~failed THEN "READY" ELSE IF cancel THEN "CANCELED"
                                                      ELSE "FAILED"
  /\ pc' = "none"
  /\ cancel' = FALSE
  /\ UNCHANGED <<store, checkpoint, others, spent, requested, manifest, record,
                 resume, stored, next, failed>>

TaskStep ==
  \/ Wait \/ FetchManifest \/ Prepare \/ EraseSector \/ SaveFresh \/ Request
  \/ Receive \/ SaveCheckpoint \/ Verify \/ EnterCommit \/ LastCancelCheck
  \/ Commit \/ CommitValidate \/ ClearCheckpoint \/ Finish

-----------------------------------------------------------------------------
(* The console, one command at a time, and the upgrade task it starts.     *)

\* Mutant: `firmware download` does not look for an upgrade.
MutMayDownload == pc = "none"

\* `firmware download <id>`: refused while an upgrade or a download is active.
MayDownload == upgrade = "none" /\ pc = "none"

StartDownload(id) ==
  /\ ConsoleIsFree
  /\ MayDownload
  /\ requested' = id
  /\ cancel' = FALSE
  /\ resume' = FALSE
  /\ \/ pc' = "wait" /\ state' = "ACTIVE" /\ failed' = FALSE /\ UNCHANGED spent
     \/ Event("local") /\ pc' = "none" /\ state' = "FAILED" /\ failed' = TRUE
  /\ UNCHANGED <<store, checkpoint, others, manifest, record, stored, next>>

\* Mutant: a cancel is accepted in COMMIT_PACKAGE too.
MutMayCancel == pc # "none"

\* `firmware download cancel`: refused without a task and while it commits.
MayCancel == pc # "none" /\ state # "COMMIT_PACKAGE"

CancelDownload ==
  /\ ConsoleIsFree
  /\ MayCancel
  /\ ~cancel
  /\ Event("cancel")
  /\ cancel' = TRUE
  /\ UNCHANGED <<store, checkpoint, others, pc, requested, manifest, record,
                 resume, stored, next, state, failed>>

\* `firmware validate`, which nothing forbids during a download or an upgrade: it
\* reads the header, then the image, and stores what it found when the download may
\* have moved on.  A read that fails says nothing of the package.
ValidateBegin ==
  /\ ConsoleIsFree
  /\ \/ /\ Event("validate")
        /\ validating' = IF PackageValid THEN "valid" ELSE "invalid"
     \/ Happen({"validate", "local"}) /\ validating' = "unread"
  /\ UNCHANGED <<store, checkpoint, task, upgrade, published>>

\* firmware_store_validate_image comes to a sector that has changed since, or that it
\* cannot read.
ValidateImage ==
  /\ validating = "valid"
  /\ \/ ~PackageValid /\ validating' = "invalid" /\ UNCHANGED spent
     \/ Event("local") /\ validating' = "unread"
  /\ UNCHANGED <<store, checkpoint, task, upgrade, published>>

ValidateEnd ==
  /\ ~ConsoleIsFree
  /\ ready' = (validating = "valid")
  /\ validating' = None
  /\ UNCHANGED <<flash, marker, checkpoint, task, upgrade, published, spent>>

\* Mutant: `upgrade start` does not look for a download.
MutMayUpgrade == upgrade = "none"

\* `upgrade start`: refused while a download or an upgrade is active.
MayUpgrade == pc = "none" /\ upgrade = "none"

StartUpgrade ==
  /\ ConsoleIsFree
  /\ MayUpgrade
  /\ upgrade' = "validate"
  /\ UNCHANGED <<store, checkpoint, task, validating, published, spent>>

\* The upgrade task validates the package before it sends any of it, and ends
\* when it is done, aborted or out of luck.
UpgradeValidate ==
  /\ upgrade = "validate"
  /\ \/ /\ ready' = PackageValid
        /\ upgrade' = IF PackageValid THEN "transfer" ELSE "none"
        /\ UNCHANGED spent
     \/ Event("local") /\ ready' = FALSE /\ upgrade' = "none"
  /\ UNCHANGED <<flash, marker, checkpoint, task, validating, published>>

UpgradeEnd ==
  /\ upgrade = "transfer"
  /\ upgrade' = "none"
  /\ UNCHANGED <<store, checkpoint, task, validating, published, spent>>

Console ==
  \/ \E id \in Ids : StartDownload(id)
  \/ CancelDownload \/ ValidateBegin \/ ValidateImage \/ ValidateEnd
  \/ StartUpgrade \/ UpgradeValidate \/ UpgradeEnd

-----------------------------------------------------------------------------
(* The world around it.                                                    *)

\* The firmware server offers another release under an id.
Publish ==
  /\ Event("publish")
  /\ \E r \in Releases :
       /\ published[IdOf[r]] # r
       /\ published' = [published EXCEPT ![IdOf[r]] = r]
  /\ UNCHANGED <<store, checkpoint, task, validating, upgrade>>

\* What a power failure may leave of the sector being erased, of one being
\* programmed with other bytes than the manifest's, and of the marker.
TornFlash ==
  {flash} \cup
  {[flash EXCEPT ![s] = Torn] :
     s \in (IF pc = "erase" THEN {EraseOrder(next)} ELSE {}) \cup
          (IF pc = "receive" /\ published[requested] # manifest
           THEN {record.received} ELSE {})}
TornMarker ==
  IF (pc = "erase" /\ EraseOrder(next) = 0) \/ (pc = "mark" /\ Committable)
  THEN {marker, Erased, Torn} ELSE {marker}

\* A reset, then firmware_store_open and firmware_downloader_init: a package
\* whose header is valid makes the checkpoint stale; that it could not be
\* cleared is only logged.
Reset ==
  /\ flash' \in TornFlash
  /\ marker' \in TornMarker
  /\ ready' = HeaderValid'
  /\ \/ /\ Event("reset")
        /\ checkpoint' = IF HeaderValid' THEN None ELSE checkpoint
     \/ /\ Happen({"reset", "local"})
        /\ HeaderValid'
        /\ UNCHANGED checkpoint
  /\ pc' = "none"
  /\ state' = "IDLE"
  /\ cancel' = FALSE
  /\ validating' = None
  /\ upgrade' = "none"
  /\ UNCHANGED <<requested, manifest, record, resume, stored, next, failed,
                 published>>

-----------------------------------------------------------------------------
Init ==
  /\ flash = [s \in 0 .. Sectors - 1 |-> Erased]
  /\ marker = Erased
  /\ checkpoint = None
  /\ ready = FALSE
  /\ pc = "none"
  /\ requested = Wanted
  /\ published \in {p \in [Ids -> Releases] : \A id \in Ids : IdOf[p[id]] = id}
  /\ manifest = published[Wanted]
  /\ record = [release |-> manifest, received |-> 0]
  /\ resume = FALSE
  /\ stored = 0
  /\ next = 0
  /\ state = "IDLE"
  /\ cancel = FALSE
  /\ failed = FALSE
  /\ validating = None
  /\ upgrade = "none"
  /\ spent = [e \in Events |-> 0]

Next == TaskStep \/ Console \/ Publish \/ Reset

Spec == Init /\ [][Next]_vars

\* The task runs, its waits and its HTTP reads having timeouts; a console
\* command and an upgrade end; and the operator who wants a package asks for it
\* whenever the console lets him.
Fairness ==
  /\ WF_vars(TaskStep)
  /\ WF_vars(ValidateEnd)
  /\ WF_vars(UpgradeValidate)
  /\ WF_vars(UpgradeEnd)
  /\ SF_vars(StartDownload(Wanted))

FairSpec == Spec /\ Fairness

-----------------------------------------------------------------------------
TypeOK ==
  /\ flash \in [0 .. Sectors - 1 -> Releases \cup {Erased, Torn}]
  /\ marker \in {Erased, Valid, Torn}
  /\ checkpoint \in Records \cup {None}
  /\ ready \in BOOLEAN
  /\ pc \in Phases
  /\ requested \in Ids
  /\ manifest \in Releases
  /\ record \in Records
  /\ resume \in BOOLEAN
  /\ stored \in 0 .. Sectors
  /\ next \in 0 .. Sectors
  /\ state \in {"IDLE", "ACTIVE", "COMMIT_PACKAGE", "READY", "CANCELED",
                "FAILED"}
  /\ cancel \in BOOLEAN
  /\ failed \in BOOLEAN
  /\ validating \in {None, "valid", "invalid", "unread"}
  /\ upgrade \in {"none", "validate", "transfer"}
  /\ published \in [Ids -> Releases]
  /\ spent \in [Events -> Nat]

\* A header with its marker stands before the whole image it describes: no
\* reset, torn erase, cancel, error or replaced release leaves a half package
\* that firmware_store_open would announce (the claim of the M9 design).
CommittedIsWhole == HeaderValid => Holds(flash[0])

\* A download that reports READY left in the partition, whole and marked, the
\* very release whose manifest it fetched, whatever the server streamed.
ReadyIsTheManifest ==
  state = "READY" => marker = Valid /\ Holds(manifest)

\* A checkpoint never counts sectors of another firmware id as received: no
\* reset or error between an erase and the save that follows it, and no
\* manifest, lets a download continue what another one has left.
CheckpointKeepsItsId ==
  checkpoint # None =>
    \A s \in 0 .. checkpoint.received - 1 :
      flash[s] \in Releases => IdOf[flash[s]] = IdOf[checkpoint.release]

\* While the upgrade task sends the package to the node, the partition holds a
\* whole one: no download, whenever it was asked for, erases or rewrites it under the
\* transfer.
UpgradeSendsWholePackage == upgrade = "transfer" => PackageValid

\* firmware_store_read serves a transfer for as long as s_manifest_valid is set.
\* Neither a download nor what `firmware validate` finds ever clears it in mid-transfer;
\* one thing does: a partition read of `firmware validate` that fails.
OnlyFailedReadEndsTransfer ==
  [][upgrade = "transfer" /\ upgrade' = "transfer" /\ ready /\ ~ready'
       => validating = "unread"]_vars

\* A task whose cancel was accepted never makes its package valid.
CanceledIsNotCommitted ==
  [][marker # Valid /\ marker' = Valid => ~cancel]_vars

\* Every download ends: no error, cancel, reset or server makes it hang.
DownloadEnds == pc # "none" ~> pc = "none"

\* Downloading again repairs a failed download: an operator who keeps asking
\* for one id has it READY again and again.
RetryRepairs == []<>(state = "READY" /\ requested = Wanted)
=============================================================================
