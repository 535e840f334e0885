-------------------------- MODULE Downloader_proofs --------------------------
(***************************************************************************)
(* What holds of Downloader for every set of releases, every partition and *)
(* any number of resets, errors, cancels and publications: its types, and  *)
(* its safety properties, each from an invariant that the steps of the     *)
(* task, the console, the server and the resets preserve.                  *)
(***************************************************************************)
EXTENDS Downloader, TLAPS

-----------------------------------------------------------------------------
(* Type correctness.  It needs to know where the task may be with what.     *)

\* A record of a download within its release.
Within(r) == r.received <= Size[r.release]

\* What the task relies on between its steps.
TaskInv ==
  /\ Within(record)
  /\ checkpoint # None => Within(checkpoint)
  /\ pc \in {"request", "receive", "checkpoint"} => record.release = manifest
  /\ pc = "receive" => record.received < Size[manifest]
  /\ pc = "erase" => next < Size[manifest]
  /\ \A id \in Ids : IdOf[published[id]] = id

TypeInv == TypeOK /\ TaskInv

\* TypeOK in parts.
StoreType ==
  /\ flash \in [0 .. Sectors - 1 -> Releases \cup {Erased, Torn}]
  /\ marker \in {Erased, Valid, Torn}
  /\ checkpoint \in Records \cup {None}
FlagType ==
  /\ ready \in BOOLEAN
  /\ resume \in BOOLEAN
  /\ cancel \in BOOLEAN
  /\ failed \in BOOLEAN
ControlType ==
  /\ pc \in Phases
  /\ state \in {"IDLE", "ACTIVE", "COMMIT_PACKAGE", "READY", "CANCELED",
                "FAILED"}
  /\ validating \in {None, "valid", "invalid", "unread"}
  /\ upgrade \in {"none", "validate", "transfer"}
DataType ==
  /\ requested \in Ids
  /\ manifest \in Releases
  /\ record \in Records
  /\ stored \in 0 .. Sectors
  /\ next \in 0 .. Sectors
  /\ published \in [Ids -> Releases]

\* The counters of events stay natural numbers.
LEMMA SpentType ==
  \A kinds : spent \in [Events -> Nat] /\ Happen(kinds) => spent' \in [Events -> Nat]
  BY DEF Happen

\* A fresh record is within its release.
LEMMA FreshType ==
  ASSUME NEW r \in Releases
  PROVE  Fresh(r) \in Records /\ Within(Fresh(r)) /\ Fresh(r).release = r
                              /\ Fresh(r).received = 0
  BY SizeAssumption DEF Fresh, Records, Within

\* Every step preserves the type invariant.
LEMMA TypeStep == TypeInv /\ [Next]_vars => TypeInv'
<1> SUFFICES ASSUME TypeInv, [Next]_vars PROVE TypeInv'
  OBVIOUS
<1> USE SizeAssumption, IdAssumption, ValueAssumption
<1> USE DEF TypeInv, TypeOK, store, task, others
<1>p. StoreType' /\ FlagType' /\ ControlType' /\ DataType' /\ spent' \in [Events -> Nat] => TypeOK'
  BY DEF StoreType, FlagType, ControlType, DataType
<1>1. CASE Wait \/ FetchManifest
  <2>1. spent' \in [Events -> Nat]
    BY <1>1, SpentType DEF Wait, FetchManifest, Event
  <2>2. StoreType'
    BY <1>1 DEF Wait, FetchManifest, StoreType, End, Records, TaskInv
  <2>3. FlagType'
    BY <1>1 DEF Wait, FetchManifest, FlagType, End
  <2>4. ControlType'
    BY <1>1 DEF Wait, FetchManifest, ControlType, End, Phases
  <2>5. DataType'
    BY <1>1 DEF Wait, FetchManifest, DataType, End, Records, TaskInv
  <2>6. TaskInv'
    BY <1>1 DEF Wait, FetchManifest, TaskInv, Within, Records, End
  <2> QED
    BY <1>p, <2>1, <2>2, <2>3, <2>4, <2>5, <2>6
<1>2. CASE Prepare
  <2>1. spent' \in [Events -> Nat]
    BY <1>2, SpentType DEF Prepare, Event
  <2>2. StoreType'
    BY <1>2 DEF Prepare, StoreType, Matches, BeginErase, End, Records,
          TaskInv
  <2>3. FlagType'
    BY <1>2 DEF Prepare, FlagType, Matches, BeginErase, End
  <2>4. ControlType'
    BY <1>2 DEF Prepare, ControlType, Matches, BeginErase, End, Phases
  <2>5. DataType'
    BY <1>2 DEF Prepare, DataType, Matches, BeginErase, End, Records, TaskInv
  <2>6. TaskInv'
    BY <1>2 DEF Prepare, TaskInv, Within, Records, Matches, BeginErase, End
  <2> QED
    BY <1>p, <2>1, <2>2, <2>3, <2>4, <2>5, <2>6
<1>3. CASE EraseSector
  <2>1. spent' \in [Events -> Nat]
    BY <1>3, SpentType DEF EraseSector, Event
  <2>2. StoreType'
    BY <1>3 DEF EraseSector, StoreType, EraseOrder, EraseSize, EndDownload,
          End, Records, TaskInv
  <2>3. FlagType'
    BY <1>3 DEF EraseSector, FlagType, EraseOrder, EraseSize, EndDownload,
          End
  <2>4. ControlType'
    BY <1>3 DEF EraseSector, ControlType, EraseOrder, EraseSize, EndDownload,
          End, Phases
  <2>5. DataType'
    BY <1>3 DEF EraseSector, DataType, EraseOrder, EraseSize, EndDownload,
          End, Records, TaskInv
  <2>6. TaskInv'
    BY <1>3 DEF EraseSector, TaskInv, Within, Records, EraseOrder, EraseSize,
          EndDownload, End
  <2> QED
    BY <1>p, <2>1, <2>2, <2>3, <2>4, <2>5, <2>6
<1>4. CASE SaveFresh
  <2>1. spent' \in [Events -> Nat]
    BY <1>4, SpentType DEF SaveFresh, Event
  <2>2. StoreType'
    BY <1>4, FreshType DEF SaveFresh, StoreType, End, Records, TaskInv
  <2>3. FlagType'
    BY <1>4 DEF SaveFresh, FlagType, End
  <2>4. ControlType'
    BY <1>4 DEF SaveFresh, ControlType, End, Phases
  <2>5. DataType'
    BY <1>4, FreshType DEF SaveFresh, DataType, End, Records, TaskInv
  <2>6. TaskInv'
    BY <1>4, FreshType DEF SaveFresh, TaskInv, Within, Records, End
  <2> QED
    BY <1>p, <2>1, <2>2, <2>3, <2>4, <2>5, <2>6
<1>5. CASE Request
  <2>1. spent' \in [Events -> Nat]
    BY <1>5, SpentType DEF Request, Event
  <2>2. StoreType'
    BY <1>5 DEF Request, StoreType, BeginErase, EndDownload, End, Records,
          TaskInv
  <2>3. FlagType'
    BY <1>5 DEF Request, FlagType, BeginErase, EndDownload, End
  <2>4. ControlType'
    BY <1>5 DEF Request, ControlType, BeginErase, EndDownload, End, Phases
  <2>5. DataType'
    BY <1>5 DEF Request, DataType, BeginErase, EndDownload, End, Records,
          TaskInv
  <2>6. TaskInv'
    BY <1>5 DEF Request, TaskInv, Within, Records, BeginErase, EndDownload,
          End
  <2> QED
    BY <1>p, <2>1, <2>2, <2>3, <2>4, <2>5, <2>6
<1>6. CASE Receive
  <2> DEFINE more == [record EXCEPT !.received = @ + 1]
  <2>0. /\ more \in Records
        /\ more.release = manifest
        /\ more.received = record.received + 1
        /\ more.received <= Size[manifest]
    <3>1. record.release = manifest /\ record.received < Size[manifest]
      BY <1>6 DEF Receive, TaskInv
    <3>2. Size[manifest] \in 1 .. Sectors /\ Sectors \in Nat
      OBVIOUS
    <3>3. record \in [release : Releases, received : 0 .. Sectors]
      BY DEF Records
    <3> HIDE DEF TypeInv
    <3> QED
      BY <3>1, <3>2, <3>3 DEF Records
  <2>9. Size[manifest] \in Nat /\ record.received \in Nat /\ record.received < Size[manifest]
    BY <1>6 DEF Receive, TaskInv, Records
  <2>7. /\ record' \in {record, more}
        /\ checkpoint' \in {checkpoint, record}
        /\ manifest' = manifest /\ published' = published
        /\ pc' # "finish" => record' = more
        /\ pc' \in {"finish", "receive", "checkpoint"}
    BY <1>6 DEF Receive, End, EndDownload
  <2>8. pc' = "receive" => record'.received # Size[manifest]
    BY <1>6 DEF Receive, End, EndDownload, CheckpointDue
  <2> HIDE DEF more
  <2>1. spent' \in [Events -> Nat]
    BY <1>6, SpentType DEF Receive, Event
  <2>2. StoreType'
    <3>1. marker' = marker /\ checkpoint' \in Records \cup {None}
      BY <1>6, <2>7 DEF Receive
    <3>2. published[requested] \in Releases /\ manifest \in Releases
      OBVIOUS
    <3>3. \/ flash' = flash
          \/ \E data \in {manifest, published[requested]} :
               flash' = [flash EXCEPT ![record.received] = Programmed(@, data)]
      BY <1>6 DEF Receive
    <3>4. \A old, data \in Releases \cup {Erased, Torn} :
            Programmed(old, data) \in Releases \cup {Erased, Torn}
      BY DEF Programmed
    <3>5. flash' \in [0 .. Sectors - 1 -> Releases \cup {Erased, Torn}]
      <4> DEFINE contents == Releases \cup {Erased, Torn}
      <4>1. flash \in [0 .. Sectors - 1 -> contents]
        OBVIOUS
      <4>2. \A s \in 0 .. Sectors - 1, data \in contents :
              Programmed(flash[s], data) \in contents
        BY <3>4, <4>1
      <4> HIDE DEF TypeInv, contents
      <4>3. published[requested] \in contents /\ manifest \in contents
        BY <3>2 DEF contents
      <4>4. record.received \in 0 .. Sectors - 1
        <5>1. Size[manifest] \in 1 .. Sectors /\ Sectors \in Nat
          BY <3>2
        <5> QED
          BY <5>1, <2>9
      <4>5. ASSUME NEW data \in {manifest, published[requested]},
                   flash' = [flash EXCEPT ![record.received] = Programmed(@, data)]
            PROVE  flash' \in [0 .. Sectors - 1 -> contents]
        BY <4>1, <4>2, <4>3, <4>4, <4>5
      <4>6. flash' \in [0 .. Sectors - 1 -> contents]
        BY <3>3, <4>1, <4>5
      <4> QED
        BY <4>6 DEF contents
    <3> QED
      BY <3>1, <3>5 DEF StoreType
  <2>3. FlagType'
    BY <1>6 DEF Receive, FlagType, End, EndDownload, CheckpointDue, Programmed
  <2>4. ControlType'
    BY <1>6 DEF Receive, ControlType, End, EndDownload, CheckpointDue, Programmed, Phases
  <2>5. DataType'
    <3>1. record' \in Records
      BY <2>0, <2>7, <2>8
    <3> QED
      BY <1>6, <3>1 DEF Receive, DataType
  <2>6. TaskInv'
    <3>1. Within(record')
      BY <2>0, <2>7 DEF Within, TaskInv
    <3>2. checkpoint' # None => Within(checkpoint')
      BY <2>0, <2>7 DEF TaskInv
    <3>3. pc' \in {"finish", "receive", "checkpoint"} /\ manifest' = manifest /\ published' = published
      BY <1>6, <2>7, <2>8 DEF Receive
    <3>4. pc' \in {"receive", "checkpoint"} => record'.release = manifest
      BY <2>0, <2>7, <2>8
    <3>5. pc' = "receive" => record'.received < Size[manifest]
      <4> SUFFICES ASSUME pc' = "receive" PROVE record'.received < Size[manifest]
        OBVIOUS
      <4>1. record' = more
        BY <2>7
      <4>2. record'.received = record.received + 1
        BY <4>1, <2>0
      <4>3. record'.received # Size[manifest]
        BY <2>8
      <4> HIDE DEF TypeInv
      <4> QED
        BY <4>2, <4>3, <2>9
    <3> QED
      BY <3>1, <3>2, <3>3, <3>4, <3>5 DEF TaskInv
  <2> QED
    BY <1>p, <2>1, <2>2, <2>3, <2>4, <2>5, <2>6
<1>7. CASE SaveCheckpoint \/ Verify
  <2>1. spent' \in [Events -> Nat]
    BY <1>7, SpentType DEF SaveCheckpoint, Verify, Event
  <2>2. StoreType'
    BY <1>7 DEF SaveCheckpoint, Verify, StoreType, EndDownload, End, Records,
          TaskInv
  <2>3. FlagType'
    BY <1>7 DEF SaveCheckpoint, Verify, FlagType, EndDownload, End
  <2>4. ControlType'
    BY <1>7 DEF SaveCheckpoint, Verify, ControlType, EndDownload, End, Phases
  <2>5. DataType'
    BY <1>7 DEF SaveCheckpoint, Verify, DataType, EndDownload, End, Records,
          TaskInv
  <2>6. TaskInv'
    BY <1>7 DEF SaveCheckpoint, Verify, TaskInv, Within, Records,
          EndDownload, End
  <2> QED
    BY <1>p, <2>1, <2>2, <2>3, <2>4, <2>5, <2>6
<1>8. CASE EnterCommit \/ LastCancelCheck \/ Commit
  <2>1. spent' \in [Events -> Nat]
    BY <1>8, SpentType DEF EnterCommit, LastCancelCheck, Commit, Event
  <2>2. StoreType'
    BY <1>8 DEF EnterCommit, LastCancelCheck, Commit, StoreType, End,
          Records, TaskInv
  <2>3. FlagType'
    BY <1>8 DEF EnterCommit, LastCancelCheck, Commit, FlagType, End
  <2>4. ControlType'
    BY <1>8 DEF EnterCommit, LastCancelCheck, Commit, ControlType, End,
          Phases
  <2>5. DataType'
    BY <1>8 DEF EnterCommit, LastCancelCheck, Commit, DataType, End, Records,
          TaskInv
  <2>6. TaskInv'
    BY <1>8 DEF EnterCommit, LastCancelCheck, Commit, TaskInv, Within,
          Records, End
  <2> QED
    BY <1>p, <2>1, <2>2, <2>3, <2>4, <2>5, <2>6
<1>9. CASE CommitValidate \/ ClearCheckpoint \/ Finish
  <2>1. spent' \in [Events -> Nat]
    BY <1>9, SpentType DEF CommitValidate, ClearCheckpoint, Finish, Event
  <2>2. StoreType'
    BY <1>9 DEF CommitValidate, ClearCheckpoint, Finish, StoreType, End,
          PackageValid, HeaderValid, Records, TaskInv
  <2>3. FlagType'
    BY <1>9 DEF CommitValidate, ClearCheckpoint, Finish, FlagType, End,
          PackageValid, HeaderValid
  <2>4. ControlType'
    BY <1>9 DEF CommitValidate, ClearCheckpoint, Finish, ControlType, End,
          PackageValid, HeaderValid, Phases
  <2>5. DataType'
    BY <1>9 DEF CommitValidate, ClearCheckpoint, Finish, DataType, End,
          PackageValid, HeaderValid, Records, TaskInv
  <2>6. TaskInv'
    BY <1>9 DEF CommitValidate, ClearCheckpoint, Finish, TaskInv, Within,
          Records, End, PackageValid, HeaderValid
  <2> QED
    BY <1>p, <2>1, <2>2, <2>3, <2>4, <2>5, <2>6
<1>10. CASE \E id \in Ids : StartDownload(id) \/ CancelDownload
  <2>1. spent' \in [Events -> Nat]
    BY <1>10, SpentType DEF StartDownload, CancelDownload, Event
  <2>2. StoreType'
    BY <1>10 DEF StartDownload, CancelDownload, StoreType, Records, TaskInv
  <2>3. FlagType'
    BY <1>10 DEF StartDownload, CancelDownload, FlagType
  <2>4. ControlType'
    BY <1>10 DEF StartDownload, CancelDownload, ControlType, Phases
  <2>5. DataType'
    BY <1>10 DEF StartDownload, CancelDownload, DataType, Records, TaskInv
  <2>6. TaskInv'
    BY <1>10 DEF StartDownload, CancelDownload, TaskInv, Within, Records
  <2> QED
    BY <1>p, <2>1, <2>2, <2>3, <2>4, <2>5, <2>6
<1>11. CASE ValidateBegin \/ ValidateImage \/ ValidateEnd
  <2>1. spent' \in [Events -> Nat]
    BY <1>11, SpentType DEF ValidateBegin, ValidateImage, ValidateEnd, Event
  <2>2. StoreType'
    BY <1>11 DEF ValidateBegin, ValidateImage, ValidateEnd, StoreType, Records, TaskInv
  <2>3. FlagType'
    BY <1>11 DEF ValidateBegin, ValidateImage, ValidateEnd, FlagType
  <2>4. ControlType'
    BY <1>11 DEF ValidateBegin, ValidateImage, ValidateEnd, ControlType, Phases
  <2>5. DataType'
    BY <1>11 DEF ValidateBegin, ValidateImage, ValidateEnd, DataType, Records, TaskInv
  <2>6. TaskInv'
    BY <1>11 DEF ValidateBegin, ValidateImage, ValidateEnd, TaskInv, Within, Records
  <2> QED
    BY <1>p, <2>1, <2>2, <2>3, <2>4, <2>5, <2>6
<1>12. CASE StartUpgrade \/ UpgradeValidate \/ UpgradeEnd
  <2>1. spent' \in [Events -> Nat]
    BY <1>12, SpentType DEF StartUpgrade, UpgradeValidate, UpgradeEnd, Event
  <2>2. StoreType'
    BY <1>12 DEF StartUpgrade, UpgradeValidate, UpgradeEnd, StoreType,
          PackageValid, HeaderValid, Records, TaskInv
  <2>3. FlagType'
    BY <1>12 DEF StartUpgrade, UpgradeValidate, UpgradeEnd, FlagType,
          PackageValid, HeaderValid
  <2>4. ControlType'
    BY <1>12 DEF StartUpgrade, UpgradeValidate, UpgradeEnd, ControlType,
          PackageValid, HeaderValid, Phases
  <2>5. DataType'
    BY <1>12 DEF StartUpgrade, UpgradeValidate, UpgradeEnd, DataType,
          PackageValid, HeaderValid, Records, TaskInv
  <2>6. TaskInv'
    BY <1>12 DEF StartUpgrade, UpgradeValidate, UpgradeEnd, TaskInv, Within,
          Records, PackageValid, HeaderValid
  <2> QED
    BY <1>p, <2>1, <2>2, <2>3, <2>4, <2>5, <2>6
<1>13. CASE Publish
  <2>1. spent' \in [Events -> Nat]
    BY <1>13, SpentType DEF Publish, Event
  <2>2. StoreType'
    BY <1>13 DEF Publish, StoreType, Records, TaskInv
  <2>3. FlagType'
    BY <1>13 DEF Publish, FlagType
  <2>4. ControlType'
    BY <1>13 DEF Publish, ControlType, Phases
  <2>5. DataType'
    BY <1>13 DEF Publish, DataType, Records, TaskInv
  <2>6. TaskInv'
    BY <1>13 DEF Publish, TaskInv, Within, Records
  <2> QED
    BY <1>p, <2>1, <2>2, <2>3, <2>4, <2>5, <2>6
<1>14. CASE Reset
  <2>1. spent' \in [Events -> Nat]
    BY <1>14, SpentType DEF Reset, Event
  <2>2. StoreType'
    BY <1>14, ZenonT(40) DEF Reset, StoreType, TornFlash, TornMarker, HeaderValid,
          Records, TaskInv
  <2>3. FlagType'
    BY <1>14 DEF Reset, FlagType, TornFlash, TornMarker, HeaderValid
  <2>4. ControlType'
    BY <1>14 DEF Reset, ControlType, TornFlash, TornMarker, HeaderValid,
          Phases
  <2>5. DataType'
    BY <1>14 DEF Reset, DataType, TornFlash, TornMarker, HeaderValid,
          Records, TaskInv
  <2>6. TaskInv'
    BY <1>14 DEF Reset, TaskInv, Within, Records, TornFlash, TornMarker,
          HeaderValid
  <2> QED
    BY <1>p, <2>1, <2>2, <2>3, <2>4, <2>5, <2>6
<1>15. CASE UNCHANGED vars
  BY <1>15 DEF vars, TaskInv, Within
<1> QED
  BY <1>1, <1>2, <1>3, <1>4, <1>5, <1>6, <1>7, <1>8, <1>9, <1>10, <1>11, <1>12, <1>13, <1>14, <1>15
  DEF Next, TaskStep, Console

\* The gateway starts well typed.
LEMMA TypeInit == Init => TypeInv
<1> SUFFICES ASSUME Init PROVE TypeInv
  OBVIOUS
<1>1. published \in [Ids -> Releases] /\ \A id \in Ids : IdOf[published[id]] = id
  BY DEF Init
<1>2. manifest \in Releases /\ requested \in Ids
  BY <1>1, IdAssumption DEF Init
<1>3. record = Fresh(manifest) /\ record \in Records /\ Within(record)
  BY <1>2, FreshType DEF Init, Fresh
<1>4. /\ flash \in [0 .. Sectors - 1 -> Releases \cup {Erased, Torn}]
      /\ spent \in [Events -> Nat]
      /\ stored \in 0 .. Sectors /\ next \in 0 .. Sectors
  BY SizeAssumption DEF Init
<1>5. pc \in Phases /\ pc = "none"
  BY DEF Init, Phases
<1> QED
  BY <1>1, <1>2, <1>3, <1>4, <1>5 DEF Init, TypeInv, TypeOK, TaskInv

\* Type correctness: every variable keeps its type, and a record never counts
\* more sectors than its release has (init_record, save_checkpoint and the loop
\* of download_binary).
THEOREM TypeCorrect == Spec => []TypeOK
<1>1. Init => TypeInv
  BY TypeInit
<1>2. TypeInv /\ [Next]_vars => TypeInv'
  BY TypeStep
<1>3. TypeInv => TypeOK
  BY DEF TypeInv
<1> QED
  BY <1>1, <1>2, <1>3, PTL DEF Spec

-----------------------------------------------------------------------------
(* The inductive invariant.                                                *)

\* From the erase of the header on the marker is erased, until it is put in.
MarkerInv ==
  /\ pc \in {"save", "request", "receive", "checkpoint", "verify", "verified",
             "commit", "mark"} => marker = Erased
  /\ pc = "erase" /\ next > 0 => marker = Erased

\* What the task has verified, and then committed, stays in the partition.
VerifiedInv ==
  /\ pc \in {"verified", "commit", "mark", "validate", "clear"}
       => Holds(manifest)
  /\ pc \in {"validate", "clear"} => marker = Valid
  /\ pc = "finish" /\ ~failed => marker = Valid /\ Holds(manifest)
  /\ state = "READY" => pc = "none" /\ marker = Valid /\ Holds(manifest)

\* An upgrade and a download exclude each other, and what `firmware validate`
\* has found during an upgrade, if it could read it, is still so when it stores it.
UpgradeInv ==
  /\ upgrade # "none" => pc = "none"
  /\ upgrade # "none" /\ validating \notin {None, "unread"}
       => (validating = "valid" <=> PackageValid)

\* A cancel comes before COMMIT_PACKAGE and its last check, or not at all.
CancelInv ==
  /\ pc \in {"commit", "mark"} => state = "COMMIT_PACKAGE"
  /\ pc = "mark" => ~cancel

\* The sectors record r counts hold no other id than its own.
Below(r) ==
  \A s \in 0 .. r.received - 1 :
    flash[s] \in Releases => IdOf[flash[s]] = IdOf[r.release]

\* Whatever record the task holds or has saved, it stands for its own id.
CheckpointFlow ==
  /\ pc \in {"wait", "fetch", "prepare"} => ~resume
  /\ pc \in {"prepare", "erase", "save", "request", "receive", "checkpoint"}
       => requested = IdOf[manifest]
  /\ pc \in {"request", "receive", "checkpoint"}
       => checkpoint # None /\ checkpoint.release = manifest
RecordBelow ==
  \/ pc \in {"request", "receive", "checkpoint", "verify"}
  \/ pc = "erase" /\ resume
  => Below(record)
SavedBelow == checkpoint # None => Below(checkpoint)
CheckpointInv == CheckpointFlow /\ RecordBelow /\ SavedBelow

\* No sector comes to hold a release: a step that erases or tears.
NothingNew ==
  \A s \in 0 .. Sectors - 1 : flash'[s] \in Releases => flash'[s] = flash[s]

\* Such a step leaves every record as good as it was.
LEMMA BelowKept ==
  ASSUME NothingNew, NEW r \in Records, Below(r)
  PROVE  \A s \in 0 .. r.received - 1 :
           flash'[s] \in Releases => IdOf[flash'[s]] = IdOf[r.release]
  BY SizeAssumption DEF NothingNew, Below, Records

\* Every step preserves MarkerInv.
LEMMA MarkerStep == TypeInv /\ MarkerInv /\ [Next]_vars => MarkerInv'
<1> SUFFICES ASSUME TypeInv, MarkerInv, [Next]_vars PROVE MarkerInv'
  OBVIOUS
<1> USE SizeAssumption, IdAssumption, ValueAssumption
<1> USE DEF TypeInv, TypeOK, TaskInv, store, task, others, MarkerInv
<1>1. CASE Wait \/ FetchManifest \/ Finish \/ EnterCommit \/ ClearCheckpoint
  BY <1>1 DEF Wait, FetchManifest, Finish, EnterCommit, ClearCheckpoint, End
<1>2. CASE Prepare
  BY <1>2 DEF Prepare, BeginErase, End
<1>3. CASE EraseSector
  BY <1>3 DEF EraseSector, EraseOrder, End, EndDownload
<1>4. CASE SaveFresh \/ Request
  BY <1>4 DEF SaveFresh, Request, BeginErase, End, EndDownload
<1>5. CASE Receive \/ SaveCheckpoint \/ Verify
  BY <1>5 DEF Receive, SaveCheckpoint, Verify, End, EndDownload
<1>6. CASE LastCancelCheck \/ Commit \/ CommitValidate
  BY <1>6 DEF LastCancelCheck, Commit, CommitValidate, End
<1>7. CASE Console
  BY <1>7 DEF Console, StartDownload, CancelDownload, ValidateBegin,
              ValidateImage, ValidateEnd, StartUpgrade, UpgradeValidate, UpgradeEnd
<1>8. CASE Publish \/ Reset
  BY <1>8 DEF Publish, Reset, TornMarker
<1>9. CASE UNCHANGED vars
  BY <1>9 DEF vars
<1> QED
  BY <1>1, <1>2, <1>3, <1>4, <1>5, <1>6, <1>7, <1>8, <1>9 DEF Next, TaskStep, Console

\* Every step preserves VerifiedInv.
LEMMA VerifiedStep == TypeInv /\ MarkerInv /\ VerifiedInv /\ [Next]_vars => VerifiedInv'
<1> SUFFICES ASSUME TypeInv, MarkerInv , VerifiedInv, [Next]_vars PROVE VerifiedInv'
  OBVIOUS
<1> USE SizeAssumption, IdAssumption, ValueAssumption
<1> USE DEF TypeInv, TypeOK, TaskInv, store, task, others, VerifiedInv, MarkerInv, Holds
<1>1. CASE Wait
  BY <1>1 DEF Wait, End
<1>2. CASE FetchManifest
  BY <1>2 DEF FetchManifest, End
<1>3. CASE Prepare
  BY <1>3 DEF Prepare, End, BeginErase
<1>4. CASE EraseSector
  BY <1>4 DEF EraseSector, End, EraseOrder, EraseSize, EndDownload
<1>5. CASE SaveFresh
  BY <1>5 DEF SaveFresh, End
<1>6. CASE Request
  BY <1>6 DEF Request, End, BeginErase, EndDownload
<1>7. CASE Receive
  BY <1>7 DEF Receive, End, EndDownload
<1>8. CASE SaveCheckpoint
  BY <1>8 DEF SaveCheckpoint, End, EndDownload
<1>9. CASE Verify
  BY <1>9 DEF Verify, End, EndDownload, Authentic
<1>10. CASE EnterCommit
  BY <1>10 DEF EnterCommit, End
<1>11. CASE LastCancelCheck
  BY <1>11 DEF LastCancelCheck, End
<1>12. CASE Commit
  BY <1>12 DEF Commit, End, Committable
<1>13. CASE CommitValidate
  BY <1>13 DEF CommitValidate, End
<1>14. CASE ClearCheckpoint
  BY <1>14 DEF ClearCheckpoint, End
<1>15. CASE Finish
  BY <1>15 DEF Finish, End
<1>16. CASE \E id \in Ids : StartDownload(id)
  BY <1>16 DEF StartDownload, End
<1>17. CASE CancelDownload
  BY <1>17 DEF CancelDownload, End
<1>18. CASE ValidateBegin \/ ValidateImage
  BY <1>18 DEF ValidateBegin, ValidateImage, End
<1>19. CASE ValidateEnd
  BY <1>19 DEF ValidateEnd, End
<1>20. CASE StartUpgrade
  BY <1>20 DEF StartUpgrade, End
<1>21. CASE UpgradeValidate
  BY <1>21 DEF UpgradeValidate, End
<1>22. CASE UpgradeEnd
  BY <1>22 DEF UpgradeEnd, End
<1>23. CASE Publish
  BY <1>23 DEF Publish, End
<1>24. CASE Reset
  BY <1>24 DEF Reset, End, TornFlash, TornMarker, EraseOrder
<1>25. CASE UNCHANGED vars
  BY <1>25 DEF vars
<1> QED
  BY <1>1, <1>2, <1>3, <1>4, <1>5, <1>6, <1>7, <1>8, <1>9, <1>10, <1>11, <1>12, <1>13,
     <1>14, <1>15, <1>16, <1>17, <1>18, <1>19, <1>20, <1>21, <1>22, <1>23, <1>24, <1>25
  DEF Next, TaskStep, Console

\* Every step preserves UpgradeInv.
LEMMA UpgradeStep == TypeInv /\ UpgradeInv /\ [Next]_vars => UpgradeInv'
<1> SUFFICES ASSUME TypeInv, UpgradeInv, [Next]_vars PROVE UpgradeInv'
  OBVIOUS
<1> USE SizeAssumption, IdAssumption, ValueAssumption
<1> USE DEF TypeInv, TypeOK, TaskInv, store, task, others, UpgradeInv, PackageValid, HeaderValid, Holds, ConsoleIsFree
<1>1. CASE Wait \/ FetchManifest \/ Prepare \/ EraseSector \/ SaveFresh
  BY <1>1 DEF Wait, FetchManifest, Prepare, EraseSector, SaveFresh,
              BeginErase, End, EndDownload
<1>2. CASE Request \/ Receive \/ SaveCheckpoint \/ Verify \/ EnterCommit
  BY <1>2 DEF Request, Receive, SaveCheckpoint, Verify, EnterCommit,
              BeginErase, End, EndDownload
<1>3. CASE LastCancelCheck \/ Commit \/ CommitValidate \/ ClearCheckpoint
           \/ Finish
  BY <1>3 DEF LastCancelCheck, Commit, CommitValidate, ClearCheckpoint,
              Finish, End
<1>4. CASE \E id \in Ids : StartDownload(id)
  BY <1>4 DEF StartDownload, MayDownload
<1>5. CASE CancelDownload
  BY <1>5 DEF CancelDownload
<1>6. CASE ValidateBegin \/ ValidateImage
  BY <1>6 DEF ValidateBegin, ValidateImage
<1>7. CASE ValidateEnd
  BY <1>7 DEF ValidateEnd
<1>8. CASE StartUpgrade
  BY <1>8 DEF StartUpgrade, MayUpgrade
<1>9. CASE UpgradeValidate
  BY <1>9 DEF UpgradeValidate
<1>10. CASE UpgradeEnd
  BY <1>10 DEF UpgradeEnd
<1>11. CASE Publish \/ Reset
  BY <1>11 DEF Publish, Reset
<1>12. CASE UNCHANGED vars
  BY <1>12 DEF vars
<1> QED
  BY <1>1, <1>2, <1>3, <1>4, <1>5, <1>6, <1>7, <1>8, <1>9, <1>10, <1>11, <1>12 DEF Next, TaskStep, Console

\* Every step preserves CancelInv.
LEMMA CancelStep == TypeInv /\ CancelInv /\ [Next]_vars => CancelInv'
<1> SUFFICES ASSUME TypeInv, CancelInv, [Next]_vars PROVE CancelInv'
  OBVIOUS
<1> USE SizeAssumption, IdAssumption, ValueAssumption
<1> USE DEF TypeInv, TypeOK, TaskInv, store, task, others, CancelInv, MayCancel
<1>1. CASE Wait \/ FetchManifest \/ Prepare \/ EraseSector
  BY <1>1 DEF Wait, FetchManifest, Prepare, EraseSector, BeginErase, End,
              EndDownload
<1>2. CASE SaveFresh \/ Request \/ Receive
  BY <1>2 DEF SaveFresh, Request, Receive, BeginErase, End, EndDownload
<1>3. CASE SaveCheckpoint \/ Verify \/ EnterCommit
  BY <1>3 DEF SaveCheckpoint, Verify, EnterCommit, End, EndDownload
<1>4. CASE LastCancelCheck \/ Commit \/ CommitValidate
  BY <1>4 DEF LastCancelCheck, Commit, CommitValidate, End
<1>5. CASE ClearCheckpoint \/ Finish \/ Publish \/ Reset
  BY <1>5 DEF ClearCheckpoint, Finish, Publish, Reset
<1>6. CASE Console
  BY <1>6 DEF Console, StartDownload, CancelDownload, ValidateBegin,
              ValidateImage, ValidateEnd, StartUpgrade, UpgradeValidate, UpgradeEnd,
              MayCancel, End
<1>7. CASE UNCHANGED vars
  BY <1>7 DEF vars
<1> QED
  BY <1>1, <1>2, <1>3, <1>4, <1>5, <1>6, <1>7 DEF Next, TaskStep, Console

\* Every step preserves CheckpointInv.
LEMMA CheckpointStep == TypeInv /\ CheckpointInv /\ [Next]_vars => CheckpointInv'
<1> SUFFICES ASSUME TypeInv, CheckpointInv, [Next]_vars PROVE CheckpointInv'
  OBVIOUS
<1> USE SizeAssumption, IdAssumption, ValueAssumption
<1> USE DEF TypeInv, TypeOK, TaskInv, store, task, others, CheckpointInv, CheckpointFlow, RecordBelow,
           SavedBelow, Below, Fresh, Matches, Programmed
<1>1. CASE Wait
  BY <1>1 DEF Wait, End
<1>2. CASE FetchManifest
  BY <1>2 DEF FetchManifest, End
<1>3. CASE Prepare
  BY <1>3 DEF Prepare, End, BeginErase
<1>4. CASE EraseSector
  <2>1. CheckpointFlow'
    BY <1>4 DEF EraseSector, End, EraseOrder, EraseSize, EndDownload
  <2>4. NothingNew /\ record' = record /\ resume' = resume /\ pc = "erase"
    BY <1>4 DEF EraseSector, NothingNew, EraseOrder, End, EndDownload
  <2>5. pc' \in {"erase", "save", "finish"}
    BY <1>4 DEF EraseSector, End, EndDownload
  <2>6. \/ checkpoint' = checkpoint
        \/ resume /\ checkpoint' = record
    BY <1>4 DEF EraseSector, End, EndDownload
  <2>2. RecordBelow'
    BY <2>4, <2>5, BelowKept
  <2>3. SavedBelow'
    BY <2>4, <2>6, BelowKept, ZenonT(40)
  <2> QED
    BY <2>1, <2>2, <2>3
<1>5. CASE SaveFresh
  <2>1. CheckpointFlow'
    <3>1. pc = "save" /\ requested' = requested /\ manifest' = manifest
      BY <1>5 DEF SaveFresh
    <3>2. \/ pc' = "request" /\ checkpoint' = Fresh(manifest)
          \/ pc' = "finish"
      BY <1>5 DEF SaveFresh, End
    <3>3. Fresh(manifest).release = manifest /\ Fresh(manifest) # None
      BY FreshType, NoneAssumption
    <3> QED
      BY <3>1, <3>2, <3>3 DEF Fresh
  <2>2. RecordBelow'
    BY <1>5 DEF SaveFresh, End
  <2>3. SavedBelow'
    BY <1>5 DEF SaveFresh, End
  <2> QED
    BY <2>1, <2>2, <2>3
<1>6. CASE Request
  BY <1>6 DEF Request, End, BeginErase, EndDownload
<1>7. CASE Receive
  <2>1. CheckpointFlow'
    BY <1>7 DEF Receive, End, EndDownload
  <2> DEFINE at == record.received
             more == [record EXCEPT !.received = @ + 1]
  <2>4. /\ pc = "receive" /\ manifest' = manifest
        /\ record.release = manifest /\ checkpoint.release = manifest
        /\ checkpoint # None /\ Below(checkpoint) /\ Below(record)
        /\ checkpoint \in Records /\ record \in Records
    BY <1>7 DEF Receive
  <2>5. at \in Nat /\ at < Size[manifest] /\ Size[manifest] \in 1 .. Sectors
        /\ Sectors \in Nat
    BY <1>7 DEF Receive, Records
  <2>6. more \in Records /\ more.release = manifest /\ more.received = at + 1
    <3>1. record \in [release : Releases, received : 0 .. Sectors]
      BY <2>4 DEF Records
    <3>2. at + 1 \in 0 .. Sectors
      BY <2>5
    <3> HIDE DEF TypeInv
    <3> QED
      BY <2>4, <3>1, <3>2 DEF Records
  <2>7. \/ /\ flash' = flash /\ record' = record /\ pc' = "finish"
           /\ checkpoint' \in {checkpoint, record}
        \/ /\ record' = more /\ checkpoint' = checkpoint
           /\ \E data \in {manifest, published[requested]} :
                flash' = [flash EXCEPT ![at] = Programmed(@, data)]
    BY <1>7 DEF Receive, End, EndDownload
  <2>8. CASE /\ flash' = flash /\ record' = record /\ pc' = "finish"
             /\ checkpoint' \in {checkpoint, record}
    BY <2>4, <2>8
  <2>9. CASE /\ record' = more /\ checkpoint' = checkpoint
             /\ \E data \in {manifest, published[requested]} :
                  flash' = [flash EXCEPT ![at] = Programmed(@, data)]
    <3>1. PICK data \in {manifest, published[requested]} :
            flash' = [flash EXCEPT ![at] = Programmed(@, data)]
      BY <2>9
    <3>2. IdOf[data] = IdOf[manifest] /\ data \in Releases
      BY <2>4, <3>1
    <3>3. \A s \in 0 .. Sectors - 1 : s # at => flash'[s] = flash[s]
      BY <3>1, <2>5
    <3>4. at \in 0 .. Sectors - 1
      BY <2>5
    <3>5. flash'[at] = Programmed(flash[at], data)
      BY <3>1, <3>4
    <3>6. flash'[at] \in Releases => IdOf[flash'[at]] = IdOf[manifest]
      BY <3>2, <3>5 DEF Programmed
    <3>7. \A s \in 0 .. checkpoint.received - 1 :
            flash'[s] \in Releases => IdOf[flash'[s]] = IdOf[manifest]
      BY <2>4, <3>3, <3>6 DEF Below, Records
    <3>8. \A s \in 0 .. at :
            flash'[s] \in Releases => IdOf[flash'[s]] = IdOf[manifest]
      <4> SUFFICES ASSUME NEW s \in 0 .. at, flash'[s] \in Releases
                   PROVE  IdOf[flash'[s]] = IdOf[manifest]
        OBVIOUS
      <4>1. CASE s = at
        BY <3>6, <4>1
      <4>2. CASE s # at
        <5>1. s \in 0 .. at - 1 /\ flash'[s] = flash[s]
          BY <2>5, <3>3, <4>2
        <5> QED
          BY <2>4, <5>1 DEF Below
      <4> QED
        BY <4>1, <4>2
    <3>9. SavedBelow'
      BY <2>4, <2>9, <3>7
    <3>10. RecordBelow'
      <4>1. record'.received - 1 = at /\ record'.release = manifest
        BY <2>5, <2>6, <2>9
      <4>2. Below(record)'
        BY <3>8, <4>1 DEF Below
      <4> QED
        BY <4>2 DEF RecordBelow
    <3> QED
      BY <2>1, <3>9, <3>10
  <2> QED
    BY <2>7, <2>8, <2>9
<1>8. CASE SaveCheckpoint
  <2>1. CheckpointFlow'
    <3>1. /\ pc = "checkpoint"
          /\ requested' = requested /\ manifest' = manifest
          /\ record.release = manifest /\ record # None
      BY <1>8, NoneAssumption DEF SaveCheckpoint
    <3>2. \/ pc' \in {"verify", "receive"} /\ checkpoint' = record
          \/ pc' = "finish"
      BY <1>8 DEF SaveCheckpoint, End, EndDownload
    <3> QED
      BY <3>1, <3>2
  <2>2. RecordBelow'
    BY <1>8 DEF SaveCheckpoint, End, EndDownload
  <2>3. SavedBelow'
    BY <1>8 DEF SaveCheckpoint, End, EndDownload
  <2> QED
    BY <2>1, <2>2, <2>3
<1>9. CASE Verify
  BY <1>9 DEF Verify, End, EndDownload, Authentic
<1>10. CASE EnterCommit
  BY <1>10 DEF EnterCommit, End
<1>11. CASE LastCancelCheck
  BY <1>11 DEF LastCancelCheck, End
<1>12. CASE Commit
  BY <1>12 DEF Commit, End, Committable
<1>13. CASE CommitValidate
  BY <1>13 DEF CommitValidate, End
<1>14. CASE ClearCheckpoint
  BY <1>14 DEF ClearCheckpoint, End
<1>15. CASE Finish
  BY <1>15 DEF Finish, End
<1>16. CASE \E id \in Ids : StartDownload(id)
  BY <1>16 DEF StartDownload, End
<1>17. CASE CancelDownload
  BY <1>17 DEF CancelDownload, End
<1>18. CASE ValidateBegin \/ ValidateImage
  <2>1. UNCHANGED <<flash, checkpoint, pc, requested, manifest, record, resume>>
    BY <1>18 DEF ValidateBegin, ValidateImage
  <2> QED
    BY <2>1
<1>19. CASE ValidateEnd
  BY <1>19 DEF ValidateEnd, End
<1>20. CASE StartUpgrade
  BY <1>20 DEF StartUpgrade, End
<1>21. CASE UpgradeValidate
  BY <1>21 DEF UpgradeValidate, End
<1>22. CASE UpgradeEnd
  BY <1>22 DEF UpgradeEnd, End
<1>23. CASE Publish
  BY <1>23 DEF Publish, End
<1>24. CASE Reset
  <2>1. CheckpointFlow'
    BY <1>24 DEF Reset, End, TornFlash, TornMarker, EraseOrder
  <2>2. RecordBelow'
    BY <1>24 DEF Reset, End, TornFlash, TornMarker, EraseOrder
  <2>4. NothingNew /\ checkpoint' \in {checkpoint, None}
    BY <1>24 DEF Reset, NothingNew, TornFlash, EraseOrder
  <2>3. SavedBelow'
    BY <2>4, BelowKept
  <2> QED
    BY <2>1, <2>2, <2>3
<1>25. CASE UNCHANGED vars
  BY <1>25 DEF vars
<1> QED
  BY <1>1, <1>2, <1>3, <1>4, <1>5, <1>6, <1>7, <1>8, <1>9, <1>10, <1>11, <1>12, <1>13,
     <1>14, <1>15, <1>16, <1>17, <1>18, <1>19, <1>20, <1>21, <1>22, <1>23, <1>24, <1>25
  DEF Next, TaskStep, Console

-----------------------------------------------------------------------------
(* CommittedIsWhole and CanceledIsNotCommitted are of a step, the others of *)
(* a state.                                                                *)

\* Every step keeps a marked package whole.
LEMMA WholeStep ==
  TypeInv /\ MarkerInv /\ CommittedIsWhole /\ [Next]_vars => CommittedIsWhole'
<1> SUFFICES ASSUME TypeInv, MarkerInv, CommittedIsWhole, [Next]_vars
             PROVE  CommittedIsWhole'
  OBVIOUS
<1> USE SizeAssumption, IdAssumption, ValueAssumption
<1> USE DEF TypeInv, TypeOK, TaskInv, store, task, others, MarkerInv,
            CommittedIsWhole, HeaderValid, Holds
<1>1. CASE Wait
  BY <1>1 DEF Wait, End
<1>2. CASE FetchManifest
  BY <1>2 DEF FetchManifest, End
<1>3. CASE Prepare
  BY <1>3 DEF Prepare, End, BeginErase
<1>4. CASE EraseSector
  BY <1>4 DEF EraseSector, End, EraseOrder, EraseSize, EndDownload
<1>5. CASE SaveFresh
  BY <1>5 DEF SaveFresh, End
<1>6. CASE Request
  BY <1>6 DEF Request, End, BeginErase, EndDownload
<1>7. CASE Receive
  BY <1>7 DEF Receive, End, EndDownload
<1>8. CASE SaveCheckpoint
  BY <1>8 DEF SaveCheckpoint, End, EndDownload
<1>9. CASE Verify
  BY <1>9 DEF Verify, End, EndDownload, Authentic
<1>10. CASE EnterCommit
  BY <1>10 DEF EnterCommit, End
<1>11. CASE LastCancelCheck
  BY <1>11 DEF LastCancelCheck, End
<1>12. CASE Commit
  BY <1>12 DEF Commit, End, Committable
<1>13. CASE CommitValidate
  BY <1>13 DEF CommitValidate, End
<1>14. CASE ClearCheckpoint
  BY <1>14 DEF ClearCheckpoint, End
<1>15. CASE Finish
  BY <1>15 DEF Finish, End
<1>16. CASE \E id \in Ids : StartDownload(id)
  BY <1>16 DEF StartDownload, End
<1>17. CASE CancelDownload
  BY <1>17 DEF CancelDownload, End
<1>18. CASE ValidateBegin \/ ValidateImage
  BY <1>18 DEF ValidateBegin, ValidateImage, End
<1>19. CASE ValidateEnd
  BY <1>19 DEF ValidateEnd, End
<1>20. CASE StartUpgrade
  BY <1>20 DEF StartUpgrade, End
<1>21. CASE UpgradeValidate
  BY <1>21 DEF UpgradeValidate, End
<1>22. CASE UpgradeEnd
  BY <1>22 DEF UpgradeEnd, End
<1>23. CASE Publish
  BY <1>23 DEF Publish, End
<1>24. CASE Reset
  BY <1>24 DEF Reset, End, TornFlash, TornMarker, EraseOrder, Committable
<1>25. CASE UNCHANGED vars
  BY <1>25 DEF vars
<1> QED
  BY <1>1, <1>2, <1>3, <1>4, <1>5, <1>6, <1>7, <1>8, <1>9, <1>10, <1>11, <1>12, <1>13,
     <1>14, <1>15, <1>16, <1>17, <1>18, <1>19, <1>20, <1>21, <1>22, <1>23, <1>24, <1>25
  DEF Next, TaskStep, Console

\* Only Commit marks a package, and then no cancel was accepted.
LEMMA CancelSafe ==
  TypeInv /\ CancelInv /\ [Next]_vars
    => (marker # Valid /\ marker' = Valid => ~cancel)
<1> SUFFICES ASSUME TypeInv, CancelInv, [Next]_vars, marker # Valid, marker' = Valid
             PROVE  ~cancel
  OBVIOUS
<1> USE ValueAssumption
<1> USE DEF store, task, others, CancelInv
<1>1. CASE Wait \/ FetchManifest \/ Prepare \/ SaveFresh \/ Request
  BY <1>1 DEF Wait, FetchManifest, Prepare, SaveFresh, Request
<1>2. CASE EraseSector
  BY <1>2 DEF EraseSector, EraseOrder
<1>3. CASE Receive \/ SaveCheckpoint \/ Verify \/ EnterCommit \/ LastCancelCheck
  BY <1>3 DEF Receive, SaveCheckpoint, Verify, EnterCommit, LastCancelCheck
<1>4. CASE Commit
  BY <1>4 DEF Commit
<1>5. CASE CommitValidate \/ ClearCheckpoint \/ Finish
  BY <1>5 DEF CommitValidate, ClearCheckpoint, Finish
<1>6. CASE Console
  BY <1>6 DEF Console, StartDownload, CancelDownload, ValidateBegin, ValidateImage, ValidateEnd,
               StartUpgrade, UpgradeValidate, UpgradeEnd
<1>7. CASE Publish \/ Reset
  BY <1>7 DEF Publish, Reset, TornMarker
<1>8. CASE UNCHANGED vars
  BY <1>8 DEF vars
<1> QED
  BY <1>1, <1>2, <1>3, <1>4, <1>5, <1>6, <1>7, <1>8 DEF Next, TaskStep, Console

\* Every step leaves the upgrade task the package it is sending.
LEMMA SendStep ==
  TypeInv /\ UpgradeInv /\ UpgradeSendsWholePackage /\ [Next]_vars
    => UpgradeSendsWholePackage'
<1> SUFFICES ASSUME TypeInv, UpgradeInv, UpgradeSendsWholePackage, [Next]_vars
             PROVE  UpgradeSendsWholePackage'
  OBVIOUS
<1> USE DEF store, task, others, UpgradeInv, UpgradeSendsWholePackage
<1>0. UNCHANGED <<flash, marker>> => (PackageValid' <=> PackageValid)
  BY DEF PackageValid, HeaderValid, Holds
<1>1. CASE Wait \/ FetchManifest \/ Prepare \/ EraseSector \/ SaveFresh
  BY <1>1 DEF Wait, FetchManifest, Prepare, EraseSector, SaveFresh
<1>2. CASE Request \/ Receive \/ SaveCheckpoint \/ Verify \/ EnterCommit
  BY <1>2 DEF Request, Receive, SaveCheckpoint, Verify, EnterCommit
<1>3. CASE LastCancelCheck \/ Commit \/ CommitValidate \/ ClearCheckpoint
           \/ Finish
  BY <1>3 DEF LastCancelCheck, Commit, CommitValidate, ClearCheckpoint,
              Finish
<1>4. CASE (\E id \in Ids : StartDownload(id)) \/ CancelDownload
  <2>1. upgrade' = upgrade /\ UNCHANGED <<flash, marker>>
    BY <1>4 DEF StartDownload, CancelDownload
  <2> QED
    BY <2>1, <1>0
<1>5. CASE ValidateBegin \/ ValidateImage \/ ValidateEnd
  BY <1>5, <1>0 DEF ValidateBegin, ValidateImage, ValidateEnd
<1>6. CASE StartUpgrade
  BY <1>6, <1>0 DEF StartUpgrade
<1>7. CASE UpgradeValidate \/ UpgradeEnd
  BY <1>7, <1>0 DEF UpgradeValidate, UpgradeEnd
<1>8. CASE Publish \/ Reset
  BY <1>8, <1>0 DEF Publish, Reset
<1>9. CASE UNCHANGED vars
  BY <1>9, <1>0 DEF vars
<1> QED
  BY <1>1, <1>2, <1>3, <1>4, <1>5, <1>6, <1>7, <1>8, <1>9 DEF Next, TaskStep, Console

\* A transfer's package stops being ready only in ValidateEnd, and the whole package
\* it has in the partition leaves a failed read as the reason.
LEMMA ReadySafe ==
  TypeInv /\ UpgradeInv /\ UpgradeSendsWholePackage /\ [Next]_vars
    => (upgrade = "transfer" /\ upgrade' = "transfer" /\ ready /\ ~ready'
          => validating = "unread")
<1> SUFFICES ASSUME TypeInv, UpgradeInv, UpgradeSendsWholePackage, [Next]_vars,
                    upgrade = "transfer", upgrade' = "transfer", ready, ~ready'
             PROVE  validating = "unread"
  OBVIOUS
<1> USE DEF store, task, others
<1>1. PackageValid /\ pc = "none"
  BY DEF UpgradeSendsWholePackage, UpgradeInv
<1>2. validating \notin {None, "unread"} => validating = "valid"
  BY <1>1 DEF UpgradeInv
<1>3. CASE TaskStep
  BY <1>1, <1>3
  DEF TaskStep, Wait, FetchManifest, Prepare, EraseSector, SaveFresh, Request, Receive,
      SaveCheckpoint, Verify, EnterCommit, LastCancelCheck, Commit, CommitValidate,
      ClearCheckpoint, Finish
<1>4. CASE \E id \in Ids : StartDownload(id)
  BY <1>4 DEF StartDownload
<1>5. CASE CancelDownload \/ ValidateBegin \/ ValidateImage \/ StartUpgrade
  BY <1>5 DEF CancelDownload, ValidateBegin, ValidateImage, StartUpgrade
<1>6. CASE ValidateEnd
  BY <1>2, <1>6 DEF ValidateEnd, ConsoleIsFree
<1>7. CASE UpgradeValidate \/ UpgradeEnd
  BY <1>7 DEF UpgradeValidate, UpgradeEnd
<1>8. CASE Publish \/ Reset
  BY <1>8 DEF Publish, Reset
<1>9. CASE UNCHANGED vars
  BY <1>9 DEF vars
<1> QED
  BY <1>3, <1>4, <1>5, <1>6, <1>7, <1>8, <1>9 DEF Next, Console

-----------------------------------------------------------------------------
(* The inductive invariant, and what follows from it.                      *)

DownloadInv ==
  TypeInv /\ MarkerInv /\ VerifiedInv /\ UpgradeInv /\ CancelInv
          /\ CheckpointInv /\ CommittedIsWhole /\ UpgradeSendsWholePackage

\* An erased partition and no checkpoint satisfy it.
LEMMA DownloadInit == Init => DownloadInv
<1> SUFFICES ASSUME Init PROVE DownloadInv
  OBVIOUS
<1>1. TypeInv
  BY TypeInit
<1>2. MarkerInv /\ VerifiedInv /\ UpgradeInv /\ CancelInv
  BY DEF Init, MarkerInv, VerifiedInv, UpgradeInv, CancelInv
<1>3. CheckpointInv
  BY DEF Init, CheckpointInv, CheckpointFlow, RecordBelow, SavedBelow
<1>4. CommittedIsWhole /\ UpgradeSendsWholePackage
  BY ValueAssumption
  DEF Init, CommittedIsWhole, UpgradeSendsWholePackage, HeaderValid
<1> QED
  BY <1>1, <1>2, <1>3, <1>4 DEF DownloadInv

\* No step of the task, the console, the server or a reset breaks it.
LEMMA DownloadStep == DownloadInv /\ [Next]_vars => DownloadInv'
  BY TypeStep, MarkerStep, VerifiedStep, UpgradeStep, CancelStep,
     CheckpointStep, WholeStep, SendStep DEF DownloadInv

\* Whatever the task, the console, the server and the resets do.
LEMMA DownloadInvariant == Spec => []DownloadInv
  BY DownloadInit, DownloadStep, PTL DEF Spec

\* A header with its marker always stands before the whole image it describes,
\* so that firmware_store_open announces no half package after any reset.
THEOREM CommittedIsWholeAlways == Spec => []CommittedIsWhole
<1>1. DownloadInv => CommittedIsWhole
  BY DEF DownloadInv
<1> QED
  BY <1>1, DownloadInvariant, PTL

\* READY means that firmware_downloader_task left the release of its manifest
\* in the partition, whole and marked.
THEOREM ReadyIsTheManifestAlways == Spec => []ReadyIsTheManifest
<1>1. DownloadInv => ReadyIsTheManifest
  BY DEF DownloadInv, VerifiedInv, ReadyIsTheManifest
<1> QED
  BY <1>1, DownloadInvariant, PTL

\* The NVS record never counts sectors of another firmware id as received.
THEOREM CheckpointKeepsItsIdAlways == Spec => []CheckpointKeepsItsId
<1>1. DownloadInv => CheckpointKeepsItsId
  BY DEF DownloadInv, CheckpointInv, SavedBelow, Below, CheckpointKeepsItsId
<1> QED
  BY <1>1, DownloadInvariant, PTL

\* While upgrade_manager_transfer sends the package to the node, the partition holds
\* a whole one, whatever downloads, cancels, resets and read errors there are.
THEOREM UpgradeSendsWholePackageAlways == Spec => []UpgradeSendsWholePackage
<1>1. DownloadInv => UpgradeSendsWholePackage
  BY DEF DownloadInv
<1> QED
  BY <1>1, DownloadInvariant, PTL

\* s_manifest_valid, on which firmware_store_read insists, is cleared in mid-transfer
\* by nothing but a `firmware validate` that failed to read the partition.
THEOREM OnlyFailedReadEndsTransferAlways == Spec => OnlyFailedReadEndsTransfer
<1>1. DownloadInv /\ [Next]_vars
        => [upgrade = "transfer" /\ upgrade' = "transfer" /\ ready /\ ~ready'
              => validating = "unread"]_vars
  BY ReadySafe DEF DownloadInv
<1> QED
  BY <1>1, DownloadInvariant, PTL DEF Spec, OnlyFailedReadEndsTransfer

\* No task whose cancel firmware_downloader_cancel accepted marks a package.
THEOREM CanceledIsNotCommittedAlways == Spec => CanceledIsNotCommitted
<1>1. DownloadInv /\ [Next]_vars
        => [marker # Valid /\ marker' = Valid => ~cancel]_vars
  BY CancelSafe DEF DownloadInv
<1> QED
  BY <1>1, DownloadInvariant, PTL DEF Spec, CanceledIsNotCommitted
=============================================================================
