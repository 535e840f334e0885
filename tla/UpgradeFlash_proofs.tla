------------------------ MODULE UpgradeFlash_proofs -------------------------
(***************************************************************************)
(* Why what the gateway counts as transferred is in the node's flash, and  *)
(* why it tells SUCCESS only of an image that is there and confirmed.      *)
(*                                                                         *)
(* The gateway follows offsets that the node tells, and the node tells of  *)
(* a session.  So a session is traced from the request that begins it: as  *)
(* long as the gateway transfers, whatever the node and the line still     *)
(* have of its session is for its package, and no request that could begin *)
(* another one is left.  That a node may answer START of one package with  *)
(* BUSY for another, and be followed, is why packages must differ in size. *)
(*                                                                         *)
(* After ACTIVATE an application that answers HELLO leaves nothing behind  *)
(* in the line but requests to report, so its record stands until it is    *)
(* read.  The manager compares versions, so these must tell packages apart.*)
(***************************************************************************)
EXTENDS UpgradeAnswers_proofs

-----------------------------------------------------------------------------
\* The packages are told apart by their sizes, as Queried and Polled do ...
SizesDiffer ==
  \A m, n \in Manifest : Size[m.image] = Size[n.image] => m.image = n.image

\* ... and what is installed by its version, as SeenApp does.
VersionsDiffer == \A m \in Manifest, p \in Package : m.version = p.version => m = p

\* The requests that may begin a session.
Begins == {"START", "ENTER_BOOT"}

NoneBegins == \A j \in DOMAIN Flight : Flight[j].kind \notin Begins

\* Session s, if the node knows it, is for the image of package p.
Good(s, p) ==
  \A r \in {dev.rec, journal.latest} :
    r # Board!NoRecord /\ r.session = s => r.manifest.image = p.image

InFlash(n) == \A u \in 0 .. (n - 1) : flash[u] = gw.package.image

\* The places before the first chunk.
Early == {"idle", "find", "enter", "info", "query", "start", "check", "erase", "poll",
          "probe", "probeinfo"}

\* A chunk the node has yet to take belongs to the session it names, and nothing
\* the node has can begin another.
DataInv ==
  \A i \in DOMAIN Flight :
    Flight[i].kind = "DATA" => Good(Flight[i].session, Flight[i].package) /\ NoneBegins

\* So it is where the gateway sends chunks; where it begins a session none is left.
PlaceInv ==
  /\ gw.pc \in {"enter", "start"} => \A i \in DOMAIN Flight : Flight[i].kind # "DATA"
  /\ gw.pc = "transfer" => Good(gw.session, gw.package) /\ NoneBegins
  /\ client.req.kind = "DATA" =>
       client.req.session = gw.session /\ client.req.package = gw.package
  /\ gw.pc \in Early => gw.offset = 0

\* OK and BAD_OFFSET are said of the session that is receiving.
ServedInv ==
  /\ dev.pc = "verify" => serving.kind # "DATA"
  /\ dev.at \in Board!BootPlace /\ dev.pc = "reply" /\ serving.kind = "DATA"
       /\ dev.status \in {"OK", "BAD_OFFSET"}
     => dev.rec.state = "RECEIVING" /\ dev.rec.session = serving.session

\* The offset in an answer that would be followed is that of data in the flash.
Reliable(r) ==
  /\ gw.pc = "poll" /\ r.state = "RECEIVING" /\ r.size = ImageSize(gw) =>
       Good(gw.session, gw.package) /\ InFlash(r.next)
  /\ gw.pc = "transfer" /\ r.status \in {"OK", "BAD_OFFSET"} => InFlash(r.next)

OffsetInv ==
  \A i \in DOMAIN reps : Resembles(reps[i].to) /\ Decodes(reps[i]) => Reliable(reps[i])

\* The device's invariants, and what its records count.
BoardInv == Board!SafetyInv /\ Board!ProgressInv /\ Board!ContentsInv

FlashInv == DataInv /\ PlaceInv /\ ServedInv /\ OffsetInv /\ TransferredIsInFlash

-----------------------------------------------------------------------------
\* What the node's steps do to sessions and data.

\* What is in the flash stays.
Spares == \A u \in 0 .. (Units - 1) : flash[u] \in Image => flash'[u] = flash[u]

\* The steps that are not DATA, begin nothing and erase nothing.
PlainStep ==
  \/ Board!ReadOnlyRequest \/ Board!AppReadOnlyRequest \/ Board!AppInit
  \/ Board!WindowExpires \/ Board!WatchdogReset \/ Board!PowerLoss \/ Board!CheckCrc
  \/ Board!Boot \/ Board!Confirm
  \/ \E s \in Session :
       Board!Erase(s) \/ Board!Verify(s) \/ Board!Activate(s) \/ Board!Abort(s)
  \/ \E sent \in BOOLEAN : Board!SendReply(sent)

LEMMA PlainFills ==
  ASSUME Board!TypeInv, BoardInv, PlainStep
  PROVE  Board!ContentsInv' /\ Board!Carried /\ Spares
<1>1. Board!ContentsInv' /\ Board!Carried /\ flash' = flash
  BY Assumptions, Board!OtherFills DEF PlainStep, BoardInv
<1> QED
  BY <1>1 DEF Spares

\* A chunk is within the flash.
LEMMA DataRequest ==
  ASSUME NEW q \in GoodRequest, q.kind = "DATA"
  PROVE  /\ q.session \in Session /\ q.offset \in Board!Unit /\ q.package.image \in Image
         /\ ChunkEnd(q.offset, Size[q.package.image]) - q.offset \in 1 .. MaxChunk
<1>1. /\ q.package \in Package /\ q.offset \in 0 .. Units /\ q.session \in Session
      /\ q.offset < Size[q.package.image]
  BY DEF GoodRequest, Request, WithSession
<1>2. /\ Size[q.package.image] \in 1 .. Units /\ q.package.image \in Image
      /\ Units \in Nat /\ MaxChunk \in Nat
  BY <1>1, PackageSize, UpgradeAssumption DEF Node!DeviceAssumption, Node!Positive
<1>3. ChunkEnd(q.offset, Size[q.package.image]) \in (q.offset + 1) .. (q.offset + MaxChunk)
  BY <1>1, <1>2, ChunkEndLater
<1> QED
  BY <1>1, <1>2, <1>3 DEF Board!Unit

\* The steps that take request q.
Served(q) ==
  \/ Board!ReadOnlyRequest /\ q.kind # "DATA" /\ dev.at \in Board!BootPlace
  \/ Board!AppReadOnlyRequest /\ dev.at \notin Board!BootPlace
  \/ PlainStep /\ q.kind \in {"ERASE", "VERIFY", "ACTIVATE", "ABORT"}
  \/ q.kind = "START" /\ Board!Start(q.session, q.package)
  \/ q.kind = "ENTER_BOOT" /\ Board!AppEnterBoot(q.session)
  \/ /\ q.kind = "DATA" /\ dev.at \in Board!BootPlace
     /\ \E len \in 1 .. MaxChunk :
          Board!Data(q.session, q.offset, len, q.package.image)

LEMMA ServeIs ==
  ASSUME UpgradeInv, UpgradeInv', AnswersInv, Serve
  PROVE  \E q \in GoodRequest :
           /\ q = Flight[1] /\ 1 \in DOMAIN Flight /\ Served(q)
           /\ serving' = IF Fresh THEN NoRequest ELSE q
<1> DEFINE q == Head(reqs)
<1>1. q \in GoodRequest /\ q = Flight[1] /\ Flight # <<>>
  BY ServeFlight DEF UpgradeInv, AnswersInv
<1>2. 1 \in DOMAIN Flight
  BY <1>1, FlightIs DEF UpgradeInv
<1>3. Handle(q) /\ Listening
  BY DEF Serve
<1>4. serving' = IF Fresh THEN NoRequest ELSE q
  BY DEF Serve
<1>5. q.kind \in WithSession => q.session \in Session
  BY <1>1 DEF GoodRequest
<1> HIDE DEF q
<1>6. CASE dev.at \in {"window", "service"}
  <2>1. CASE q.kind \in {"HELLO", "GET_INFO", "ENTER_BOOT", "QUERY"}
    <3>1. Node!ReadOnlyRequest
      BY <1>3, <1>6, <2>1 DEF Handle
    <3>2. Board!ReadOnlyRequest /\ q.kind # "DATA" /\ dev.at \in Board!BootPlace
      BY <1>6, <2>1, <3>1, SameActions DEF Board!BootPlace
    <3> QED
      BY <1>1, <1>2, <1>4, <3>2 DEF Served
  <2>2. CASE q.kind \in {"ERASE", "VERIFY", "ACTIVATE", "ABORT"}
    <3>1. \/ Node!Erase(q.session) \/ Node!Verify(q.session)
          \/ Node!Activate(q.session) \/ Node!Abort(q.session)
      BY <1>3, <1>6, <2>2 DEF Handle
    <3>2. PlainStep
      BY <1>5, <2>2, <3>1, SameActions DEF PlainStep, WithSession
    <3> QED
      BY <1>1, <1>2, <1>4, <2>2, <3>2 DEF Served
  <2>3. CASE q.kind = "START"
    <3>1. Node!Start(q.session, q.package)
      BY <1>3, <1>6, <2>3 DEF Handle
    <3> QED
      BY <1>1, <1>2, <1>4, <2>3, <3>1, SameActions DEF Served
  <2>4. CASE q.kind = "DATA"
    <3> DEFINE size == Size[q.package.image]
               len == ChunkEnd(q.offset, size) - q.offset
    <3>1. Node!Data(q.session, q.offset, len, q.package.image)
      BY <1>3, <1>6, <2>4 DEF Handle
    <3>2. len \in 1 .. MaxChunk
      BY <1>1, <2>4, DataRequest
    <3> HIDE DEF len
    <3>3. Board!Data(q.session, q.offset, len, q.package.image)
      BY <3>1, SameActions
    <3>4. dev.at \in Board!BootPlace
      BY <1>6 DEF Board!BootPlace
    <3> QED
      BY <1>1, <1>2, <1>4, <2>4, <3>2, <3>3, <3>4 DEF Served
  <2> QED
    BY <1>1, <2>1, <2>2, <2>3, <2>4, Kinds
<1>7. CASE dev.at \in {"running", "waiting"}
  <2>1. CASE q.kind = "ENTER_BOOT"
    <3>1. Node!AppEnterBoot(q.session)
      BY <1>3, <1>7, <2>1 DEF Handle
    <3> QED
      BY <1>1, <1>2, <1>4, <2>1, <3>1, SameActions DEF Served
  <2>2. CASE q.kind # "ENTER_BOOT"
    <3>1. Node!AppReadOnlyRequest
      BY <1>3, <1>7, <2>2 DEF Handle
    <3>2. Board!AppReadOnlyRequest /\ dev.at \notin Board!BootPlace
      BY <1>7, <3>1, SameActions DEF Board!BootPlace
    <3> QED
      BY <1>1, <1>2, <1>4, <3>2 DEF Served
  <2> QED
    BY <2>1, <2>2
<1> QED
  BY <1>3, <1>6, <1>7 DEF Listening

\* The node's steps by themselves are such steps too, but for the erase.
LEMMA StepIs ==
  ASSUME Reply \/ NodeStep \/ NodeReset
  PROVE  PlainStep \/ (Board!EraseApp /\ dev.pc = "erase")
<1>1. Reply => PlainStep
  BY SameActions DEF Reply, PlainStep
<1>2. NodeStep => Node!EraseApp \/ OtherNodeStep
  BY DEF NodeStep
<1>3. Node!EraseApp => Board!EraseApp /\ dev.pc = "erase"
  BY SameActions DEF Node!EraseApp
<1>4. OtherNodeStep => PlainStep
  BY SameActions DEF OtherNodeStep, PlainStep
<1>5. NodeReset => PlainStep
  BY SameActions DEF NodeReset, PlainStep
<1> QED
  BY <1>1, <1>2, <1>3, <1>4, <1>5

\* What the node counts stays its own; a session begins with START or ENTER_BOOT, and
\* data are lost to an erase.
LEMMA NodeFills ==
  ASSUME UpgradeInv, UpgradeInv', AnswersInv, BoardInv, DataInv,
         Serve \/ Reply \/ NodeStep \/ NodeReset
  PROVE  /\ Board!ContentsInv'
         /\ NoneBegins => Board!Carried
         /\ ~ MayErase => Spares
<1>1. Board!TypeInv /\ Board!SafetyInv /\ Board!ProgressInv /\ Board!ContentsInv
  BY DEF UpgradeInv, BoardInv
<1>2. CASE PlainStep
  BY <1>1, <1>2, PlainFills
<1>3. CASE Board!EraseApp /\ dev.pc = "erase"
  <2>1. Board!ContentsInv' /\ Board!Carried
    BY <1>1, <1>3, Assumptions, Board!EraseAppFills
  <2> QED
    BY <1>3, <2>1 DEF MayErase, Erasing
<1>4. CASE Serve
  <2>1. PICK q \in GoodRequest :
          q = Flight[1] /\ 1 \in DOMAIN Flight /\ Served(q)
    BY <1>4, ServeIs
  <2>2. q.kind \in WithSession => q.session \in Session
    BY DEF GoodRequest
  <2>3. CASE q.kind \in Begins
    <3>1. ~ NoneBegins
      BY <2>1, <2>3 DEF NoneBegins
    <3>2. Board!ContentsInv' /\ flash' = flash
      <4>1. CASE q.kind = "START" /\ Board!Start(q.session, q.package)
        <5>1. q.session \in Session /\ q.package \in Manifest
          BY <2>2, <4>1, UpgradeAssumption DEF GoodRequest, WithSession
        <5> QED
          BY <1>1, <4>1, <5>1, Assumptions, Board!StartFills
      <4>2. CASE q.kind = "ENTER_BOOT" /\ Board!AppEnterBoot(q.session)
        <5>1. q.session \in Session \cup {0}
          BY <2>2, <4>2 DEF WithSession
        <5> QED
          BY <1>1, <4>2, <5>1, Assumptions, Board!EnterBootFills
      <4>3. CASE PlainStep
        BY <1>1, <4>3, PlainFills, Assumptions, Board!OtherFills DEF PlainStep
      <4> QED
        BY <2>1, <2>3, <4>1, <4>2, <4>3 DEF Begins, Served, PlainStep
    <3> QED
      BY <3>1, <3>2 DEF Spares
  <2>4. CASE q.kind = "DATA" /\ \E len \in 1 .. MaxChunk :
                                  Board!Data(q.session, q.offset, len, q.package.image)
    <3>1. PICK len \in 1 .. MaxChunk :
            Board!Data(q.session, q.offset, len, q.package.image)
      BY <2>4
    <3>2. q.session \in Session /\ q.offset \in Board!Unit /\ q.package.image \in Image
      BY <2>4, DataRequest
    <3>3. dev.rec # Board!NoRecord /\ dev.rec.session = q.session
            => dev.rec.manifest.image = q.package.image
      BY <2>1, <2>4 DEF DataInv, Good
    <3>4. Board!ContentsInv'
      BY <1>1, <3>1, <3>2, <3>3, Assumptions, Board!DataFills
    <3>5. Board!Carried /\ \A u \in Board!Unit : flash[u] \in Image => flash'[u] = flash[u]
      BY <1>1, <3>1, <3>2, Assumptions, Board!DataCarries
    <3> QED
      BY <3>4, <3>5 DEF Spares, Board!Unit
  <2> QED
    BY <1>2, <2>1, <2>3, <2>4 DEF Begins, Served, PlainStep
<1> QED
  BY <1>2, <1>3, <1>4, StepIs

\* A session that was for the package's image stays so, or is forgotten.
LEMMA GoodStays ==
  ASSUME NEW s, NEW p, Good(s, p), Board!Carried
  PROVE  Good(s, p)'
<1> SUFFICES ASSUME NEW r \in {dev'.rec, journal'.latest}, r # Board!NoRecord, r.session = s
             PROVE  r.manifest.image = p.image
  BY DEF Good, Board!NoRecord
<1>1. PICK q \in {dev.rec, journal.latest} :
        q # Board!NoRecord /\ q.session = r.session /\ q.manifest = r.manifest
  BY DEF Board!Carried, Board!Stems, Board!SameUpdate
<1> QED
  BY <1>1 DEF Good

-----------------------------------------------------------------------------
\* The node's steps keep the invariant.

LEMMA NodeDrains ==
  ASSUME UpgradeInv, UpgradeInv', AnswersInv, Serve \/ Reply \/ NodeStep \/ NodeReset
  PROVE  /\ gw' = gw /\ client' = client
         /\ MayErase' => MayErase
         /\ \A j \in DOMAIN Flight' : \E i \in DOMAIN Flight : Flight'[j] = Flight[i]
<1>1. Drains
  BY ServeDrains, ReplyDrains, NodeStepDrains DEF UpgradeInv, AnswersInv
<1> QED
  BY <1>1, DrainsKeep DEF UpgradeInv, AnswersInv, Drains, gateway

\* Sessions and data while the node goes on.
LEMMA NodeKeepsData ==
  ASSUME UpgradeInv, UpgradeInv', AnswersInv, BoardInv, FlashInv,
         Serve \/ Reply \/ NodeStep \/ NodeReset
  PROVE  DataInv' /\ PlaceInv' /\ TransferredIsInFlash'
<1>1. /\ gw' = gw /\ client' = client
      /\ \A j \in DOMAIN Flight' : \E i \in DOMAIN Flight : Flight'[j] = Flight[i]
  BY NodeDrains
<1>2. /\ NoneBegins => Board!Carried
      /\ ~ MayErase => Spares
  BY NodeFills DEF FlashInv
<1>3. NoneBegins => NoneBegins'
  BY <1>1 DEF NoneBegins
<1>4. \A s, p : NoneBegins /\ Good(s, p) => Good(s, p)'
  BY <1>2, GoodStays
<1>5. DataInv'
  <2> SUFFICES ASSUME NEW j \in DOMAIN Flight', Flight'[j].kind = "DATA"
               PROVE  Good(Flight[j].session, Flight[j].package)' /\ NoneBegins'
    BY DEF DataInv
  <2>1. PICK i \in DOMAIN Flight : Flight'[j] = Flight[i]
    BY <1>1
  <2>2. Good(Flight[i].session, Flight[i].package) /\ NoneBegins
    BY <2>1 DEF FlashInv, DataInv
  <2> QED
    BY <1>3, <1>4, <2>1, <2>2 DEF Good
<1>6. PlaceInv'
  <2>1. gw.pc \in {"enter", "start"} => \A j \in DOMAIN Flight' : Flight'[j].kind # "DATA"
    BY <1>1 DEF FlashInv, PlaceInv
  <2>2. gw.pc = "transfer" => Good(gw.session, gw.package)' /\ NoneBegins'
    BY <1>1, <1>3, <1>4 DEF FlashInv, PlaceInv, Good
  <2> QED
    BY <1>1, <2>1, <2>2 DEF FlashInv, PlaceInv
<1>7. TransferredIsInFlash'
  <2> SUFFICES ASSUME gw.pc \in {"transfer", "verify", "verified", "activate"},
                      NEW u \in 0 .. (gw.offset - 1)
               PROVE  flash'[u] = gw.package.image
    BY <1>1 DEF TransferredIsInFlash
  <2>1. Spares
    BY <1>2 DEF AnswersInv, EraseInv
  <2>2. gw.package.image \in Image /\ u \in 0 .. (Units - 1)
    BY PackageSize DEF UpgradeInv, GatewayInv, GoodTask, Task
  <2> QED
    BY <2>1, <2>2 DEF Spares, FlashInv, TransferredIsInFlash
<1> QED
  BY <1>5, <1>6, <1>7

\* By itself the node begins to answer when the CRC has been checked, only.
LEMMA OnlyCheckAnswers ==
  ASSUME UpgradeInv, AnswersInv, NodeStep \/ NodeReset, dev'.pc \in {"reply", "verify"}
  PROVE  dev.pc = "verify"
<1>1. Node!EraseApp \/ OtherNodeStep \/ Node!PowerLoss
  BY DEF NodeStep, NodeReset
<1>2. dev.pc \in {"reply", "verify"}
  BY <1>1, NodeStepLeaves DEF UpgradeInv, Board!TypeInv
<1>3. ASSUME dev.pc = "reply"  PROVE  FALSE
  <2>1. /\ ~ (Node!EraseApp \/ Node!CheckCrc \/ Node!WindowExpires \/ Node!Confirm)
        /\ ~ (Node!PowerLoss \/ Node!WatchdogReset)
    <3>1. Node!Off.pc = "idle"
      BY DEF Node!Off
    <3> QED
      BY <1>3, <3>1
      DEF Node!EraseApp, Node!CheckCrc, Node!WindowExpires, Node!Confirm,
          Node!PowerLoss, Node!WatchdogReset
  <2>2. Node!Boot \/ Node!AppInit
    BY <1>1, <2>1 DEF OtherNodeStep
  <2>3. dev.at \in {"off", "entry"}
    BY <2>2 DEF Node!Boot, Node!AppInit
  <2> QED
    BY <1>3, <2>3 DEF UpgradeInv, LineInv, AnswersInv, ServingInv
<1> QED
  BY <1>2, <1>3

\* What the bootloader answers to DATA.
LEMMA NodeKeepsServed ==
  ASSUME UpgradeInv, UpgradeInv', AnswersInv, BoardInv, FlashInv,
         Serve \/ Reply \/ NodeStep \/ NodeReset
  PROVE  ServedInv'
<1>1. dev \in Board!Dev /\ NoRequest.kind # "DATA"
  BY DEF UpgradeInv, Board!TypeInv, Board!WellFormed, NoRequest
<1>2. Board!Off.pc = "idle" /\ Board!Off.at \notin Board!BootPlace
  BY DEF Board!Off, Board!BootPlace
<1>3. CASE Serve
  <2>1. PICK q \in GoodRequest :
          Served(q) /\ serving' = IF Fresh THEN NoRequest ELSE q
    BY <1>3, ServeIs
  <2>2. CASE q.kind # "DATA"
    BY <1>1, <2>1, <2>2 DEF ServedInv
  <2>3. CASE Board!AppReadOnlyRequest /\ dev.at \notin Board!BootPlace
    <3>1. \A st : Board!AppAnswer(st).at = dev.at /\ Board!AppAnswer(st).pc = "reply"
      BY <1>1 DEF Board!AppAnswer, Board!Dev
    <3>2. dev'.at \notin Board!BootPlace /\ dev'.pc = "reply"
      BY <2>3, <3>1 DEF Board!AppReadOnlyRequest
    <3> QED
      BY <3>2 DEF ServedInv
  <2>4. CASE q.kind = "DATA" /\ \E len \in 1 .. MaxChunk :
                                  Board!Data(q.session, q.offset, len, q.package.image)
    <3>1. PICK len \in 1 .. MaxChunk :
            Board!Data(q.session, q.offset, len, q.package.image)
      BY <2>4
    <3>2. /\ q.session \in Session /\ q.offset \in Board!Unit /\ q.package.image \in Image
      BY <2>4, DataRequest
    <3>3. dev'.status \in {"OK", "BAD_OFFSET"} =>
            dev'.rec.state = "RECEIVING" /\ dev'.rec.session = q.session
      BY <3>1, <3>2, Assumptions, Board!DataCarries DEF UpgradeInv, BoardInv
    <3>4. dev'.pc # "verify"
      <4>1. \A st, p : Board!Answer(st).pc = "reply" /\ Board!Recorded(p, st).pc = "reply"
        BY <1>1 DEF Board!Answer, Board!Recorded, Board!Dev
      <4>2. \A n : [Board!Answer("OK") EXCEPT !.rec.received = n].pc = "reply"
        BY <1>1 DEF Board!Answer, Board!Dev
      <4> QED
        BY <1>2, <3>1, <4>1, <4>2 DEF Board!Data, Board!AdvanceTo, Board!Append
    <3> QED
      BY <1>1, <2>1, <3>3, <3>4 DEF ServedInv
  <2> QED
    BY <2>1, <2>2, <2>3, <2>4 DEF Served
<1>4. CASE Reply
  <2>1. dev'.pc \in {"idle", "erase"}
    BY <1>1, <1>4 DEF Reply, Node!SendReply, Node!Off, Board!Dev
  <2> QED
    BY <2>1 DEF ServedInv
<1>5. CASE NodeStep \/ NodeReset
  <2>1. /\ Node!EraseApp \/ OtherNodeStep \/ Node!PowerLoss
        /\ serving' \in {serving, NoRequest}
    BY <1>5 DEF NodeStep, NodeReset
  <2>2. ASSUME dev'.pc \in {"reply", "verify"}  PROVE  serving'.kind # "DATA"
    BY <1>1, <1>5, <2>1, <2>2, OnlyCheckAnswers DEF FlashInv, ServedInv
  <2> QED
    BY <2>2 DEF ServedInv
<1> QED
  BY <1>3, <1>4, <1>5

\* What an answer speaks of stays while nothing it speaks of is lost.
LEMMA ReliableStays ==
  ASSUME UpgradeInv, gw' = gw, NEW r \in GoodAnswer, Reliable(r),
         gw.pc \in {"poll", "transfer"} => Spares,
         gw.pc = "poll" => Board!Carried
  PROVE  Reliable(r)'
<1>1. r.next \in 0 .. Units /\ gw.package.image \in Image /\ Units \in Nat
  BY PackageSize DEF UpgradeInv, GatewayInv, GoodTask, Task, GoodAnswer
<1>2. ASSUME InFlash(r.next), Spares
      PROVE  \A u \in 0 .. (r.next - 1) : flash'[u] = gw.package.image
  <2> SUFFICES ASSUME NEW u \in 0 .. (r.next - 1)  PROVE  flash'[u] = gw.package.image
    OBVIOUS
  <2>1. u \in 0 .. (Units - 1) /\ flash[u] = gw.package.image
    BY <1>1, <1>2 DEF InFlash
  <2> QED
    BY <1>1, <1>2, <2>1 DEF Spares
<1>3. CASE gw.pc = "poll" /\ r.state = "RECEIVING" /\ r.size = ImageSize(gw)
  <2>1. Good(gw.session, gw.package) /\ InFlash(r.next)
    BY <1>3 DEF Reliable
  <2>2. \A s, p : Good(s, p) => Good(s, p)'
    BY <1>3, GoodStays
  <2>3. Good(gw.session, gw.package)'
    BY <2>1, <2>2 DEF Good
  <2> QED
    BY <1>2, <1>3, <2>1, <2>3 DEF Reliable, InFlash
<1>4. CASE gw.pc = "transfer" /\ r.status \in {"OK", "BAD_OFFSET"}
  <2>1. InFlash(r.next)
    BY <1>4 DEF Reliable
  <2> QED
    BY <1>2, <1>4, <2>1 DEF Reliable, InFlash
<1>5. gw'.pc = gw.pc /\ ImageSize(gw') = ImageSize(gw)
  OBVIOUS
<1> QED
  BY <1>3, <1>4, <1>5 DEF Reliable

\* What an answer speaks of is so when it leaves: the data the bootloader counts are
\* those of its session's image, and that is the package's.
LEMMA AnswerIsReliable ==
  ASSUME UpgradeInv, AnswersInv, BoardInv, FlashInv, SizesDiffer,
         serving # NoRequest, dev.pc = "reply",
         Resembles(serving), Decodes(AnswerTo(serving))
  PROVE  Reliable(AnswerTo(serving))
<1> DEFINE r == AnswerTo(serving)
<1>1. Flight # <<>> /\ Flight[1] = serving /\ 1 \in DOMAIN Flight
  BY FlightIs DEF UpgradeInv
<1>2. SUFFICES ASSUME gw.pc \in {"poll", "transfer"}  PROVE  Reliable(r)
  BY DEF Reliable
<1>3. /\ client.req # NoRequest /\ client.req.kind = Kind[gw.pc]
      /\ serving = client.req
      /\ gw.package \in Package /\ gw.package.image \in Image
  BY <1>1, <1>2, PackageSize
  DEF UpgradeInv, GatewayInv, GoodTask, Task, AnswersInv, CallInv, QueueInv
<1>4. ~ Node!InApp
  <2>1. serving.kind \in {"QUERY", "DATA"}
    BY <1>2, <1>3 DEF Kind
  <2> QED
    BY <2>1 DEF Decodes, AnswerTo
<1>5. dev.at \in Board!BootPlace
  <2>1. dev.at # "off"
    BY <1>3 DEF AnswersInv, ServingInv
  <2> QED
    BY <1>4, <2>1 DEF UpgradeInv, Board!TypeInv, Board!WellFormed, Board!Dev,
                      Node!InApp, Node!AppPlace, Board!AppPlace
<1>6. /\ dev.rec \in Board!Payload \cup {Board!NoRecord}
      /\ Board!NoRecord.state = "NONE" /\ Board!NoRecord = Node!NoRecord
  BY DEF UpgradeInv, Board!TypeInv, Board!TypeOK, Board!Dev, Board!NoRecord, Node!NoRecord
<1>7. ASSUME dev.rec.state = "RECEIVING"
      PROVE  /\ r.next = dev.rec.received /\ r.size = Size[dev.rec.manifest.image]
             /\ dev.rec # Board!NoRecord /\ dev.rec.manifest \in Manifest
             /\ \A u \in 0 .. (r.next - 1) : flash[u] = dev.rec.manifest.image
             /\ journal.latest.state # "UPDATE_REQUESTED"
  <2>1. dev.rec # Board!NoRecord
    BY <1>6, <1>7
  <2>2. dev.rec.manifest \in Manifest /\ journal.latest.state \in Board!Ahead("RECEIVING")
    <3>1. Board!Announced(dev.rec) /\ journal.latest.state \in Board!Ahead(dev.rec.state)
      BY <1>5 DEF BoardInv, Board!SafetyInv, Board!Fits
    <3> QED
      BY <1>7, <3>1 DEF Board!Announced
  <2>3. Node!SizeOf(dev.rec.manifest) = Size[dev.rec.manifest.image]
    <3>1. dev.rec.manifest.image \in Image /\ Erased \notin Image
      BY <2>2, UpgradeAssumption DEF Node!DeviceAssumption
    <3> QED
      BY <3>1 DEF Node!SizeOf, Node!NoManifest
  <2>4. r.next = dev.rec.received /\ r.size = Size[dev.rec.manifest.image]
    BY <1>4, <1>6, <2>1, <2>3 DEF AnswerTo
  <2>5. Board!Filled(flash, dev.rec)
    BY DEF BoardInv, Board!ContentsInv
  <2> QED
    BY <1>7, <2>1, <2>2, <2>4, <2>5 DEF Board!Filled, Board!Ahead
<1>8. r.state = "RECEIVING" => dev.rec.state = "RECEIVING"
  BY <1>4, <1>6 DEF AnswerTo
<1>9. r.status = dev.status
  BY DEF AnswerTo
<1> HIDE DEF r
<1>10. ASSUME dev.rec.state = "RECEIVING", dev.rec.manifest.image = gw.package.image
       PROVE  InFlash(r.next)
  BY <1>7, <1>10 DEF InFlash
<1>11. CASE gw.pc = "poll"
  <2> SUFFICES ASSUME r.state = "RECEIVING", r.size = ImageSize(gw)
               PROVE  Good(gw.session, gw.package) /\ InFlash(r.next)
    BY <1>11 DEF Reliable
  <2>1. dev.rec.state = "RECEIVING"
    BY <1>8
  <2>2. gw.package \in Manifest
    BY <1>3, UpgradeAssumption
  <2>3. dev.rec.manifest.image = gw.package.image
    BY <1>7, <2>1, <2>2 DEF SizesDiffer, ImageSize
  <2>4. journal.latest = Board!NoRecord \/ journal.latest.manifest = dev.rec.manifest
    BY <1>7, <2>1 DEF BoardInv, Board!ContentsInv, Board!Kin, Board!SameUpdate
  <2>5. Good(gw.session, gw.package)
    BY <2>3, <2>4 DEF Good
  <2> QED
    BY <1>10, <2>1, <2>3, <2>5
<1>12. CASE gw.pc = "transfer"
  <2> SUFFICES ASSUME r.status \in {"OK", "BAD_OFFSET"}
               PROVE  InFlash(r.next)
    BY <1>12 DEF Reliable
  <2>1. serving.kind = "DATA" /\ serving.session = gw.session
    BY <1>3, <1>12 DEF Kind, FlashInv, PlaceInv
  <2>2. dev.rec.state = "RECEIVING" /\ dev.rec.session = gw.session
    BY <1>5, <1>9, <2>1 DEF FlashInv, ServedInv
  <2>3. dev.rec.manifest.image = gw.package.image
    BY <1>7, <1>12, <2>2 DEF FlashInv, PlaceInv, Good
  <2> QED
    BY <1>10, <2>2, <2>3
<1> QED
  BY <1>2, <1>11, <1>12

\* A place that polls or sends chunks asks for nothing else.
LEMMA PlaceAsks ==
  ASSUME UpgradeInv, AnswersInv, gw.pc \in {"poll", "transfer"}
  PROVE  /\ client.req # NoRequest
         /\ client.req.kind = IF gw.pc = "poll" THEN "QUERY" ELSE "DATA"
         /\ gw.pc = "transfer" => ~ MayErase
  BY DEF UpgradeInv, GatewayInv, AnswersInv, CallInv, EraseInv, Kind

\* The answers the gateway has, and the one it gets, go on being reliable.
LEMMA NodeKeepsOffsets ==
  ASSUME UpgradeInv, UpgradeInv', AnswersInv, BoardInv, FlashInv, SizesDiffer,
         Serve \/ Reply \/ NodeStep \/ NodeReset
  PROVE  OffsetInv'
<1>1. gw' = gw /\ client' = client
  BY NodeDrains
<1>2. /\ NoneBegins => Board!Carried
      /\ ~ MayErase => Spares
  BY NodeFills DEF FlashInv
<1>3. reps \in Seq(GoodAnswer) /\ reps' \in Seq(GoodAnswer)
  BY DEF UpgradeInv, LineInv
<1>4. SUFFICES ASSUME NEW r \in GoodAnswer, \E i \in DOMAIN reps' : reps'[i] = r,
                      Resembles(r.to), Decodes(r)
               PROVE  Reliable(r)'
  <2>1. \A r \in GoodAnswer :
          (\E i \in DOMAIN reps' : reps'[i] = r) /\ Resembles(r.to)' /\ Decodes(r)
            => Reliable(r)'
    BY <1>1, <1>4 DEF Resembles
  <2>2. \A i \in DOMAIN reps' : reps'[i] \in GoodAnswer
    BY <1>3
  <2> QED
    BY <2>1, <2>2 DEF OffsetInv, Resembles, Decodes, Reliable, Good, InFlash
<1>5. CASE gw.pc \notin {"poll", "transfer"}
  BY <1>1, <1>5 DEF Reliable
<1>6. CASE gw.pc \in {"poll", "transfer"} /\ \E i \in DOMAIN reps : reps[i] = r
  <2>1. Reliable(r)
    BY <1>4, <1>6 DEF FlashInv, OffsetInv
  <2>2. /\ client.req # NoRequest
        /\ client.req.kind = IF gw.pc = "poll" THEN "QUERY" ELSE "DATA"
        /\ gw.pc = "transfer" => ~ MayErase
    BY <1>6, PlaceAsks
  <2>3. (\A j \in DOMAIN Flight : Flight[j] = client.req) /\ ~ MayErase
    BY <1>4, <1>6, <2>2 DEF AnswersInv, AnswerInv
  <2>4. gw.pc = "poll" => NoneBegins
    BY <2>2, <2>3 DEF NoneBegins, Begins
  <2> QED
    BY <1>1, <1>2, <2>1, <2>3, <2>4, ReliableStays
<1>7. CASE gw.pc \in {"poll", "transfer"} /\ ~ \E i \in DOMAIN reps : reps[i] = r
  <2>1. /\ Board!TypeInv /\ Board!TypeInv' /\ LineInv /\ LineInv' /\ ServingInv
    BY DEF UpgradeInv, AnswersInv
  <2>2. Reply
    BY <1>4, <1>7, <2>1, ServeDrains, NodeStepDrains
  <2>3. Flight # <<>> /\ reps' = Append(reps, AnswerTo(Flight[1]))
    BY <1>4, <1>7, <2>1, <2>2, ReplyDrains
  <2>4. dev.pc = "reply" /\ serving # NoRequest
    BY <2>1, <2>2 DEF Reply, Node!SendReply, LineInv
  <2>5. Flight[1] = serving
    BY <2>1, <2>4, FlightIs
  <2>6. r = AnswerTo(serving)
    <3> HIDE DEF AnswerTo
    <3> QED
      BY <1>3, <1>4, <1>7, <2>3, <2>5
  <2>7. Resembles(serving)
    BY <1>4, <2>6 DEF AnswerTo
  <2>8. Reliable(r)
    BY <1>4, <2>4, <2>6, <2>7, AnswerIsReliable
  <2>9. PlainStep
    BY <2>2, SameActions DEF Reply, PlainStep
  <2>10. Board!Carried /\ Spares
    BY <2>1, <2>9, PlainFills
  <2> QED
    BY <1>1, <2>8, <2>10, ReliableStays
<1> QED
  BY <1>5, <1>6, <1>7

\* So the node's steps keep the whole of it.
LEMMA NodeKeepsFlash ==
  ASSUME UpgradeInv, UpgradeInv', AnswersInv, BoardInv, FlashInv, SizesDiffer,
         Serve \/ Reply \/ NodeStep \/ NodeReset
  PROVE  FlashInv' /\ Board!ContentsInv'
<1>1. Board!ContentsInv'
  BY NodeFills DEF FlashInv
<1> QED
  BY <1>1, NodeKeepsData, NodeKeepsServed, NodeKeepsOffsets DEF FlashInv

-----------------------------------------------------------------------------
\* Where the task goes: what it takes along, and what it was told before.

\* After a failed call: to the end, round the loop, or on with what it knew.
FailureMoves(g, h) ==
  /\ h.package = g.package
  /\ h.pc \notin {"enter", "start", "transfer", "verify", "activate", "waitapp"}
  /\ h.pc = "verified" => g.pc = "verify" /\ h.offset = g.offset
  /\ h.pc \in Early => h.offset = 0 \/ (g.pc \in Early /\ h.offset = g.offset)
  /\ h.result = "SUCCESS" => g.result = "SUCCESS"

\* After answer r: only POLL and DATA tell an offset, and only an application that
\* has confirmed the version makes the upgrade a success.
AnswerMoves(g, h, r) ==
  /\ h.package = g.package
  /\ h.pc = "enter" => g.pc = "find"
  /\ h.pc = "start" => g.pc = "query"
  /\ h.pc \in {"transfer", "verify"} =>
       \/ /\ g.pc = "poll" /\ r.state = "RECEIVING" /\ r.size = ImageSize(g)
          /\ h.offset = r.next /\ h.session = g.session
       \/ /\ g.pc = "transfer" /\ r.status \in {"OK", "BAD_OFFSET"}
          /\ h.offset = r.next /\ h.session = g.session
       \/ h.pc = "verify" /\ g.pc = "check" /\ h.offset = g.offset
  /\ h.pc = "verified" => g.pc = "verify" /\ h.offset = g.offset
  /\ h.pc = "activate" => g.pc \in {"verified", "check"} /\ h.offset = g.offset
  /\ h.pc \in Early => h.offset = 0 \/ (g.pc \in Early /\ h.offset = g.offset)
  /\ h.pc = "waitapp" => g.pc = "wait" /\ r.app
  /\ h.result = "SUCCESS" =>
       \/ g.result = "SUCCESS"
       \/ g.pc = "waitapp" /\ r.state = "CONFIRMED" /\ r.version = g.package.version

\* A task that fails, and one at another place.
LEMMA FailedMoves ==
  ASSUME NEW g \in Task
  PROVE  /\ FailureMoves(g, Failed(g)) /\ \A r : AnswerMoves(g, Failed(g), r)
         /\ FailureMoves(g, Idle(g.package, g.result))
         /\ \A r : AnswerMoves(g, Idle(g.package, g.result), r)
<1>1. \A result : /\ Idle(g.package, result).pc = "idle"
                  /\ Idle(g.package, result).package = g.package
                  /\ Idle(g.package, result).offset = 0
                  /\ Idle(g.package, result).result = result
  BY DEF Idle
<1>2. /\ GoTo(g, "abort").pc = "abort" /\ GoTo(g, "abort").package = g.package
      /\ GoTo(g, "abort").result = g.result
  BY DEF GoTo, Task
<1>3. ASSUME NEW h, h.package = g.package, h.result = "SUCCESS" => g.result = "SUCCESS",
             h.pc = "abort" \/ (h.pc = "idle" /\ h.offset = 0)
      PROVE  FailureMoves(g, h) /\ \A r : AnswerMoves(g, h, r)
  BY <1>3 DEF FailureMoves, AnswerMoves, Early
<1>4. Failed(g) = GoTo(g, "abort") \/ Failed(g) = Idle(g.package, "FAILED")
  BY DEF Failed
<1>5. FailureMoves(g, Failed(g)) /\ \A r : AnswerMoves(g, Failed(g), r)
  BY <1>1, <1>2, <1>3, <1>4
<1> QED
  BY <1>1, <1>3, <1>5

\* A step to a place, which a loop takes unless the task is aborted.
LEMMA GoToIs ==
  ASSUME NEW g \in Task, NEW place
  PROVE  /\ GoTo(g, place).pc = place /\ GoTo(g, place).package = g.package
         /\ GoTo(g, place).offset = g.offset /\ GoTo(g, place).session = g.session
         /\ GoTo(g, place).result = g.result
         /\ Loop(g, place) = GoTo(g, place) \/ Loop(g, place) = Failed(g)
  BY DEF GoTo, Loop, Task

LEMMA OnFailureMoves ==
  ASSUME NEW g \in Task, NEW error
  PROVE  FailureMoves(g, OnFailure(g, error))
<1>1. ASSUME g.pc \in LoopPlace
      PROVE  FailureMoves(g, GoTo(g, g.pc))
  BY <1>1, GoToIs DEF FailureMoves, LoopPlace, Early
<1>2. FailureMoves(g, GoTo(g, "wait"))
  BY GoToIs DEF FailureMoves, Early
<1>3. g.pc = "verify" => FailureMoves(g, GoTo(g, "verified"))
  BY GoToIs DEF FailureMoves, Early
<1>4. \/ OnFailure(g, error) = Failed(g)
      \/ g.pc \in LoopPlace /\ OnFailure(g, error) = Loop(g, g.pc)
      \/ OnFailure(g, error) = Loop(g, "wait")
      \/ g.pc = "verify" /\ OnFailure(g, error) = GoTo(g, "verified")
      \/ OnFailure(g, error) = Idle(g.package, g.result)
  BY DEF OnFailure, LoopPlace
<1> QED
  BY <1>1, <1>2, <1>3, <1>4, FailedMoves, GoToIs

LEMMA OnAnswerMoves ==
  ASSUME NEW g \in GoodTask, g.pc # "idle", NEW r, NEW s
  PROVE  AnswerMoves(g, OnAnswer(g, r, s), r)
<1>1. g \in Task /\ g.pc \in Place
  BY DEF GoodTask, Task
<1>2. AnswerMoves(g, Failed(g), r) /\ AnswerMoves(g, Idle(g.package, g.result), r)
  BY <1>1, FailedMoves
<1>3. ASSUME NEW place,
             \/ place \in {"info", "query", "check", "erase", "poll", "find", "probeinfo"}
                  /\ g.pc \in Early
             \/ place \in {"wait", "waitboot", "waitquery"}
             \/ place = "enter" /\ g.pc = "find"
             \/ place = "verify" /\ g.pc = "check"
             \/ place = "verified" /\ g.pc = "verify"
             \/ place = "activate" /\ g.pc \in {"verified", "check"}
             \/ place = "waitapp" /\ g.pc = "wait" /\ r.app
      PROVE  AnswerMoves(g, GoTo(g, place), r) /\ AnswerMoves(g, Loop(g, place), r)
  <2>1. AnswerMoves(g, GoTo(g, place), r)
    BY <1>1, <1>3, GoToIs DEF AnswerMoves, Early
  <2> QED
    BY <1>1, <1>2, <2>1, GoToIs
<1>4. CASE g.pc = "find"
  <2> DEFINE h == [g EXCEPT !.entered = FALSE]
  <2>1. h \in Task /\ h.package = g.package /\ h.offset = g.offset /\ h.result = g.result
    BY <1>1 DEF Task
  <2> HIDE DEF h
  <2>2. AnswerMoves(g, GoTo(h, "info"), r)
    BY <1>4, <2>1, GoToIs DEF AnswerMoves, Early
  <2>3. OnAnswer(g, r, s) \in {Loop(g, "find"), GoTo(h, "info"), GoTo(g, "enter")}
    BY <1>4 DEF OnAnswer, Found, h
  <2> QED
    BY <1>3, <1>4, <2>2, <2>3 DEF Early
<1>5. CASE g.pc = "enter"
  <2> DEFINE h == [g EXCEPT !.entered = TRUE]
  <2>1. h \in Task /\ h.package = g.package /\ h.offset = g.offset /\ h.result = g.result
    BY <1>1 DEF Task
  <2> HIDE DEF h
  <2>2. AnswerMoves(g, GoTo(h, "find"), r)
    BY <1>5, <2>1, GoToIs DEF AnswerMoves, Early
  <2>3. AnswerMoves(g, Failed(h), r)
    <3>1. FailureMoves(h, Failed(h)) /\ Failed(h).pc \in {"idle", "abort"}
      BY <2>1, FailedMoves, GoToIs DEF Failed, Idle
    <3> QED
      BY <1>5, <2>1, <3>1 DEF FailureMoves, AnswerMoves, Early
  <2>4. OnAnswer(g, r, s) = Failed(g) \/ OnAnswer(g, r, s) = Loop(h, "find")
    BY <1>5 DEF OnAnswer, Entered, h
  <2> QED
    BY <1>2, <2>1, <2>2, <2>3, <2>4, GoToIs
<1>6. CASE g.pc = "info"
  BY <1>2, <1>3, <1>6 DEF OnAnswer, Early
<1>7. CASE g.pc = "query"
  <2>1. \A ss, m : LET h == GoTo([g EXCEPT !.session = ss, !.mayBeBusy = m], "start")
                   IN /\ h.pc = "start" /\ h.package = g.package
                      /\ h.offset = g.offset /\ h.result = g.result
    BY <1>1 DEF GoTo, Task
  <2>2. ASSUME NEW ss, NEW m
        PROVE  AnswerMoves(g, GoTo([g EXCEPT !.session = ss, !.mayBeBusy = m], "start"), r)
    <3> DEFINE h == GoTo([g EXCEPT !.session = ss, !.mayBeBusy = m], "start")
    <3>1. /\ h.pc = "start" /\ h.package = g.package
          /\ h.offset = g.offset /\ h.result = g.result
      BY <2>1
    <3> HIDE DEF h
    <3>2. AnswerMoves(g, h, r)
      BY <1>7, <3>1 DEF AnswerMoves, Early
    <3> QED
      BY <3>2 DEF h
  <2> QED
    BY <1>2, <1>7, <2>2 DEF OnAnswer, Queried
<1>8. CASE g.pc = "start"
  <2> DEFINE h == GoTo([g EXCEPT !.mayBeBusy = FALSE], "check")
  <2>1. /\ h.pc = "check" /\ h.package = g.package
        /\ h.offset = g.offset /\ h.result = g.result
    BY <1>1 DEF GoTo, Task
  <2>2. AnswerMoves(g, h, r)
    BY <1>8, <2>1 DEF AnswerMoves, Early
  <2> QED
    BY <1>2, <1>8, <2>2 DEF OnAnswer, Started
<1>9. CASE g.pc = "check"
  <2>1. OnAnswer(g, r, s) \in {Failed(g), GoTo(g, "activate"), GoTo(g, "verify"),
                                GoTo(g, "erase")}
    BY <1>9 DEF OnAnswer, Checked
  <2> QED
    BY <1>2, <1>3, <1>9, <2>1 DEF Early
<1>10. CASE g.pc = "erase"
  BY <1>2, <1>3, <1>10 DEF OnAnswer, ErasingAccepted, Early
<1>11. CASE g.pc \in {"poll", "transfer"}
  <2> DEFINE h == [g EXCEPT !.offset = r.next]
  <2>1. \/ /\ OnAnswer(g, r, s) = TransferFrom(g, r.next)
           /\ \/ g.pc = "poll" /\ r.state = "RECEIVING" /\ r.size = ImageSize(g)
              \/ g.pc = "transfer" /\ r.status \in {"OK", "BAD_OFFSET"}
        \/ OnAnswer(g, r, s) = Failed(g)
        \/ g.pc = "poll" /\ OnAnswer(g, r, s) = Loop(g, "poll")
    BY <1>11 DEF OnAnswer, Polled, Transferred
  <2>2. \A place : LET k == GoTo(h, place)
                   IN /\ k.pc = place /\ k.package = g.package /\ k.session = g.session
                      /\ k.offset = r.next /\ k.result = g.result
    BY <1>1 DEF GoTo, Task
  <2>3. Failed(h) \in {GoTo(h, "abort"), Idle(g.package, "FAILED")}
    <3>1. h.package = g.package
      BY <1>1 DEF Task
    <3> HIDE DEF h
    <3> QED
      BY <3>1 DEF Failed
  <2>4. TransferFrom(g, r.next) \in {GoTo(h, "transfer"), GoTo(h, "verify"),
                                      GoTo(h, "abort"), Idle(g.package, "FAILED")}
    BY <2>3 DEF TransferFrom, Loop
  <2> HIDE DEF h
  <2>5. AnswerMoves(g, GoTo(h, "abort"), r)
    BY <2>2 DEF AnswerMoves, Early
  <2>6. AnswerMoves(g, Idle(g.package, "FAILED"), r)
    BY DEF AnswerMoves, Early, Idle
  <2>7. ASSUME NEW place \in {"transfer", "verify"},
               \/ g.pc = "poll" /\ r.state = "RECEIVING" /\ r.size = ImageSize(g)
               \/ g.pc = "transfer" /\ r.status \in {"OK", "BAD_OFFSET"}
        PROVE  AnswerMoves(g, GoTo(h, place), r)
    BY <2>2, <2>7 DEF AnswerMoves, Early
  <2>8. g.pc = "poll" => AnswerMoves(g, Loop(g, "poll"), r)
    BY <1>3 DEF Early
  <2> QED
    BY <1>2, <2>1, <2>4, <2>5, <2>6, <2>7, <2>8
<1>12. CASE g.pc \in {"verify", "verified", "activate"}
  BY <1>2, <1>3, <1>12 DEF OnAnswer, VerifyAnswered, Verified, Activated
<1>13. CASE g.pc \in {"wait", "waitboot", "waitquery", "abort"}
  BY <1>2, <1>3, <1>13 DEF OnAnswer, Answering, SeenBoot
<1>14. CASE g.pc = "waitapp"
  <2>1. r.state = "CONFIRMED" /\ r.version = g.package.version
          => AnswerMoves(g, Succeeded(g), r)
    BY <1>14 DEF AnswerMoves, Early, Succeeded, Idle
  <2> QED
    BY <1>2, <1>3, <1>14, <2>1 DEF OnAnswer, SeenApp
<1>15. CASE g.pc \in {"probe", "probeinfo"}
  BY <1>2, <1>3, <1>15 DEF OnAnswer, Early
<1> QED
  BY <1>1, <1>4, <1>5, <1>6, <1>7, <1>8, <1>9, <1>10, <1>11, <1>12, <1>13, <1>14,
     <1>15, Places

-----------------------------------------------------------------------------
\* The gateway's steps keep the invariant too.

\* What holds of sessions and queue holds of them while the node does nothing.
LEMMA NodeRests ==
  ASSUME FlashInv, UNCHANGED <<node, serving>>, Flight' = Flight
  PROVE  /\ DataInv' /\ ServedInv' /\ (NoneBegins' <=> NoneBegins)
         /\ \A s, p : Good(s, p)' <=> Good(s, p)
<1>1. journal' = journal /\ dev' = dev
  BY DEF node
<1>2. \A s, p : Good(s, p)' <=> Good(s, p)
  BY <1>1 DEF Good
<1>3. NoneBegins' <=> NoneBegins
  BY DEF NoneBegins
<1>4. DataInv'
  BY <1>1, <1>3 DEF FlashInv, DataInv, Good
<1>5. ServedInv'
  BY <1>1 DEF FlashInv, ServedInv
<1> QED
  BY <1>2, <1>3, <1>4, <1>5

\* A new call, of a task that knows what its place needs.
LEMMA CallKeepsFlash ==
  ASSUME FlashInv, NEW h, NEW seq, NEW s, Call(h, seq, s), reps' = <<>>,
         UNCHANGED <<node, reqs, serving>>,
         h.pc \in {"enter", "start"} => \A i \in DOMAIN Flight : Flight[i].kind # "DATA",
         h.pc = "transfer" => Good(h.session, h.package) /\ NoneBegins,
         h.pc \in Early => h.offset = 0,
         h.pc \in {"transfer", "verify", "verified", "activate"} =>
           \A u \in 0 .. (h.offset - 1) : flash[u] = h.package.image
  PROVE  FlashInv'
<1>1. gw' = h /\ flash' = flash /\ journal' = journal /\ dev' = dev
  BY DEF Call, node
<1>2. Flight' = Flight
  BY DEF Flight
<1>3. /\ DataInv' /\ ServedInv' /\ (NoneBegins' <=> NoneBegins)
      /\ \A x, p : Good(x, p)' <=> Good(x, p)
  BY <1>2, NodeRests
<1>4. client'.req.kind = "DATA" =>
        client'.req.session = h.session /\ client'.req.package = h.package
  <2>1. CASE h.pc = "idle"
    BY <2>1 DEF Call, NoCall, NoRequest
  <2>2. CASE h.pc # "idle"
    <3>1. client'.req = RequestOf(h, seq, s)
      BY <2>2 DEF Call
    <3> QED
      BY <3>1 DEF RequestOf, WithSession
  <2> QED
    BY <2>1, <2>2
<1>5. PlaceInv'
  BY <1>1, <1>2, <1>3, <1>4 DEF PlaceInv, Good
<1>6. OffsetInv'
  BY DEF OffsetInv
<1>7. TransferredIsInFlash'
  BY <1>1 DEF TransferredIsInFlash
<1> QED
  BY <1>3, <1>5, <1>6, <1>7 DEF FlashInv

\* A request is sent, or nothing is: the task stays where it is.
LEMMA SendKeepsFlash ==
  ASSUME UpgradeInv, AnswersInv, FlashInv,
         gw'.pc = gw.pc, gw'.session = gw.session, gw'.offset = gw.offset,
         gw'.package = gw.package \/ gw.pc = "idle",
         client'.req = client.req, UNCHANGED <<node, serving>>,
         reps' \in {reps, <<>>},
         Flight' = Flight \/ (client.req # NoRequest /\ Flight' = Append(Flight, client.req))
  PROVE  FlashInv'
<1>1. flash' = flash /\ journal' = journal /\ dev' = dev
  BY DEF node
<1>2. Flight \in Seq(GoodRequest)
  BY FlightIs DEF UpgradeInv
<1>3. /\ gw.pc = "idle" => client.req = NoRequest
      /\ client.req # NoRequest => client.req.kind = Kind[gw.pc] /\ gw.pc \in Place
      /\ NoRequest.kind = "NONE"
  BY DEF UpgradeInv, GatewayInv, GoodTask, Task, AnswersInv, CallInv, NoRequest
<1>4. \A s, p : Good(s, p)' <=> Good(s, p)
  BY <1>1 DEF Good
<1>5. ServedInv'
  BY <1>1 DEF FlashInv, ServedInv
<1>6. OffsetInv'
  <2> SUFFICES ASSUME NEW r, \E i \in DOMAIN reps : reps[i] = r,
                      Resembles(r.to), Decodes(r)
               PROVE  Reliable(r)'
    <3>1. \A r : (\E i \in DOMAIN reps : reps[i] = r) /\ Resembles(r.to)' /\ Decodes(r)
            => Reliable(r)'
      BY DEF Resembles
    <3>2. \A i \in DOMAIN reps' : \E j \in DOMAIN reps : reps[j] = reps'[i]
      OBVIOUS
    <3> QED
      BY <3>1, <3>2 DEF OffsetInv, Resembles, Decodes, Reliable, Good, InFlash
  <2>1. Reliable(r)
    BY DEF FlashInv, OffsetInv
  <2>2. gw.pc # "idle" => gw'.package = gw.package /\ ImageSize(gw') = ImageSize(gw)
    BY DEF ImageSize
  <2> QED
    BY <1>1, <2>1, <2>2 DEF Reliable, Good, InFlash
<1>7. TransferredIsInFlash'
  BY <1>1 DEF FlashInv, TransferredIsInFlash
<1>8. CASE Flight' = Flight
  <2>1. DataInv' /\ (NoneBegins' <=> NoneBegins)
    BY <1>8, NodeRests
  <2>2. PlaceInv'
    <3>1. gw'.pc = "transfer" => Good(gw.session, gw.package)' /\ NoneBegins'
      <4>1. CASE gw.pc = "transfer"
        <5>1. Good(gw.session, gw.package) /\ NoneBegins /\ gw'.package = gw.package
          BY <4>1 DEF FlashInv, PlaceInv
        <5> QED
          BY <1>1, <2>1, <5>1 DEF Good
      <4> QED
        BY <4>1
    <3>2. gw'.pc \in {"enter", "start"} => \A i \in DOMAIN Flight' : Flight'[i].kind # "DATA"
      BY <1>8 DEF FlashInv, PlaceInv
    <3>3. /\ client'.req.kind = "DATA" =>
               client'.req.session = gw'.session /\ client'.req.package = gw'.package
          /\ gw'.pc \in Early => gw'.offset = 0
      BY <1>3 DEF FlashInv, PlaceInv
    <3> QED
      BY <3>1, <3>2, <3>3 DEF PlaceInv, Good
  <2> QED
    BY <1>5, <1>6, <1>7, <2>1, <2>2 DEF FlashInv
<1>9. CASE client.req # NoRequest /\ Flight' = Append(Flight, client.req)
  <2> DEFINE f == Flight
             g == Flight'
             q == client.req
  <2>1. /\ \A i \in DOMAIN g : (i \in DOMAIN f /\ g[i] = f[i]) \/ g[i] = q
        /\ \A i \in DOMAIN f : i \in DOMAIN g /\ g[i] = f[i]
    <3>1. f \in Seq(GoodRequest) /\ q \in GoodRequest /\ g = Append(f, q)
      BY <1>2, <1>9 DEF UpgradeInv, GatewayInv, GoodCall
    <3> HIDE DEF f, g, q
    <3> QED
      BY <3>1
  <2>2. /\ q.kind = "DATA" => gw.pc = "transfer"
        /\ q.kind \in Begins => gw.pc \in {"enter", "start"}
        /\ gw.pc = "transfer" => q.kind = "DATA"
        /\ gw.pc \in {"enter", "start"} => q.kind \in Begins
    BY <1>3, <1>9 DEF Kind, Place, Begins
  <2>3. /\ \A i \in DOMAIN f : f[i].kind = "DATA" =>
             Good(f[i].session, f[i].package) /\ NoneBegins
        /\ q.kind = "DATA" => Good(q.session, q.package) /\ NoneBegins
        /\ gw.pc \in {"enter", "start"} => \A i \in DOMAIN f : f[i].kind # "DATA"
    BY <2>2 DEF FlashInv, DataInv, PlaceInv
  <2>4. NoneBegins <=> \A j \in DOMAIN f : f[j].kind \notin Begins
    BY DEF NoneBegins
  <2>5. NoneBegins' <=> \A j \in DOMAIN g : g[j].kind \notin Begins
    BY DEF NoneBegins
  <2>6. "DATA" \notin Begins
    BY DEF Begins
  <2>7. DataInv' <=> \A i \in DOMAIN g : g[i].kind = "DATA" =>
                       Good(g[i].session, g[i].package) /\ NoneBegins'
    BY <1>1 DEF DataInv, Good
  <2>8. DataInv'
    <3>1. ASSUME NEW i \in DOMAIN g, g[i].kind = "DATA"
          PROVE  Good(g[i].session, g[i].package) /\ \A j \in DOMAIN g : g[j].kind \notin Begins
      <4> HIDE DEF f, g, q
      <4>1. CASE g[i] = q
        BY <2>1, <2>2, <2>3, <2>4, <2>6, <3>1, <4>1
      <4>2. CASE i \in DOMAIN f /\ g[i] = f[i]
        BY <2>1, <2>2, <2>3, <2>4, <2>6, <3>1, <4>2
      <4> QED
        BY <2>1, <4>1, <4>2
    <3> QED
      BY <2>5, <2>7, <3>1
  <2>9. PlaceInv'
    <3>1. gw.pc \in {"enter", "start"} => \A i \in DOMAIN g : g[i].kind # "DATA"
      <4> HIDE DEF f, g, q
      <4> QED
        BY <2>1, <2>2, <2>3, <2>6
    <3>2. gw.pc = "transfer" => Good(gw.session, gw.package) /\ NoneBegins
      BY DEF FlashInv, PlaceInv
    <3>3. gw.pc = "transfer" => \A j \in DOMAIN g : g[j].kind \notin Begins
      <4> HIDE DEF f, g, q
      <4> QED
        BY <2>1, <2>2, <2>4, <2>6, <3>2
    <3>4. gw.pc = "transfer" => Good(gw.session, gw.package)'
      BY <1>1, <1>3, <1>9, <3>2 DEF Good
    <3>5. gw'.package = gw.package
      BY <1>3, <1>9
    <3>6. gw'.pc = "transfer" => Good(gw.session, gw.package)' /\ NoneBegins'
      BY <2>5, <3>3, <3>4
    <3>7. gw'.pc \in {"enter", "start"} => \A i \in DOMAIN Flight' : Flight'[i].kind # "DATA"
      BY <3>1
    <3>8. /\ client'.req.kind = "DATA" =>
               client'.req.session = gw'.session /\ client'.req.package = gw'.package
          /\ gw'.pc \in Early => gw'.offset = 0
      BY <3>5 DEF FlashInv, PlaceInv
    <3> HIDE DEF f, g, q
    <3> QED
      BY <3>6, <3>7, <3>8 DEF PlaceInv
  <2> QED
    BY <1>5, <1>6, <1>7, <2>8, <2>9 DEF FlashInv
<1> QED
  BY <1>8, <1>9

\* A call after one that failed: nothing new is claimed.
LEMMA FailureKeepsFlash ==
  ASSUME FlashInv, NEW h, FailureMoves(gw, h), NEW seq, NEW s, Call(h, seq, s),
         reps' = <<>>, UNCHANGED <<node, reqs, serving>>
  PROVE  FlashInv'
<1>1. h.pc \in Early => h.offset = 0
  BY DEF FailureMoves, FlashInv, PlaceInv
<1>2. h.pc \in {"transfer", "verify", "verified", "activate"} =>
        \A u \in 0 .. (h.offset - 1) : flash[u] = h.package.image
  BY DEF FailureMoves, FlashInv, TransferredIsInFlash
<1> QED
  BY <1>1, <1>2, CallKeepsFlash DEF FailureMoves

\* A call after an answer: what the answer says of the data is so.
LEMMA AnswerKeepsFlash ==
  ASSUME UpgradeInv, AnswersInv, FlashInv,
         NEW r, \E i \in DOMAIN reps : reps[i] = r, Resembles(r.to), Decodes(r),
         NEW h, gw.pc # "idle", AnswerMoves(gw, h, r), NEW seq, NEW s, Call(h, seq, s),
         reps' = <<>>, UNCHANGED <<node, reqs, serving>>
  PROVE  FlashInv'
<1>1. /\ client.req # NoRequest /\ client.req.kind = Kind[gw.pc]
      /\ \A j \in DOMAIN Flight : Flight[j] = client.req
      /\ Reliable(r)
  BY DEF UpgradeInv, GatewayInv, AnswersInv, CallInv, AnswerInv, FlashInv, OffsetInv
<1>2. h.pc \in {"enter", "start"} => \A i \in DOMAIN Flight : Flight[i].kind # "DATA"
  <2>1. h.pc \in {"enter", "start"} => client.req.kind \in {"HELLO", "QUERY"}
    BY <1>1 DEF AnswerMoves, Kind
  <2> QED
    BY <1>1, <2>1
<1>3. ASSUME h.pc \in {"transfer", "verify"}
      PROVE  /\ \A u \in 0 .. (h.offset - 1) : flash[u] = h.package.image
             /\ h.pc = "transfer" => Good(h.session, h.package) /\ NoneBegins
  <2>1. CASE gw.pc = "poll" /\ r.state = "RECEIVING" /\ r.size = ImageSize(gw)
               /\ h.offset = r.next /\ h.session = gw.session
    <3>1. Good(gw.session, gw.package) /\ InFlash(r.next)
      BY <1>1, <2>1 DEF Reliable
    <3>2. NoneBegins
      BY <1>1, <2>1 DEF Kind, NoneBegins, Begins
    <3> QED
      BY <2>1, <3>1, <3>2 DEF AnswerMoves, InFlash
  <2>2. CASE gw.pc = "transfer" /\ r.status \in {"OK", "BAD_OFFSET"}
               /\ h.offset = r.next /\ h.session = gw.session
    <3>1. Good(gw.session, gw.package) /\ NoneBegins /\ InFlash(r.next)
      BY <1>1, <2>2 DEF Reliable, FlashInv, PlaceInv
    <3> QED
      BY <2>2, <3>1 DEF AnswerMoves, InFlash
  <2>3. CASE h.pc = "verify" /\ gw.pc = "check" /\ h.offset = gw.offset
    <3>1. h.offset = 0
      BY <2>3 DEF FlashInv, PlaceInv, Early
    <3> QED
      BY <2>3, <3>1
  <2> QED
    BY <1>3, <2>1, <2>2, <2>3 DEF AnswerMoves
<1>4. ASSUME h.pc \in {"verified", "activate"}
      PROVE  \A u \in 0 .. (h.offset - 1) : flash[u] = h.package.image
  <2>1. gw.pc \in {"verify", "verified", "check"} /\ h.offset = gw.offset
          /\ h.package = gw.package
    BY <1>4 DEF AnswerMoves
  <2>2. gw.pc = "check" => gw.offset = 0
    BY DEF FlashInv, PlaceInv, Early
  <2> QED
    BY <2>1, <2>2 DEF FlashInv, TransferredIsInFlash
<1>5. h.pc \in Early => h.offset = 0
  BY DEF AnswerMoves, FlashInv, PlaceInv
<1> QED
  BY <1>2, <1>3, <1>4, <1>5, CallKeepsFlash

LEMMA AttemptKeepsFlash ==
  ASSUME UpgradeInv, AnswersInv, FlashInv, NEW error, AttemptFails(error),
         reps' = <<>>, UNCHANGED <<node, reqs, serving>>
  PROVE  FlashInv'
<1>1. gw \in Task /\ client \in GoodCall
  BY DEF UpgradeInv, GatewayInv, GoodTask
<1>2. CASE client.left > 0
  <2>1. gw' = gw /\ client' = [client EXCEPT !.waiting = FALSE]
    BY <1>2 DEF AttemptFails
  <2>2. client'.req = client.req /\ Flight' = Flight
    BY <1>1, <2>1 DEF GoodCall, Flight
  <2> QED
    BY <2>1, <2>2, SendKeepsFlash
<1>3. CASE ~ (client.left > 0)
  <2>1. PICK s \in NewSession : Call(OnFailure(gw, error), client.seq, s)
    BY <1>3 DEF AttemptFails
  <2> QED
    BY <1>1, <2>1, OnFailureMoves, FailureKeepsFlash
<1> QED
  BY <1>2, <1>3

LEMMA AnsweredKeepsFlash ==
  ASSUME UpgradeInv, AnswersInv, FlashInv, Answered
  PROVE  FlashInv'
<1>1. /\ client.waiting /\ reps # <<>> /\ reps' = <<>>
      /\ UNCHANGED <<node, reqs, serving>>
  BY DEF Answered
<1>2. CASE Len(reps) = 1 /\ Fits(Head(reps), client.req)
  <2> DEFINE r == Head(reps)
             seq == (client.seq + 1) % SeqMod
             h(s) == IF Decodes(r) THEN OnAnswer(gw, r, s)
                     ELSE OnFailure(gw, "INVALID_RESPONSE")
  <2>1. PICK s \in NewSession : Call(h(s), seq, s)
    BY <1>2 DEF Answered
  <2>2. gw \in GoodTask /\ gw \in Task /\ gw.pc # "idle"
    BY <1>1 DEF UpgradeInv, GatewayInv, GoodTask
  <2>3. 1 \in DOMAIN reps /\ r = reps[1]
    BY <1>1 DEF UpgradeInv, LineInv
  <2>4. Resembles(r.to)
    BY <1>2 DEF Fits, Resembles
  <2>5. CASE Decodes(r)
    <3>1. AnswerMoves(gw, h(s), r)
      BY <2>2, <2>5, OnAnswerMoves
    <3> HIDE DEF h, r, seq
    <3> QED
      BY <1>1, <2>1, <2>2, <2>3, <2>4, <2>5, <3>1, AnswerKeepsFlash
  <2>6. CASE ~ Decodes(r)
    <3>1. FailureMoves(gw, h(s))
      BY <2>2, <2>6, OnFailureMoves
    <3> HIDE DEF h, r, seq
    <3> QED
      BY <1>1, <2>1, <3>1, FailureKeepsFlash
  <2> QED
    BY <2>5, <2>6
<1>3. CASE ~ (Len(reps) = 1 /\ Fits(Head(reps), client.req))
  BY <1>1, <1>3, AttemptKeepsFlash DEF Answered
<1> QED
  BY <1>2, <1>3

\* The console and the deadlines.
LEMMA ConsoleKeepsFlash ==
  ASSUME UpgradeInv, AnswersInv, FlashInv,
         StartTask \/ Probe \/ Deadline \/ GatewayReboots \/ UserAborts \/ NewPackage
           \/ UNCHANGED vars
  PROVE  FlashInv'
<1>1. gw \in Task /\ client \in GoodCall /\ "idle" \in Early
  BY DEF UpgradeInv, GatewayInv, GoodTask, Early
<1>2. gw.pc = "idle" => gw.offset = 0 /\ reps = <<>>
  BY <1>1 DEF FlashInv, PlaceInv, UpgradeInv, GatewayInv, AnswersInv, CallInv
<1>3. CASE StartTask \/ Probe
  <2>1. /\ gw.pc = "idle" /\ reps' = <<>> /\ UNCHANGED <<node, reqs, serving>>
        /\ \/ \E s : Call([gw EXCEPT !.pc = "find", !.result = "NONE"], 0, s)
           \/ \E s : Call(GoTo(gw, "probe"), 0, s)
    BY <1>2, <1>3 DEF StartTask, Probe, line
  <2>2. PICK h, s : Call(h, 0, s) /\ h.pc \in {"find", "probe"} /\ h.offset = 0
    <3>1. /\ [gw EXCEPT !.pc = "find", !.result = "NONE"].pc = "find"
          /\ [gw EXCEPT !.pc = "find", !.result = "NONE"].offset = gw.offset
          /\ GoTo(gw, "probe").pc = "probe" /\ GoTo(gw, "probe").offset = gw.offset
      BY <1>1 DEF Task, GoTo
    <3> QED
      BY <1>2, <2>1, <3>1
  <2> QED
    BY <2>1, <2>2, CallKeepsFlash
<1>4. CASE Deadline
  <2>1. /\ ~ client.waiting /\ UNCHANGED <<node, reqs, serving, reps>>
        /\ \E s : Call(Failed(gw), client.seq, s)
    BY <1>4 DEF Deadline, Late, line
  <2>2. reps' = <<>>
    BY <2>1 DEF AnswersInv, CallInv
  <2> QED
    BY <1>1, <2>1, <2>2, FailedMoves, FailureKeepsFlash
<1>5. CASE GatewayReboots
  <2> DEFINE h == Idle(gw.package, "NONE")
  <2>1. /\ h.pc = "idle" /\ h.offset = 0
        /\ reps' = <<>> /\ UNCHANGED <<node, reqs, serving>>
        /\ Call(h, 0, 0)
    BY <1>5 DEF GatewayReboots, Idle, Call
  <2> HIDE DEF h
  <2> QED
    BY <2>1, CallKeepsFlash
<1>6. CASE UserAborts \/ NewPackage \/ UNCHANGED vars
  <2>1. /\ UNCHANGED <<client, node, reqs, serving, reps>>
        /\ gw'.pc = gw.pc /\ gw'.session = gw.session /\ gw'.offset = gw.offset
        /\ gw'.package = gw.package \/ gw.pc = "idle"
    BY <1>1, <1>6 DEF UserAborts, NewPackage, vars, line, gateway, Task
  <2>2. Flight' = Flight
    BY <2>1 DEF Flight
  <2> QED
    BY <2>1, <2>2, SendKeepsFlash
<1> QED
  BY <1>3, <1>4, <1>5, <1>6

\* Every step keeps it, and what the board's records count.
LEMMA FlashStep ==
  ASSUME UpgradeInv, UpgradeInv', AnswersInv, BoardInv, FlashInv, SizesDiffer, [Next]_vars
  PROVE  FlashInv' /\ Board!ContentsInv'
<1>1. CASE Serve \/ Reply \/ NodeStep \/ NodeReset
  BY <1>1, NodeKeepsFlash
<1>2. CASE ~ (Serve \/ Reply \/ NodeStep \/ NodeReset)
  <2>1. UNCHANGED node
    BY <1>2
    DEF Next, ClientRuns, NodeRuns, Transmit, Answered, TimedOut, StartTask, Probe,
        UserAborts, NewPackage, GatewayReboots, Deadline, vars
  <2>2. Board!ContentsInv'
    BY <2>1 DEF node, BoardInv, Board!ContentsInv, Board!Kin, Board!SameUpdate, Board!Filled
  <2>3. CASE Transmit
    <3>1. /\ client'.req = client.req /\ gw' = gw /\ reps' = <<>> /\ serving' = serving
          /\ client.req # NoRequest
          /\ Flight' = Flight \/ Flight' = Append(Flight, client.req)
      BY <2>3, TransmitFlight DEF UpgradeInv, AnswersInv, Transmit
    <3> QED
      BY <2>1, <2>2, <3>1, SendKeepsFlash
  <2>4. CASE TimedOut
    <3>1. /\ AttemptFails("TIMEOUT") /\ reps' = <<>>
          /\ UNCHANGED <<node, reqs, serving>>
      BY <2>4 DEF TimedOut, line
    <3> QED
      BY <2>2, <3>1, AttemptKeepsFlash
  <2>5. CASE Answered
    BY <2>2, <2>5, AnsweredKeepsFlash
  <2>6. CASE ~ (Transmit \/ TimedOut \/ Answered)
    BY <1>2, <2>2, <2>6, ConsoleKeepsFlash DEF Next, ClientRuns, NodeRuns
  <2> QED
    BY <2>2, <2>3, <2>4, <2>5, <2>6
<1> QED
  BY <1>1, <1>2

LEMMA FlashInit == Init => FlashInv
<1> SUFFICES ASSUME Init PROVE FlashInv
  OBVIOUS
<1>1. /\ gw.pc = "idle" /\ gw.offset = 0 /\ client.req = NoRequest
      /\ reqs = <<>> /\ serving = NoRequest /\ reps = <<>> /\ dev.pc = "idle"
  BY DEF Init, Idle, NoCall, Node!Init, Node!Off
<1>2. Flight = <<>>
  BY <1>1 DEF Flight
<1> QED
  BY <1>1, <1>2
  DEF FlashInv, DataInv, PlaceInv, ServedInv, OffsetInv, TransferredIsInFlash, NoRequest

-----------------------------------------------------------------------------
(***************************************************************************)
(* Why SUCCESS is told of an image that is there and confirmed.  From the  *)
(* moment an application answers HELLO, the node is asked for nothing but  *)
(* to report; so what it then says of its record stays so until it is read.*)
(***************************************************************************)
Settled ==
  /\ \A j \in DOMAIN Flight : Flight[j].kind \in BareKind
  /\ ~ Erasing /\ dev.pc # "verify"
  /\ Board!Reports

\* What answer r says of an image that is confirmed is so.
Truthful(r) ==
  r.state = "CONFIRMED" =>
    journal.latest.state = "CONFIRMED" /\ journal.latest.manifest.version = r.version

ConfirmInv ==
  /\ gw.pc = "wait" => \A i \in DOMAIN reps : Resembles(reps[i].to) /\ reps[i].app => Settled
  /\ gw.pc = "waitapp" => Settled /\ \A i \in DOMAIN reps : Truthful(reps[i])

\* A node that is asked only for reports stays as it is.
LEMMA SettledStays ==
  ASSUME UpgradeInv, UpgradeInv', AnswersInv, Settled,
         Serve \/ Reply \/ NodeStep \/ NodeReset
  PROVE  /\ Settled'
         /\ journal.latest.state = "CONFIRMED" => journal'.latest = journal.latest
<1>1. ~ MayErase
  BY DEF Settled, MayErase, BareKind
<1>2. ~ Erasing' /\ \A j \in DOMAIN Flight' : Flight'[j].kind \in BareKind
  <2>1. /\ MayErase' => MayErase
        /\ \A j \in DOMAIN Flight' : \E i \in DOMAIN Flight : Flight'[j] = Flight[i]
    BY NodeDrains
  <2>2. ~ Erasing'
    BY <1>1, <2>1 DEF MayErase
  <2> QED
    BY <2>1, <2>2 DEF Settled
<1>3. dev \in Board!Dev
  BY DEF UpgradeInv, Board!TypeInv, Board!WellFormed
<1>4. ASSUME \/ Board!ReadOnlyRequest \/ Board!AppReadOnlyRequest \/ Board!AppInit
             \/ Board!WindowExpires \/ Board!WatchdogReset \/ Board!PowerLoss
             \/ Board!Boot \/ Board!Confirm
             \/ \E sent \in BOOLEAN : Board!SendReply(sent)
      PROVE  /\ Board!Reports'
             /\ journal.latest.state = "CONFIRMED" => journal'.latest = journal.latest
  BY <1>4, Assumptions, Board!ReportsStay DEF UpgradeInv, Settled
<1>5. CASE Serve
  <2>1. PICK q \in GoodRequest : q = Flight[1] /\ 1 \in DOMAIN Flight /\ Served(q)
    BY <1>5, ServeIs
  <2>2. q.kind \in BareKind
    BY <2>1 DEF Settled
  <2>3. Board!ReadOnlyRequest \/ Board!AppReadOnlyRequest
    BY <2>1, <2>2 DEF Served, BareKind
  <2>4. \A st : Board!Answer(st).pc = "reply" /\ Board!AppAnswer(st).pc = "reply"
    BY <1>3 DEF Board!Answer, Board!AppAnswer, Board!Dev
  <2>5. dev'.pc = "reply"
    BY <2>3, <2>4 DEF Board!ReadOnlyRequest, Board!AppReadOnlyRequest
  <2> QED
    BY <1>2, <1>4, <2>3, <2>5 DEF Settled
<1>6. CASE Reply
  <2>1. dev'.pc \in {"idle", "erase"}
    BY <1>3, <1>6 DEF Reply, Node!SendReply, Node!Off, Board!Dev
  <2>2. \E sent \in BOOLEAN : Board!SendReply(sent)
    BY <1>6, SameActions DEF Reply
  <2> QED
    BY <1>2, <1>4, <2>1, <2>2 DEF Settled
<1>7. CASE NodeStep \/ NodeReset
  <2>1. dev'.pc # "verify"
    BY <1>7, OnlyCheckAnswers DEF Settled
  <2>2. ~ Node!EraseApp /\ ~ Node!CheckCrc
    BY DEF Settled, Erasing, Node!EraseApp, Node!CheckCrc
  <2>3. \/ Board!AppInit \/ Board!WindowExpires \/ Board!WatchdogReset
        \/ Board!PowerLoss \/ Board!Boot \/ Board!Confirm
    BY <1>7, <2>2, SameActions DEF NodeStep, NodeReset, OtherNodeStep
  <2> QED
    BY <1>2, <1>4, <2>1, <2>3 DEF Settled
<1> QED
  BY <1>5, <1>6, <1>7

\* A settled node reports a confirmed image truthfully.
LEMMA AnswerIsTruthful ==
  ASSUME UpgradeInv, AnswersInv, Board!SafetyInv, Settled, serving # NoRequest
  PROVE  Truthful(AnswerTo(serving))
<1> DEFINE r == AnswerTo(serving)
           rec == IF Node!InApp THEN journal.latest ELSE dev.rec
<1>1. SUFFICES ASSUME r.state = "CONFIRMED"
               PROVE  /\ journal.latest.state = "CONFIRMED"
                      /\ journal.latest.manifest.version = r.version
  BY DEF Truthful
<1>2. /\ rec # Node!NoRecord /\ rec.state = "CONFIRMED"
      /\ r.version = IF Node!InApp THEN Node!RunningVersion ELSE rec.manifest.version
  BY <1>1 DEF AnswerTo
<1>3. CASE Node!InApp
  <2>1. journal.latest.state = "CONFIRMED"
    BY <1>2, <1>3
  <2>2. /\ journal.latest.manifest \in Manifest
        /\ Board!Holds(journal.latest.manifest.image)
        /\ Version[journal.latest.manifest.image] = journal.latest.manifest.version
    BY <2>1 DEF Board!SafetyInv, Board!JournalSafe, Board!Announced,
                Board!PendingIsVerified, Board!ConfirmedIsCompatible
  <2>3. journal.latest.manifest.image \in Image
          /\ Size[journal.latest.manifest.image] \in 1 .. Units /\ Units \in Nat
    BY <2>2, UpgradeAssumption DEF Node!DeviceAssumption, Node!Positive
  <2>4. flash[0] = journal.latest.manifest.image
    BY <2>2, <2>3 DEF Board!Holds
  <2> QED
    BY <1>2, <1>3, <2>1, <2>2, <2>3, <2>4 DEF Node!RunningVersion
<1>4. CASE ~ Node!InApp
  <2>1. dev.at # "off"
    BY DEF AnswersInv, ServingInv
  <2>2. dev.at \in Board!BootPlace
    BY <1>4, <2>1 DEF UpgradeInv, Board!TypeInv, Board!WellFormed, Board!Dev,
                      Node!InApp, Node!AppPlace, Board!AppPlace
  <2>3. journal.latest = dev.rec
    BY <1>2, <1>4, <2>2 DEF Settled, Board!Reports
  <2> QED
    BY <1>2, <1>4, <2>3
<1> QED
  BY <1>3, <1>4

\* The node's steps keep what is said of the wait for the application.
LEMMA NodeKeepsConfirm ==
  ASSUME UpgradeInv, UpgradeInv', AnswersInv, Board!SafetyInv, ConfirmInv,
         Serve \/ Reply \/ NodeStep \/ NodeReset
  PROVE  ConfirmInv'
<1>1. gw' = gw /\ client' = client
  BY NodeDrains
<1>2. /\ Board!TypeInv /\ Board!TypeInv' /\ LineInv /\ LineInv' /\ ServingInv
      /\ reps \in Seq(GoodAnswer) /\ reps' \in Seq(GoodAnswer)
  BY DEF UpgradeInv, AnswersInv, LineInv
<1>3. ASSUME NEW i \in DOMAIN reps', ~ (i \in DOMAIN reps /\ reps'[i] = reps[i])
      PROVE  /\ reps'[i] = AnswerTo(serving) /\ Reply /\ serving # NoRequest
             /\ Flight[1] = serving /\ 1 \in DOMAIN Flight
  <2>1. Reply
    BY <1>2, <1>3, ServeDrains, NodeStepDrains
  <2>2. Flight # <<>> /\ reps' = Append(reps, AnswerTo(Flight[1]))
    BY <1>2, <1>3, <2>1, ReplyDrains
  <2>3. serving # NoRequest
    BY <1>2, <2>1 DEF Reply, Node!SendReply, LineInv
  <2>4. Flight[1] = serving /\ 1 \in DOMAIN Flight
    BY <1>2, <2>3, FlightIs
  <2>5. reps'[i] = AnswerTo(serving)
    <3> HIDE DEF AnswerTo
    <3> QED
      BY <1>2, <1>3, <2>2, <2>4
  <2> QED
    BY <2>1, <2>3, <2>4, <2>5
<1>4. ASSUME gw.pc = "wait", NEW i \in DOMAIN reps', Resembles(reps'[i].to), reps'[i].app
      PROVE  Settled'
  <2>1. CASE i \in DOMAIN reps /\ reps'[i] = reps[i]
    BY <1>4, <2>1, SettledStays DEF ConfirmInv
  <2>2. CASE ~ (i \in DOMAIN reps /\ reps'[i] = reps[i])
    <3>1. /\ reps'[i] = AnswerTo(serving) /\ Reply
          /\ Flight[1] = serving /\ 1 \in DOMAIN Flight
      BY <1>3, <2>2
    <3>2. Resembles(serving) /\ Node!InApp
      BY <1>4, <3>1 DEF AnswerTo
    <3>3. client.req # NoRequest /\ client.req.kind = "HELLO"
      BY <1>4 DEF UpgradeInv, GatewayInv, AnswersInv, CallInv, Kind
    <3>4. \A j \in DOMAIN Flight : Flight[j] = client.req
      <4>1. \A j \in DOMAIN Flight : j = 1 \/ 1 < j
        BY <1>2, FlightIs
      <4> QED
        BY <3>1, <3>2, <3>3, <4>1 DEF AnswersInv, QueueInv
    <3>5. ~ MayErase
      BY <1>4 DEF AnswersInv, EraseInv
    <3>6. dev.pc = "reply"
      BY <3>1 DEF Reply, Node!SendReply
    <3>7. Board!Reports
      BY <3>2 DEF Board!Reports, Board!BootPlace, Node!InApp, Node!AppPlace
    <3>8. Settled
      BY <3>3, <3>4, <3>5, <3>6, <3>7 DEF Settled, MayErase, BareKind
    <3> QED
      BY <3>8, SettledStays
  <2> QED
    BY <2>1, <2>2
<1>5. ASSUME gw.pc = "waitapp"
      PROVE  Settled' /\ \A i \in DOMAIN reps' : Truthful(reps[i])'
  <2>1. /\ Settled /\ Settled'
        /\ journal.latest.state = "CONFIRMED" => journal'.latest = journal.latest
    BY <1>5, SettledStays DEF ConfirmInv
  <2>2. ASSUME NEW i \in DOMAIN reps', NEW r, r = reps'[i]  PROVE  Truthful(r)
    <3>1. CASE i \in DOMAIN reps /\ reps'[i] = reps[i]
      BY <1>5, <2>2, <3>1 DEF ConfirmInv
    <3>2. CASE ~ (i \in DOMAIN reps /\ reps'[i] = reps[i])
      BY <1>3, <2>1, <2>2, <3>2, AnswerIsTruthful
    <3> QED
      BY <3>1, <3>2
  <2> QED
    BY <2>1, <2>2 DEF Truthful
<1> QED
  BY <1>1, <1>4, <1>5 DEF ConfirmInv, Resembles

\* An application has told that it runs the package, confirmed.
Told ==
  /\ gw.pc = "waitapp"
  /\ \E i \in DOMAIN reps :
       reps[i].state = "CONFIRMED" /\ reps[i].version = gw.package.version

\* SUCCESS is reported when that was told, and not otherwise.
SuccessIsTold == gw.result # "SUCCESS" /\ gw'.result = "SUCCESS" => Told

LEMMA SettledRests ==
  ASSUME Settled, UNCHANGED <<node, reqs, serving>>
  PROVE  Settled'
<1>1. Flight' = Flight /\ dev' = dev /\ journal' = journal
  BY DEF Flight, node
<1> QED
  BY <1>1 DEF Settled, Erasing, Board!Reports

\* A new call: the task comes to ask the application from a node that is settled.
LEMMA CallKeepsConfirm ==
  ASSUME NEW h, NEW seq, NEW s, Call(h, seq, s), reps' = <<>>,
         UNCHANGED <<node, reqs, serving>>, h.pc = "waitapp" => Settled
  PROVE  ConfirmInv'
<1>1. gw' = h
  BY DEF Call
<1> QED
  BY <1>1, SettledRests DEF ConfirmInv

LEMMA FailureKeepsConfirm ==
  ASSUME NEW h, FailureMoves(gw, h), NEW seq, NEW s, Call(h, seq, s), reps' = <<>>,
         UNCHANGED <<node, reqs, serving>>
  PROVE  ConfirmInv' /\ SuccessIsTold
<1>1. gw' = h
  BY DEF Call
<1> QED
  BY <1>1, CallKeepsConfirm DEF FailureMoves, SuccessIsTold

LEMMA AnswerKeepsConfirm ==
  ASSUME ConfirmInv, NEW i \in DOMAIN reps, Resembles(reps[i].to),
         NEW h, AnswerMoves(gw, h, reps[i]), NEW seq, NEW s, Call(h, seq, s),
         reps' = <<>>, UNCHANGED <<node, reqs, serving>>
  PROVE  ConfirmInv' /\ SuccessIsTold
<1>1. gw' = h
  BY DEF Call
<1>2. h.pc = "waitapp" => Settled
  BY DEF AnswerMoves, ConfirmInv
<1>3. SuccessIsTold
  BY <1>1 DEF AnswerMoves, SuccessIsTold, Told
<1> QED
  BY <1>2, <1>3, CallKeepsConfirm

\* The task stays where it is, and what it waits for too.
LEMMA SendKeepsConfirm ==
  ASSUME UpgradeInv, AnswersInv, ConfirmInv,
         gw'.pc = gw.pc, gw'.result = gw.result, client'.req = client.req,
         UNCHANGED <<node, serving>>, reps' \in {reps, <<>>},
         Flight' = Flight \/ (client.req # NoRequest /\ Flight' = Append(Flight, client.req)),
         gw.pc = "wait" => reps' = <<>> \/ Flight' = Flight
  PROVE  ConfirmInv' /\ SuccessIsTold
<1>1. dev' = dev /\ journal' = journal
  BY DEF node
<1>2. SuccessIsTold
  BY DEF SuccessIsTold
<1>3. Settled /\ Flight' = Flight => Settled'
  BY <1>1 DEF Settled, Erasing, Board!Reports
<1>4. CASE gw.pc = "wait"
  <2>1. CASE Flight' = Flight
    BY <1>2, <1>3, <1>4, <2>1 DEF ConfirmInv, Resembles
  <2>2. CASE reps' = <<>>
    BY <1>2, <1>4, <2>2 DEF ConfirmInv
  <2> QED
    BY <1>4, <2>1, <2>2
<1>5. CASE gw.pc = "waitapp"
  <2>1. Settled /\ \A i \in DOMAIN reps : Truthful(reps[i])
    BY <1>5 DEF ConfirmInv
  <2>2. client.req \in GoodRequest /\ client.req.kind \in BareKind
    BY <1>5 DEF UpgradeInv, GatewayInv, GoodCall, AnswersInv, CallInv, Kind, BareKind
  <2>3. \A j \in DOMAIN Flight' : Flight'[j].kind \in BareKind
    <3>1. Flight \in Seq(GoodRequest) /\ \A j \in DOMAIN Flight : Flight[j].kind \in BareKind
      BY <2>1, FlightIs DEF UpgradeInv, Settled
    <3>2. \A j \in DOMAIN Append(Flight, client.req) :
            Append(Flight, client.req)[j].kind \in BareKind
      <4> DEFINE f == Flight
                 q == client.req
      <4> HIDE DEF f, q
      <4>1. f \in Seq(GoodRequest) /\ q \in GoodRequest /\ q.kind \in BareKind
              /\ \A j \in DOMAIN f : f[j].kind \in BareKind
        BY <2>2, <3>1 DEF f, q
      <4>2. \A j \in DOMAIN Append(f, q) : Append(f, q)[j].kind \in BareKind
        BY <4>1
      <4> QED
        BY <4>2 DEF f, q
    <3> QED
      BY <3>1, <3>2
  <2>4. Settled'
    BY <1>1, <2>1, <2>3 DEF Settled, Erasing, Board!Reports
  <2>5. \A i \in DOMAIN reps' : Truthful(reps[i])'
    <3>1. \A i \in DOMAIN reps' : Truthful(reps'[i])
      BY <2>1
    <3> QED
      BY <1>1, <3>1 DEF Truthful
  <2> QED
    BY <1>2, <1>5, <2>4, <2>5 DEF ConfirmInv
<1> QED
  BY <1>2, <1>4, <1>5 DEF ConfirmInv

LEMMA AttemptKeepsConfirm ==
  ASSUME UpgradeInv, AnswersInv, ConfirmInv, NEW error, AttemptFails(error),
         reps' = <<>>, UNCHANGED <<node, reqs, serving>>
  PROVE  ConfirmInv' /\ SuccessIsTold
<1>1. gw \in Task /\ client \in GoodCall
  BY DEF UpgradeInv, GatewayInv, GoodTask
<1>2. CASE client.left > 0
  <2>1. gw' = gw /\ client' = [client EXCEPT !.waiting = FALSE]
    BY <1>2 DEF AttemptFails
  <2>2. client'.req = client.req /\ Flight' = Flight
    BY <1>1, <2>1 DEF GoodCall, Flight
  <2> QED
    BY <2>1, <2>2, SendKeepsConfirm
<1>3. CASE ~ (client.left > 0)
  <2>1. PICK s \in NewSession : Call(OnFailure(gw, error), client.seq, s)
    BY <1>3 DEF AttemptFails
  <2> QED
    BY <1>1, <2>1, OnFailureMoves, FailureKeepsConfirm
<1> QED
  BY <1>2, <1>3

LEMMA AnsweredKeepsConfirm ==
  ASSUME UpgradeInv, AnswersInv, ConfirmInv, Answered
  PROVE  ConfirmInv' /\ SuccessIsTold
<1>1. /\ client.waiting /\ reps # <<>> /\ reps' = <<>>
      /\ UNCHANGED <<node, reqs, serving>>
  BY DEF Answered
<1>2. CASE Len(reps) = 1 /\ Fits(Head(reps), client.req)
  <2> DEFINE r == Head(reps)
             seq == (client.seq + 1) % SeqMod
             h(s) == IF Decodes(r) THEN OnAnswer(gw, r, s)
                     ELSE OnFailure(gw, "INVALID_RESPONSE")
  <2>1. PICK s \in NewSession : Call(h(s), seq, s)
    BY <1>2 DEF Answered
  <2>2. gw \in GoodTask /\ gw \in Task /\ gw.pc # "idle"
    BY <1>1 DEF UpgradeInv, GatewayInv, GoodTask
  <2>3. 1 \in DOMAIN reps /\ r = reps[1]
    BY <1>1 DEF UpgradeInv, LineInv
  <2>4. Resembles(r.to)
    BY <1>2 DEF Fits, Resembles
  <2>5. CASE Decodes(r)
    <3>1. AnswerMoves(gw, h(s), r)
      BY <2>2, <2>5, OnAnswerMoves
    <3> HIDE DEF h, r, seq
    <3> QED
      BY <1>1, <2>1, <2>3, <2>4, <3>1, AnswerKeepsConfirm
  <2>6. CASE ~ Decodes(r)
    <3>1. FailureMoves(gw, h(s))
      BY <2>2, <2>6, OnFailureMoves
    <3> HIDE DEF h, r, seq
    <3> QED
      BY <1>1, <2>1, <3>1, FailureKeepsConfirm
  <2> QED
    BY <2>5, <2>6
<1>3. CASE ~ (Len(reps) = 1 /\ Fits(Head(reps), client.req))
  BY <1>1, <1>3, AttemptKeepsConfirm DEF Answered
<1> QED
  BY <1>2, <1>3

LEMMA ConsoleKeepsConfirm ==
  ASSUME UpgradeInv, AnswersInv, ConfirmInv,
         StartTask \/ Probe \/ Deadline \/ GatewayReboots \/ UserAborts \/ NewPackage
           \/ UNCHANGED vars
  PROVE  ConfirmInv' /\ SuccessIsTold
<1>1. gw \in Task /\ client \in GoodCall
  BY DEF UpgradeInv, GatewayInv, GoodTask
<1>2. CASE StartTask \/ Probe
  <2>1. /\ \/ \E s : gw' = [gw EXCEPT !.pc = "find", !.result = "NONE"]
           \/ gw' = GoTo(gw, "probe")
        /\ gw'.pc \in {"find", "probe"} /\ (gw'.result = "SUCCESS" => gw.result = "SUCCESS")
    BY <1>1, <1>2 DEF StartTask, Probe, Call, GoTo, Task
  <2> QED
    BY <2>1 DEF ConfirmInv, SuccessIsTold
<1>3. CASE Deadline
  <2>1. /\ ~ client.waiting /\ UNCHANGED <<node, reqs, serving, reps>>
        /\ \E s : Call(Failed(gw), client.seq, s)
    BY <1>3 DEF Deadline, Late, line
  <2>2. reps' = <<>>
    BY <2>1 DEF AnswersInv, CallInv
  <2> QED
    BY <1>1, <2>1, <2>2, FailedMoves, FailureKeepsConfirm
<1>4. CASE GatewayReboots
  BY <1>4 DEF GatewayReboots, Idle, ConfirmInv, SuccessIsTold
<1>5. CASE UserAborts \/ NewPackage \/ UNCHANGED vars
  <2>1. /\ UNCHANGED <<client, node, reqs, serving, reps>>
        /\ gw'.pc = gw.pc /\ gw'.result = gw.result
    BY <1>1, <1>5 DEF UserAborts, NewPackage, vars, line, gateway, Task
  <2>2. Flight' = Flight
    BY <2>1 DEF Flight
  <2> QED
    BY <2>1, <2>2, SendKeepsConfirm
<1> QED
  BY <1>2, <1>3, <1>4, <1>5

LEMMA ConfirmStep ==
  ASSUME UpgradeInv, UpgradeInv', AnswersInv, Board!SafetyInv, ConfirmInv, [Next]_vars
  PROVE  ConfirmInv' /\ SuccessIsTold
<1>1. CASE Serve \/ Reply \/ NodeStep \/ NodeReset
  <2>1. gw' = gw
    BY <1>1, NodeDrains
  <2> QED
    BY <1>1, <2>1, NodeKeepsConfirm DEF SuccessIsTold
<1>2. CASE Transmit
  <2>1. /\ client'.req = client.req /\ gw' = gw /\ reps' = <<>>
        /\ UNCHANGED <<node, serving>> /\ client.req # NoRequest
        /\ Flight' = Flight \/ Flight' = Append(Flight, client.req)
    BY <1>2, TransmitFlight DEF UpgradeInv, AnswersInv, Transmit
  <2> QED
    BY <2>1, SendKeepsConfirm
<1>3. CASE TimedOut
  <2>1. /\ AttemptFails("TIMEOUT") /\ reps' = <<>>
        /\ UNCHANGED <<node, reqs, serving>>
    BY <1>3 DEF TimedOut, line
  <2> QED
    BY <2>1, AttemptKeepsConfirm
<1>4. CASE Answered
  BY <1>4, AnsweredKeepsConfirm
<1> QED
  BY <1>1, <1>2, <1>3, <1>4, ConsoleKeepsConfirm DEF Next, ClientRuns, NodeRuns

-----------------------------------------------------------------------------
\* Throughout, the records of the node and of its journal tell of one session, and
\* data counted as received or on their way are those of the image of their session
\* (handle_start, handle_data, upgrade_manager_transfer).
THEOREM FlashInvariant ==
  ASSUME SizesDiffer
  PROVE  Spec => [](Board!ContentsInv /\ FlashInv)
<1> DEFINE Ground == UpgradeInv /\ AnswersInv /\ Board!SafetyInv /\ Board!ProgressInv
           Inv == Board!ContentsInv /\ FlashInv
<1>1. Init => Inv
  <2>1. Init => Board!Init
    BY SameInit DEF Init
  <2> QED
    BY <2>1, Assumptions, Board!ContentsInit, FlashInit
<1>2. Ground /\ Ground' /\ Inv /\ [Next]_vars => Inv'
  BY FlashStep DEF BoardInv
<1>3. Spec => []Ground
  BY AnswersInvariant, BoardIsSafe, PTL
<1> HIDE DEF Ground, Inv
<1>4. Spec => []Inv
  BY <1>1, <1>2, <1>3, PTL DEF Spec
<1> QED
  BY <1>4 DEF Inv

\* What the gateway counts as transferred is in the flash, whatever was repeated, lost
\* or came late, and though anyone may reset the node (upgrade_manager_transfer and
\* upgrade_manager_poll_erase), if packages are told apart by their sizes.
THEOREM TransferredDataAreInFlash ==
  ASSUME SizesDiffer
  PROVE  Spec => []TransferredIsInFlash
<1>1. Board!ContentsInv /\ FlashInv => TransferredIsInFlash
  BY DEF FlashInv
<1> QED
  BY <1>1, FlashInvariant, PTL


-----------------------------------------------------------------------------
LEMMA ConfirmInit == Init => ConfirmInv
BY DEF Init, Idle, ConfirmInv

\* SUCCESS is told, with what the journal then says and what the flash holds.
LEMMA ToldIsInstalled ==
  ASSUME VersionsDiffer, UpgradeInv, Board!SafetyInv, ConfirmInv, Told
  PROVE  Installed /\ Node!Holds(gw.package.image)
<1>1. PICK i \in DOMAIN reps :
        reps[i].state = "CONFIRMED" /\ reps[i].version = gw.package.version
  BY DEF Told
<1>2. /\ journal.latest.state = "CONFIRMED"
      /\ journal.latest.manifest.version = gw.package.version
  BY <1>1 DEF Told, ConfirmInv, Truthful
<1>3. journal.latest.manifest \in Manifest /\ gw.package \in Package
  BY <1>2 DEF Board!SafetyInv, Board!JournalSafe, Board!Announced,
              UpgradeInv, GatewayInv, GoodTask, Task
<1>4. journal.latest.manifest = gw.package
  BY <1>2, <1>3 DEF VersionsDiffer
<1>5. Board!Holds(journal.latest.manifest.image)
  BY <1>2 DEF Board!SafetyInv, Board!JournalSafe, Board!PendingIsVerified
<1> QED
  BY <1>2, <1>4, <1>5 DEF Installed, Board!Holds, Node!Holds

\* SUCCESS is reported only when the package is in the flash, and confirmed, though
\* the manager looks at nothing but a version and a state (run_task, the loop after
\* ACTIVATE), if a version is that of one package.
THEOREM SuccessIsOfTheImage ==
  ASSUME VersionsDiffer
  PROVE  Spec => SuccessIsConfirmed
<1> DEFINE Ground == UpgradeInv /\ AnswersInv /\ Board!SafetyInv
           Claim == gw.result # "SUCCESS" /\ gw'.result = "SUCCESS"
                      => Installed /\ Node!Holds(gw.package.image)
<1>1. Init => ConfirmInv
  BY ConfirmInit
<1>2. Ground /\ Ground' /\ ConfirmInv /\ [Next]_vars => ConfirmInv'
  BY ConfirmStep
<1>3. Ground /\ Ground' /\ ConfirmInv /\ [Next]_vars => Claim
  BY ConfirmStep, ToldIsInstalled DEF SuccessIsTold
<1>4. Spec => []Ground
  BY AnswersInvariant, BoardIsSafe, PTL
<1>5. Spec => [][Claim]_vars
  <2> HIDE DEF Ground, Claim
  <2> QED
    BY <1>1, <1>2, <1>3, <1>4, PTL DEF Spec
<1> QED
  BY <1>5 DEF SuccessIsConfirmed
=============================================================================
