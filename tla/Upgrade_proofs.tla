--------------------------- MODULE Upgrade_proofs ----------------------------
(***************************************************************************)
(* What holds of an upgrade for every package, flash, number of attempts   *)
(* and amount of trouble: the gateway's variables are well formed, it asks *)
(* of the node only what Device lets anyone ask, and so what is proved of  *)
(* Device holds of the node while the gateway drives it.                   *)
(***************************************************************************)
EXTENDS Upgrade, TLAPS

\* Device with what is proved of it.
Board == INSTANCE DeviceProgress_proofs

-----------------------------------------------------------------------------
\* The places where the task need not have a session yet.
Sessionless == {"idle", "find", "enter", "info", "query", "probe", "probeinfo"}

\* A request the node can be sent.
GoodRequest ==
  {q \in Request :
     /\ q.kind \in WithSession => q.session \in Session
     /\ q.kind \in {"START", "DATA"} => q.package \in Package
     /\ q.kind = "DATA" => q.offset < Size[q.package.image]}

\* What an answer may say.
GoodAnswer ==
  [to : GoodRequest, status : Board!Status, app : BOOLEAN,
   state : Node!BootState \cup {"NONE"}, session : Session \cup {0},
   next : 0 .. Units, size : 0 .. Units, version : Nat]

\* The task, and what it knows at each place: the session from START on, and an
\* offset inside the image while it transfers.
Task == [pc : Place \cup {"idle"}, package : Package, session : Session \cup {0},
         offset : 0 .. Units, entered : BOOLEAN, mayBeBusy : BOOLEAN,
         aborted : BOOLEAN, result : {"NONE", "SUCCESS", "FAILED"}]

GoodTask ==
  {g \in Task : /\ g.pc \notin Sessionless => g.session \in Session
                /\ g.pc = "transfer" => g.offset < ImageSize(g)}

\* The call under way.
GoodCall ==
  [req : GoodRequest \cup {NoRequest}, left : 0 .. Retries,
   waiting : BOOLEAN, seq : 0 .. (SeqMod - 1)]

\* A call is under way exactly while the task is at a place that makes one, and
\* has an attempt left unless it waits for the answer to its last.
GatewayInv ==
  /\ gw \in GoodTask /\ client \in GoodCall
  /\ gw.pc = "idle" <=> client.req = NoRequest
  /\ client.waiting => client.req # NoRequest
  /\ client.req # NoRequest /\ ~ client.waiting => client.left > 0

\* What is on its way is well formed, and an answer is being made only to a request.
LineInv ==
  /\ reqs \in Seq(GoodRequest) /\ Len(reqs) <= MaxQueue
  /\ serving \in GoodRequest \cup {NoRequest}
  /\ dev.pc \in {"reply", "verify"} => serving # NoRequest
  /\ reps \in Seq(GoodAnswer)
  /\ trouble \in [lost : 0 .. MaxTrouble, other : 0 .. MaxTrouble]

-----------------------------------------------------------------------------
\* The constants of the composition satisfy the assumptions of Device.
LEMMA Assumptions == Board!DeviceAssumption /\ Board!CapacityAssumption
  BY UpgradeAssumption
  DEF Board!DeviceAssumption, Board!CapacityAssumption, Node!DeviceAssumption,
      Node!CapacityAssumption, Node!Positive, Board!Positive, Node!NoManifest

\* The places, and what the kind of request tells about the place.
LEMMA Places ==
  /\ Place = {"find", "enter", "info", "query", "start", "check", "erase", "poll",
              "transfer", "verify", "verified", "activate", "wait", "waitapp",
              "waitboot", "waitquery", "abort", "probe", "probeinfo"}
  /\ \A p \in Place :
       /\ Kind[p] \in WithSession => p = "enter" \/ p \notin Sessionless
       /\ Kind[p] = "ENTER_BOOT" <=> p = "enter"
       /\ Kind[p] = "DATA" <=> p = "transfer"
       /\ Kind[p] # "NONE"
  BY DEF Place, Kind, WithSession, Sessionless

\* A package announces an image that fits.
LEMMA PackageSize ==
  ASSUME NEW p \in Package
  PROVE  p.image \in Image /\ Size[p.image] \in 1 .. Units /\ p.version \in Nat \ {0}
            /\ Units \in Nat \ {0}
  BY UpgradeAssumption DEF Node!DeviceAssumption, Node!Positive

\* A chunk is not empty, no longer than MaxChunk and ends within the image.
LEMMA ChunkEndLater ==
  ASSUME NEW size \in Nat, NEW offset \in Nat, offset < size
  PROVE  ChunkEnd(offset, size) \in (offset + 1) .. (offset + MaxChunk)
           /\ ChunkEnd(offset, size) <= size
<1> DEFINE next == (offset \div Checkpoint + 1) * Checkpoint
           ends == {offset + MaxChunk, next, size}
<1>1. MaxChunk \in Nat \ {0} /\ Checkpoint \in Nat \ {0}
  BY UpgradeAssumption DEF Node!DeviceAssumption, Node!Positive
<1>2. next \in Nat /\ next > offset
  BY <1>1
<1>3. \E end \in ends : \A e \in ends : end <= e
  <2> HIDE DEF next
  <2>1. CASE offset + MaxChunk <= next /\ offset + MaxChunk <= size
    BY <1>1, <1>2, <2>1
  <2>2. CASE next <= offset + MaxChunk /\ next <= size
    BY <1>1, <1>2, <2>2
  <2>3. CASE size <= next /\ size <= offset + MaxChunk
    BY <1>1, <1>2, <2>3
  <2> QED
    BY <1>1, <1>2, <2>1, <2>2, <2>3
<1>4. ChunkEnd(offset, size) \in ends /\ \A e \in ends : ChunkEnd(offset, size) <= e
  BY <1>3, Zenon DEF ChunkEnd
<1> QED
  <2> HIDE DEF next
  <2> QED
    BY <1>1, <1>2, <1>4

-----------------------------------------------------------------------------
\* Going to another place keeps the task well formed, if it has what it needs there.
LEMMA GoToTypes ==
  ASSUME NEW g \in GoodTask, NEW place \in Place \ {"transfer"},
         place \in Sessionless \/ g.session \in Session
  PROVE  GoTo(g, place) \in GoodTask
  BY DEF GoodTask, Task, GoTo, ImageSize

\* A task that has ended is well formed.
LEMMA IdleTypes ==
  ASSUME NEW package \in Package, NEW result \in {"NONE", "SUCCESS", "FAILED"}
  PROVE  Idle(package, result) \in GoodTask /\ Idle(package, result).pc = "idle"
<1>1. Idle(package, result) \in Task
  BY PackageSize DEF Task, Idle
<1> QED
  BY <1>1 DEF GoodTask, Idle, Sessionless

\* So is one that fails, which may still have to abort its session.
LEMMA FailedTypes ==
  ASSUME NEW g \in Task, g.session \in Session \/ g.session = 0
  PROVE  Failed(g) \in GoodTask
<1>1. CASE g.aborted /\ g.session # 0 /\ g.pc # "abort"
  BY <1>1, Places DEF Failed, GoTo, GoodTask, Task
<1>2. CASE ~ (g.aborted /\ g.session # 0 /\ g.pc # "abort")
  BY <1>2, IdleTypes DEF Failed, Task
<1> QED
  BY <1>1, <1>2

\* So is one that goes round a loop, unless the user aborted it.
LEMMA LoopTypes ==
  ASSUME NEW g \in GoodTask, NEW place \in Place \ {"transfer"},
         place \in Sessionless \/ g.session \in Session
  PROVE  Loop(g, place) \in GoodTask
  BY FailedTypes, GoToTypes DEF Loop, GoodTask, Task

\* So is one that sends the chunk at any offset, the end included.
LEMMA TransferTypes ==
  ASSUME NEW g \in GoodTask, g.session \in Session, NEW offset \in 0 .. Units
  PROVE  TransferFrom(g, offset) \in GoodTask
<1> DEFINE h == [g EXCEPT !.offset = offset]
<1>1. /\ h \in Task /\ h.session \in Session
      /\ h.package = g.package /\ h.offset = offset
  BY DEF GoodTask, Task
<1>2. CASE offset < ImageSize(g)
  <2>1. GoTo(h, "transfer") \in GoodTask
    <3> DEFINE k == GoTo(h, "transfer")
    <3> HIDE DEF h
    <3>1. /\ k \in Task /\ k.session \in Session
          /\ k.package = g.package /\ k.offset = offset
      BY <1>1, Places DEF Task, GoTo
    <3> HIDE DEF k
    <3> QED
      BY <1>2, <3>1 DEF GoodTask, ImageSize, k
  <2>2. Failed(h) \in GoodTask
    BY <1>1, FailedTypes
  <2> QED
    BY <1>2, <2>1, <2>2 DEF TransferFrom, Loop
<1>3. CASE ~ (offset < ImageSize(g))
  <2> DEFINE k == GoTo(h, "verify")
  <2> HIDE DEF h
  <2>1. k \in Task /\ k.session \in Session /\ k.pc = "verify"
    BY <1>1, Places DEF Task, GoTo
  <2> HIDE DEF k
  <2>2. k \in GoodTask
    BY <2>1 DEF GoodTask
  <2> USE DEF h, k
  <2> QED
    BY <1>3, <2>2 DEF TransferFrom
<1> QED
  BY <1>2, <1>3

\* Whatever answer is accepted, the task it leads to is well formed.
LEMMA AnswerTypes ==
  ASSUME NEW g \in GoodTask, g.pc # "idle", NEW r \in GoodAnswer, NEW s \in Session
  PROVE  OnAnswer(g, r, s) \in GoodTask
<1> DEFINE own == g.session \in Session
<1>1. /\ g \in Task /\ g.package \in Package /\ g.session \in Session \cup {0}
      /\ g.pc \in Place /\ (g.pc \notin Sessionless => own)
      /\ r.session \in Session \cup {0} /\ r.next \in 0 .. Units
      /\ Failed(g) \in GoodTask
      /\ Idle(g.package, g.result) \in GoodTask /\ Succeeded(g) \in GoodTask
  BY FailedTypes, IdleTypes DEF GoodTask, Task, GoodAnswer, Succeeded
<1>2. \A place \in Place \ {"transfer"} :
        place \in Sessionless \/ own
          => GoTo(g, place) \in GoodTask /\ Loop(g, place) \in GoodTask
  BY GoToTypes, LoopTypes
<1>3. CASE g.pc \in {"find", "enter", "info", "query", "probe", "probeinfo"}
  <2>1. ASSUME NEW e \in BOOLEAN
        PROVE  [g EXCEPT !.entered = e] \in GoodTask
    BY <1>1, <1>3 DEF GoodTask, Task, ImageSize
  <2>2. Found(g, r) \in GoodTask
    BY <1>1, <1>2, <2>1, GoToTypes, Places DEF Found, Sessionless
  <2>3. Entered(g, r) \in GoodTask
    BY <1>1, <2>1, LoopTypes, Places DEF Entered, Sessionless
  <2>4. Queried(g, r, s) \in GoodTask
    <3>1. ASSUME NEW session \in Session, NEW b \in BOOLEAN
          PROVE  GoTo([g EXCEPT !.session = session, !.mayBeBusy = b], "start")
                   \in GoodTask
      <4> DEFINE h == [g EXCEPT !.session = session, !.mayBeBusy = b]
      <4>1. h \in Task /\ h.session \in Session /\ h.pc = g.pc
        BY <1>1 DEF Task
      <4> HIDE DEF h
      <4>2. h \in GoodTask
        BY <1>3, <4>1 DEF GoodTask
      <4>3. GoTo(h, "start") \in GoodTask
        BY <4>1, <4>2, GoToTypes, Places
      <4> QED
        BY <4>3 DEF h
    <3> QED
      BY <1>1, <3>1 DEF Queried
  <2> QED
    BY <1>1, <1>2, <1>3, <2>2, <2>3, <2>4, Places DEF OnAnswer, Sessionless
<1>4. CASE g.pc \in {"start", "check", "erase", "poll", "transfer"}
  <2>1. own
    BY <1>1, <1>4 DEF Sessionless
  <2>2. Started(g, r) \in GoodTask
    <3> DEFINE h == [g EXCEPT !.mayBeBusy = FALSE]
    <3>1. GoTo(h, "check") \in GoodTask
      <4>1. /\ h \in Task /\ h.session \in Session /\ h.pc = g.pc
            /\ h.offset = g.offset /\ h.package = g.package
        BY <1>1, <2>1 DEF Task
      <4> HIDE DEF h
      <4>2. h \in GoodTask
        BY <4>1 DEF GoodTask, ImageSize
      <4> QED
        BY <4>1, <4>2, GoToTypes, Places
    <3> QED
      BY <1>1, <3>1 DEF Started
  <2>3. Checked(g, r) \in GoodTask
    BY <1>1, <1>2, <2>1, Places DEF Checked
  <2>4. ErasingAccepted(g, r) \in GoodTask
    BY <1>1, <1>2, <2>1, Places DEF ErasingAccepted
  <2>5. Polled(g, r) \in GoodTask
    BY <1>1, <1>2, <2>1, Places, TransferTypes DEF Polled
  <2>6. Transferred(g, r) \in GoodTask
    BY <1>1, <1>2, <2>1, Places, TransferTypes DEF Transferred
  <2> QED
    BY <1>4, <2>2, <2>3, <2>4, <2>5, <2>6 DEF OnAnswer
<1>5. CASE g.pc \in {"verify", "verified", "activate", "wait", "waitapp", "waitboot",
                     "waitquery", "abort"}
  <2>1. own
    BY <1>1, <1>5 DEF Sessionless
  <2>2. /\ VerifyAnswered(g, r) \in GoodTask /\ Verified(g, r) \in GoodTask
        /\ Activated(g, r) \in GoodTask /\ Answering(g, r) \in GoodTask
    BY <1>1, <1>2, <2>1, Places DEF VerifyAnswered, Verified, Activated, Answering
  <2>3. SeenApp(g, r) \in GoodTask /\ SeenBoot(g, r) \in GoodTask
    BY <1>1, <1>2, <2>1, Places DEF SeenApp, SeenBoot
  <2> QED
    BY <1>1, <1>5, <2>2, <2>3 DEF OnAnswer
<1> QED
  BY <1>1, <1>3, <1>4, <1>5, Places

\* So is the task a failed call leads to.
LEMMA FailureTypes ==
  ASSUME NEW g \in GoodTask, NEW error
  PROVE  OnFailure(g, error) \in GoodTask
<1>1. Failed(g) \in GoodTask /\ Idle(g.package, g.result) \in GoodTask
  BY FailedTypes, IdleTypes DEF GoodTask, Task
<1>2. CASE g.pc = "find"
  BY <1>2, LoopTypes, Places DEF OnFailure, Sessionless
<1>3. CASE g.pc \in {"wait", "waitapp", "waitboot", "activate", "poll", "verify"}
  <2>1. g.session \in Session
    BY <1>3 DEF GoodTask, Sessionless
  <2>2. Loop(g, "wait") \in GoodTask /\ Loop(g, "poll") \in GoodTask
          /\ GoTo(g, "verified") \in GoodTask
    BY <2>1, LoopTypes, GoToTypes, Places
  <2> QED
    BY <1>1, <1>3, <2>2 DEF OnFailure
<1>4. CASE g.pc \notin {"find", "wait", "waitapp", "waitboot", "activate", "poll", "verify"}
  BY <1>1, <1>4 DEF OnFailure
<1> QED
  BY <1>2, <1>3, <1>4

\* The request a well-formed task makes carries what the node needs.
LEMMA RequestTypes ==
  ASSUME NEW g \in GoodTask, g.pc # "idle", NEW seq \in 0 .. (SeqMod - 1),
         NEW s \in Session
  PROVE  RequestOf(g, seq, s) \in GoodRequest
<1> DEFINE q == RequestOf(g, seq, s)
           kind == Kind[g.pc]
<1>1. /\ g.pc \in Place /\ g.session \in Session \cup {0} /\ g.package \in Package
      /\ g.offset \in 0 .. Units
      /\ g.pc \notin Sessionless => g.session \in Session
      /\ g.pc = "transfer" => g.offset < Size[g.package.image]
  BY DEF GoodTask, Task, ImageSize
<1>2. /\ q.kind = kind /\ q.seq = seq
      /\ q.session = IF kind = "ENTER_BOOT" THEN s
                     ELSE IF kind \in WithSession THEN g.session ELSE 0
      /\ q.package = IF kind \in {"START", "DATA"} THEN g.package ELSE NoPackage
      /\ q.offset = IF kind = "DATA" THEN g.offset ELSE 0
      /\ q = [kind |-> q.kind, seq |-> q.seq, session |-> q.session,
              package |-> q.package, offset |-> q.offset]
  BY DEF RequestOf
<1> HIDE DEF q
<1>3. q \in Request
  <2>1. q.offset \in 0 .. Units
    BY <1>1, <1>2, PackageSize
  <2>2. q.session \in Session \cup {0} /\ q.package \in Package \cup {NoPackage}
          /\ q.kind \in {Kind[p] : p \in Place}
    BY <1>1, <1>2
  <2> QED
    BY <1>2, <2>1, <2>2 DEF Request
<1>4. /\ q.kind \in WithSession => q.session \in Session
      /\ q.kind \in {"START", "DATA"} => q.package \in Package
      /\ q.kind = "DATA" => q.offset < Size[q.package.image]
  BY <1>1, <1>2, Places
<1> QED
  BY <1>3, <1>4 DEF q, GoodRequest

\* The absence of a request is told from any request.
LEMMA NoRequestTypes == NoRequest \notin GoodRequest
  BY Places DEF NoRequest, GoodRequest, Request

\* A call that begins has an attempt left, one that cannot begin leaves none.
LEMMA CallTypes ==
  ASSUME NEW g \in GoodTask, NEW seq \in 0 .. (SeqMod - 1), NEW s \in NewSession,
         Call(g, seq, s)
  PROVE  GatewayInv'
<1>1. s \in Session /\ Retries \in Nat \ {0} /\ gw' = g /\ gw' \in GoodTask
  BY UpgradeAssumption DEF NewSession, Call
<1>2. CASE g.pc = "idle"
  <2>1. client' = NoCall /\ NoCall \in GoodCall /\ ~ NoCall.waiting
          /\ NoCall.req = NoRequest
    BY <1>2, UpgradeAssumption DEF Call, NoCall, GoodCall
  <2> QED
    BY <1>1, <1>2, <2>1 DEF GatewayInv
<1>3. CASE g.pc # "idle"
  <2>1. RequestOf(g, seq, s) \in GoodRequest
    BY <1>1, <1>3, RequestTypes
  <2>2. client' = [req |-> RequestOf(g, seq, s), left |-> Attempts(g.pc),
                   waiting |-> FALSE, seq |-> seq]
    BY <1>3 DEF Call
  <2>3. Attempts(g.pc) \in 1 .. Retries
    BY <1>1 DEF Attempts
  <2>4. client' \in GoodCall /\ client'.req = RequestOf(g, seq, s)
          /\ ~ client'.waiting /\ client'.left > 0
    BY <2>1, <2>2, <2>3 DEF GoodCall
  <2> QED
    BY <1>1, <1>3, <2>1, <2>4, NoRequestTypes DEF GatewayInv
<1> QED
  BY <1>2, <1>3

\* An attempt that fails is repeated, or is the end of the call.
LEMMA AttemptFailsTypes ==
  ASSUME GatewayInv, client.waiting, NEW error, AttemptFails(error)
  PROVE  GatewayInv'
<1>1. CASE client.left > 0
  <2>1. client' = [client EXCEPT !.waiting = FALSE] /\ gw' = gw
    BY <1>1 DEF AttemptFails
  <2>2. client' \in GoodCall /\ client'.req = client.req /\ ~ client'.waiting
          /\ client'.left > 0
    BY <1>1, <2>1 DEF GatewayInv, GoodCall
  <2> QED
    BY <2>1, <2>2 DEF GatewayInv
<1>2. CASE ~ (client.left > 0)
  BY <1>2, FailureTypes, CallTypes DEF AttemptFails, GatewayInv, GoodCall
<1> QED
  BY <1>1, <1>2

-----------------------------------------------------------------------------
\* Things do not go wrong more often than MaxTrouble.
LEMMA TroubleTypes ==
  ASSUME trouble \in [lost : 0 .. MaxTrouble, other : 0 .. MaxTrouble],
         NoTrouble \/ Loss \/ Trouble
  PROVE  trouble' \in [lost : 0 .. MaxTrouble, other : 0 .. MaxTrouble]
  BY UpgradeAssumption DEF NoTrouble, Loss, Trouble, Goes

\* The client sends: the node has room for the request, or does not get it.
LEMMA TransmitTypes ==
  ASSUME GatewayInv, LineInv, Transmit
  PROVE  GatewayInv' /\ LineInv'
<1>1. client.req \in GoodRequest /\ client' = [client EXCEPT !.left = @ - 1, !.waiting = TRUE]
  BY DEF Transmit, GatewayInv, GoodCall
<1>2. client' \in GoodCall /\ client'.req = client.req /\ client'.waiting
  <2>1. client.left - 1 \in 0 .. Retries
    BY UpgradeAssumption DEF Transmit, GatewayInv, GoodCall
  <2> QED
    BY <1>1, <2>1 DEF GatewayInv, GoodCall
<1>3. GatewayInv'
  BY <1>2 DEF Transmit, GatewayInv
<1>4. reqs' \in Seq(GoodRequest) /\ Len(reqs') <= MaxQueue
  <2>1. CASE Reaches
    <3>1. reqs' = Append(reqs, client.req) /\ Len(reqs) < MaxQueue
      BY <2>1, UpgradeAssumption DEF Reaches, LineInv
    <3>2. reqs \in Seq(GoodRequest) /\ MaxQueue \in Nat
      BY UpgradeAssumption DEF LineInv
    <3> QED
      BY <1>1, <3>1, <3>2
  <2>2. CASE GetsLost
    BY <2>2 DEF GetsLost, LineInv
  <2> QED
    BY <2>1, <2>2 DEF Transmit
<1>5. trouble' \in [lost : 0 .. MaxTrouble, other : 0 .. MaxTrouble]
  BY TroubleTypes DEF Transmit, LineInv, Reaches, GetsLost
<1> QED
  BY <1>3, <1>4, <1>5 DEF Transmit, LineInv, node

\* The client reads what came.
LEMMA AnsweredTypes ==
  ASSUME GatewayInv, LineInv, Answered
  PROVE  GatewayInv' /\ LineInv'
<1>1. LineInv'
  BY DEF Answered, LineInv, node
<1>2. CASE Len(reps) = 1 /\ Fits(Head(reps), client.req)
  <2>1. Head(reps) \in GoodAnswer
    BY DEF Answered, LineInv
  <2>2. gw \in GoodTask /\ gw.pc # "idle" /\ (client.seq + 1) % SeqMod \in 0 .. (SeqMod - 1)
    BY UpgradeAssumption DEF Answered, GatewayInv, GoodCall
  <2>3. PICK s \in NewSession :
          Call(IF Decodes(Head(reps)) THEN OnAnswer(gw, Head(reps), s)
               ELSE OnFailure(gw, "INVALID_RESPONSE"), (client.seq + 1) % SeqMod, s)
    BY <1>2 DEF Answered
  <2>4. /\ OnAnswer(gw, Head(reps), s) \in GoodTask
        /\ OnFailure(gw, "INVALID_RESPONSE") \in GoodTask
    BY <2>1, <2>2, AnswerTypes, FailureTypes DEF NewSession
  <2> QED
    BY <1>1, <2>2, <2>3, <2>4, CallTypes
<1>3. CASE ~ (Len(reps) = 1 /\ Fits(Head(reps), client.req))
  BY <1>1, <1>3, AttemptFailsTypes DEF Answered
<1> QED
  BY <1>2, <1>3

\* What leaves the node and its ring alone leaves the line well formed.
LEMMA QuietLineTypes ==
  ASSUME LineInv, UNCHANGED <<node, reqs, serving>>, reps' = reps \/ reps' = <<>>,
         NoTrouble \/ Loss \/ Trouble
  PROVE  LineInv'
<1>1. trouble' \in [lost : 0 .. MaxTrouble, other : 0 .. MaxTrouble]
  BY TroubleTypes DEF LineInv
<1>2. reps' \in Seq(GoodAnswer)
  <2>1. <<>> \in Seq(GoodAnswer)
    OBVIOUS
  <2> QED
    BY <2>1 DEF LineInv
<1>3. UNCHANGED <<reqs, serving, dev>>
  BY DEF node
<1> QED
  BY <1>1, <1>2, <1>3 DEF LineInv

\* A task the console begins is well formed.
LEMMA NewTaskTypes ==
  ASSUME GatewayInv, NEW place \in Sessionless \ {"idle"}, gw.pc = "idle",
         NEW result \in {"NONE", "SUCCESS", "FAILED"}
  PROVE  [gw EXCEPT !.pc = place, !.result = result] \in GoodTask
<1> DEFINE h == [gw EXCEPT !.pc = place, !.result = result]
<1>1. gw \in Task
  BY DEF GatewayInv, GoodTask
<1>2. h \in Task /\ h.pc = place
  BY <1>1, Places DEF Task, Sessionless
<1> HIDE DEF h
<1>3. h \in GoodTask
  BY <1>2 DEF GoodTask, Sessionless
<1> QED
  BY <1>3 DEF h

\* The other steps of the gateway leave the line as it is, but for its own buffer.
LEMMA OtherGatewayTypes ==
  ASSUME GatewayInv, LineInv,
         \/ TimedOut \/ StartTask \/ Probe \/ UserAborts \/ NewPackage
         \/ GatewayReboots \/ Deadline
  PROVE  GatewayInv' /\ LineInv'
<1>1. 0 \in 0 .. (SeqMod - 1)
  BY UpgradeAssumption
<1>2. CASE TimedOut
  <2>1. GatewayInv'
    BY <1>2, AttemptFailsTypes DEF TimedOut
  <2>2. LineInv'
    BY <1>2, QuietLineTypes DEF TimedOut, line
  <2> QED
    BY <2>1, <2>2
<1>3. CASE StartTask
  <2>1. [gw EXCEPT !.pc = "find", !.result = "NONE"] \in GoodTask
    BY <1>3, NewTaskTypes DEF StartTask, Sessionless
  <2>2. GatewayInv'
    BY <1>1, <1>3, <2>1, CallTypes DEF StartTask
  <2>3. LineInv'
    BY <1>3, QuietLineTypes DEF StartTask, line
  <2> QED
    BY <2>2, <2>3
<1>4. CASE Probe
  <2>1. GoTo(gw, "probe") \in GoodTask
    BY GoToTypes, Places DEF GatewayInv, Sessionless
  <2>2. GatewayInv'
    BY <1>1, <1>4, <2>1, CallTypes DEF Probe
  <2>3. LineInv'
    BY <1>4, QuietLineTypes DEF Probe, line
  <2> QED
    BY <2>2, <2>3
<1>5. CASE UserAborts
  <2>1. gw' = [gw EXCEPT !.aborted = TRUE] /\ client' = client
    BY <1>5 DEF UserAborts
  <2>2. gw' \in GoodTask /\ gw'.pc = gw.pc
    BY <2>1 DEF GatewayInv, GoodTask, Task, ImageSize
  <2>3. GatewayInv'
    BY <2>1, <2>2 DEF GatewayInv
  <2>4. LineInv'
    BY <1>5, QuietLineTypes DEF UserAborts, line
  <2> QED
    BY <2>3, <2>4
<1>6. CASE NewPackage
  <2>1. PICK p \in Package : gw' = [gw EXCEPT !.package = p]
    BY <1>6 DEF NewPackage
  <2>2. gw' \in GoodTask /\ gw'.pc = gw.pc /\ client' = client
    BY <1>6, <2>1 DEF NewPackage, GatewayInv, GoodTask, Task, Sessionless
  <2>3. GatewayInv'
    BY <2>2 DEF GatewayInv
  <2>4. LineInv'
    BY <1>6, QuietLineTypes DEF NewPackage, line
  <2> QED
    BY <2>3, <2>4
<1>7. CASE GatewayReboots
  <2>1. gw' \in GoodTask /\ gw'.pc = "idle"
    BY <1>7, IdleTypes DEF GatewayReboots, GatewayInv, GoodTask, Task
  <2>2. client' = NoCall /\ NoCall \in GoodCall /\ ~ NoCall.waiting
          /\ NoCall.req = NoRequest
    BY <1>1, <1>7, UpgradeAssumption DEF GatewayReboots, NoCall, GoodCall
  <2>3. GatewayInv'
    BY <2>1, <2>2 DEF GatewayInv
  <2>4. LineInv'
    BY <1>7, QuietLineTypes DEF GatewayReboots
  <2> QED
    BY <2>3, <2>4
<1>8. CASE Deadline
  <2>1. Failed(gw) \in GoodTask /\ client.seq \in 0 .. (SeqMod - 1)
    BY FailedTypes DEF GatewayInv, GoodTask, Task, GoodCall
  <2>2. GatewayInv'
    BY <1>8, <2>1, CallTypes DEF Deadline
  <2>3. LineInv'
    BY <1>8, QuietLineTypes DEF Deadline, line
  <2> QED
    BY <2>2, <2>3
<1> QED
  BY <1>2, <1>3, <1>4, <1>5, <1>6, <1>7, <1>8

-----------------------------------------------------------------------------
\* The node answers with what its record, or that of the journal, says.
LEMMA AnswerToTypes ==
  ASSUME Board!TypeOK, NEW q \in GoodRequest
  PROVE  AnswerTo(q) \in GoodAnswer
<1> DEFINE rec == IF Node!InApp THEN journal.latest ELSE dev.rec
           none == rec = Node!NoRecord
           a == AnswerTo(q)
<1>1. rec \in Board!Payload \cup {Board!NoRecord}
  BY DEF Board!TypeOK, Board!Dev, Board!JournalOf
<1>2. /\ Board!NoRecord = Node!NoRecord /\ Board!BootState = Node!BootState
      /\ "EMPTY" \in Node!BootState /\ Units \in Nat
  BY UpgradeAssumption
  DEF Board!NoRecord, Node!NoRecord, Board!BootState, Node!BootState,
      Node!DeviceAssumption, Node!Positive
<1>3. ASSUME ~ none
      PROVE  /\ rec.state \in Node!BootState /\ rec.session \in Session \cup {0}
             /\ rec.received \in 0 .. Units
             /\ Node!SizeOf(rec.manifest) \in 0 .. Units
             /\ rec.manifest.version \in Nat
  <2>1. /\ rec.state \in Node!BootState /\ rec.session \in Session \cup {0}
        /\ rec.received \in 0 .. Units
        /\ rec.manifest \in Manifest \cup {Board!NoManifest}
    BY <1>1, <1>2, <1>3 DEF Board!Payload
  <2>2. CASE rec.manifest = Board!NoManifest
    BY <1>2, <2>1, <2>2 DEF Board!NoManifest, Node!NoManifest, Node!SizeOf
  <2>3. CASE rec.manifest \in Manifest /\ rec.manifest # Board!NoManifest
    <3>1. rec.manifest.image \in Image /\ rec.manifest.version \in Nat
            /\ Size[rec.manifest.image] \in 0 .. Units
      BY <2>3, UpgradeAssumption DEF Node!DeviceAssumption, Node!Positive
    <3> QED
      BY <2>1, <2>3, <3>1 DEF Node!SizeOf, Node!NoManifest, Board!NoManifest
  <2> QED
    BY <2>1, <2>2, <2>3
<1>4. Node!RunningVersion \in Nat
  BY UpgradeAssumption DEF Node!RunningVersion, Node!DeviceAssumption, Node!Positive
<1>5. dev.status \in Board!Status /\ Node!InApp \in BOOLEAN
  BY DEF Board!TypeOK, Board!Dev, Board!Status, Node!InApp
<1>6. /\ a = [to |-> a.to, status |-> a.status, app |-> a.app, state |-> a.state,
              session |-> a.session, next |-> a.next, size |-> a.size,
              version |-> a.version]
      /\ a.to = q /\ a.status = dev.status /\ a.app = Node!InApp
      /\ a.state = IF none THEN "EMPTY" ELSE rec.state
      /\ a.session = IF none THEN 0 ELSE rec.session
      /\ a.next = IF none THEN 0 ELSE rec.received
      /\ a.size = IF none THEN 0 ELSE Node!SizeOf(rec.manifest)
      /\ a.version = IF Node!InApp THEN Node!RunningVersion
                     ELSE IF none THEN 0 ELSE rec.manifest.version
  BY DEF AnswerTo
<1> HIDE DEF rec, a
<1>7. /\ a.state \in Node!BootState \cup {"NONE"} /\ a.session \in Session \cup {0}
      /\ a.next \in 0 .. Units /\ a.size \in 0 .. Units /\ a.version \in Nat
  BY <1>2, <1>3, <1>4, <1>6
<1> QED
  BY <1>5, <1>6, <1>7 DEF a, GoodAnswer

-----------------------------------------------------------------------------
\* The node of the composition and the device the theorems are about are the same
\* operators, instantiated twice: step by step.

\* Appending to the journal.
LEMMA SameAppend ==
  ASSUME NEW p, NEW d, NEW f
  PROVE  Node!Append(p, d, f) <=> Board!Append(p, d, f)
  BY DEF Node!Append, Board!Append, Node!CanAppend, Board!CanAppend,
         Node!SafeToCompact, Board!SafeToCompact, Node!Corrupt, Board!Corrupt,
         Node!NoRecord, Board!NoRecord, Node!AppendDone, Board!AppendDone,
         Node!AppendCut, Board!AppendCut, Node!Tear, Board!Tear, Node!CompactDone,
         Board!CompactDone, Node!CompactCut, Board!CompactCut, Node!EmptyJournal,
         Board!EmptyJournal, Node!Off, Board!Off, Node!Fault, Board!Fault,
         Node!NoFault, Board!NoFault

\* The deferred erase, whose two ways of failing share an append.
LEMMA SameEraseApp == Node!EraseApp => Board!EraseApp
<1> SUFFICES ASSUME Node!EraseApp PROVE Board!EraseApp
  OBVIOUS
<1> DEFINE size == Node!SizeOf(dev.rec.manifest)
           idle == [dev EXCEPT !.pc = "idle"]
           zero == [dev.rec EXCEPT !.received = 0]
           ready == Node!WithState(zero, "RECEIVING", 0)
           bad == Node!WithState(dev.rec, "FAILED", Node!FlashErrorCode)
<1>1. /\ size = Board!SizeOf(dev.rec.manifest)
      /\ ready = Board!WithState(zero, "RECEIVING", 0)
      /\ bad = Board!WithState(dev.rec, "FAILED", Board!FlashErrorCode)
      /\ Node!Off = Board!Off
      /\ Node!Fault <=> Board!Fault
  BY DEF Node!SizeOf, Board!SizeOf, Node!NoManifest, Board!NoManifest,
         Node!FlashErrorCode, Board!FlashErrorCode, Node!WithState, Board!WithState,
         Node!Off, Board!Off, Node!NoRecord, Board!NoRecord, Node!Fault, Board!Fault
<1>2. /\ Node!AfterErase(size) = Board!AfterErase(size)
      /\ Node!EraseCut(size) = Board!EraseCut(size)
  BY DEF Node!AfterErase, Board!AfterErase, Node!Unit, Board!Unit, Node!EraseSpan,
         Board!EraseSpan, Node!EraseCut, Board!EraseCut
<1>3. /\ dev.pc = "erase"
      /\ starts' = starts
      /\ \/ /\ size > 0
            /\ flash' = Node!AfterErase(size)
            /\ Node!Append(ready, [idle EXCEPT !.rec = ready], [idle EXCEPT !.rec = zero])
         \/ /\ size = 0
            /\ flash' = flash
            /\ Node!Append(bad, [idle EXCEPT !.rec = bad], idle)
         \/ /\ size > 0
            /\ flash' \in Node!EraseCut(size)
            /\ \/ Node!Fault /\ dev' = Node!Off /\ UNCHANGED journal
               \/ Node!Append(bad, [idle EXCEPT !.rec = bad], idle)
  BY Zenon DEF Node!EraseApp
<1>4. /\ dev.pc = "erase"
      /\ starts' = starts
      /\ \/ /\ Board!SizeOf(dev.rec.manifest) > 0
            /\ flash' = Board!AfterErase(size)
            /\ Board!Append(ready, [idle EXCEPT !.rec = ready], [idle EXCEPT !.rec = zero])
         \/ /\ Board!SizeOf(dev.rec.manifest) = 0
            /\ flash' = flash
            /\ Board!Append(bad, [idle EXCEPT !.rec = bad], idle)
         \/ /\ Board!SizeOf(dev.rec.manifest) > 0
            /\ flash' \in Board!EraseCut(size)
            /\ \/ Board!Fault /\ dev' = Board!Off /\ UNCHANGED journal
               \/ Board!Append(bad, [idle EXCEPT !.rec = bad], idle)
  <2> HIDE DEF size, idle, zero, ready, bad
  <2> QED
    BY <1>1, <1>2, <1>3, SameAppend DEF size
<1>5. QED
  BY <1>1, <1>4, Zenon DEF Board!EraseApp

\* Every operation.
LEMMA SameActions ==
  /\ Node!ReadOnlyRequest => Board!ReadOnlyRequest
  /\ \A s, m : Node!Start(s, m) => Board!Start(s, m)
  /\ \A s : Node!Erase(s) => Board!Erase(s)
  /\ \A s : Node!Verify(s) => Board!Verify(s)
  /\ \A s : Node!Activate(s) => Board!Activate(s)
  /\ \A s : Node!Abort(s) => Board!Abort(s)
  /\ \A s, off, len, i : Node!Data(s, off, len, i) => Board!Data(s, off, len, i)
  /\ Node!Boot => Board!Boot
  /\ Node!WindowExpires => Board!WindowExpires
  /\ Node!CheckCrc => Board!CheckCrc
  /\ Node!AppInit => Board!AppInit
  /\ Node!Confirm => Board!Confirm
  /\ Node!AppReadOnlyRequest => Board!AppReadOnlyRequest
  /\ \A s : Node!AppEnterBoot(s) => Board!AppEnterBoot(s)
  /\ \A sent : Node!SendReply(sent) => Board!SendReply(sent)
  /\ Node!WatchdogReset => Board!WatchdogReset
  /\ Node!PowerLoss => Board!PowerLoss
  /\ Node!EraseApp => Board!EraseApp
<1> USE DEF
      Node!Serving, Board!Serving, Node!Answer, Board!Answer, Node!Quiet,
      Board!Quiet, Node!SizeOf, Board!SizeOf, Node!NoManifest, Board!NoManifest,
      Node!NewRecord, Board!NewRecord, Node!ReserveAndAppend,
      Board!ReserveAndAppend, Node!CompactDone, Board!CompactDone, Node!CompactCut,
      Board!CompactCut, Node!EmptyJournal, Board!EmptyJournal, Node!NoRecord,
      Board!NoRecord, Node!Tear, Board!Tear, Node!AppendDone, Board!AppendDone,
      Node!AppendCut, Board!AppendCut, Node!HasRoom, Board!HasRoom, Node!Corrupt,
      Board!Corrupt, Node!CanCompact, Board!CanCompact, Node!SafeToCompact,
      Board!SafeToCompact, Node!Off, Board!Off, Node!Fault, Board!Fault,
      Node!NoFault, Board!NoFault, Node!Append, Board!Append, Node!CanAppend,
      Board!CanAppend, Node!Reserve, Board!Reserve, Node!Recorded, Board!Recorded,
      Node!StartStatus, Board!StartStatus, Node!ActiveStates, Board!ActiveStates,
      Node!WithState, Board!WithState, Node!EraseStatus, Board!EraseStatus,
      Node!OwnSession, Board!OwnSession, Node!VerifyStatus, Board!VerifyStatus,
      Node!AfterWrite, Board!AfterWrite, Node!Unit, Board!Unit, Node!Chunk,
      Board!Chunk, Node!WriteCut, Board!WriteCut, Node!RangeIsErased,
      Board!RangeIsErased, Node!DataStatus, Board!DataStatus, Node!Matches,
      Board!Matches, Node!AdvanceTo, Board!AdvanceTo, Node!CrossesCheckpoint,
      Board!CrossesCheckpoint, Node!AllowsAppBoot, Board!AllowsAppBoot,
      Node!VectorValid, Board!VectorValid, Node!Jump, Board!Jump, Node!CountedStart,
      Board!CountedStart, Node!TimeoutCode, Board!TimeoutCode,
      Node!VerifyFailedCode, Board!VerifyFailedCode, Node!Holds, Board!Holds,
      Node!Compatible, Board!Compatible, Node!RunningVersion, Board!RunningVersion,
      Node!AppServing, Board!AppServing, Node!AppAnswer, Board!AppAnswer,
      Node!InApp, Board!InApp, Node!AppPlace, Board!AppPlace, Node!FlashErrorCode,
      Board!FlashErrorCode
<1>1. Node!ReadOnlyRequest => Board!ReadOnlyRequest
  BY DEF Node!ReadOnlyRequest, Board!ReadOnlyRequest
<1>2. \A s, m : Node!Start(s, m) => Board!Start(s, m)
  BY DEF Node!Start, Board!Start
<1>3. \A s : Node!Erase(s) => Board!Erase(s)
  BY DEF Node!Erase, Board!Erase
<1>4. \A s : Node!Verify(s) => Board!Verify(s)
  BY DEF Node!Verify, Board!Verify
<1>5. \A s : Node!Activate(s) => Board!Activate(s)
  BY DEF Node!Activate, Board!Activate
<1>6. \A s : Node!Abort(s) => Board!Abort(s)
  BY DEF Node!Abort, Board!Abort
<1>7. \A s, off, len, i : Node!Data(s, off, len, i) => Board!Data(s, off, len, i)
  BY DEF Node!Data, Board!Data
<1>8. Node!Boot => Board!Boot
  BY DEF Node!Boot, Board!Boot
<1>9. Node!WindowExpires => Board!WindowExpires
  BY DEF Node!WindowExpires, Board!WindowExpires
<1>10. Node!CheckCrc => Board!CheckCrc
  BY DEF Node!CheckCrc, Board!CheckCrc
<1>11. Node!AppInit => Board!AppInit
  BY DEF Node!AppInit, Board!AppInit
<1>12. Node!Confirm => Board!Confirm
  BY DEF Node!Confirm, Board!Confirm
<1>13. Node!AppReadOnlyRequest => Board!AppReadOnlyRequest
  BY DEF Node!AppReadOnlyRequest, Board!AppReadOnlyRequest
<1>14. \A s : Node!AppEnterBoot(s) => Board!AppEnterBoot(s)
  BY DEF Node!AppEnterBoot, Board!AppEnterBoot
<1>15. \A sent : Node!SendReply(sent) => Board!SendReply(sent)
  BY DEF Node!SendReply, Board!SendReply
<1>16. Node!WatchdogReset => Board!WatchdogReset
  BY DEF Node!WatchdogReset, Board!WatchdogReset
<1>17. Node!PowerLoss => Board!PowerLoss
  BY DEF Node!PowerLoss, Board!PowerLoss
<1>18. Node!EraseApp => Board!EraseApp
  BY SameEraseApp
<1> QED
  BY <1>1, <1>2, <1>3, <1>4, <1>5, <1>6, <1>7, <1>8, <1>9, <1>10, <1>11, <1>12, <1>13,
     <1>14, <1>15, <1>16, <1>17, <1>18, Zenon

\* So every step.
LEMMA SameStep == [Node!Next]_node => [Board!Next]_(Board!vars)
<1>1. Node!Next => Board!Next
  BY SameActions, ZenonT(30)
  DEF Node!Next, Board!Next, Node!Request, Board!Request, Node!Bootloader,
      Board!Bootloader, Node!Application, Board!Application, Node!Unit, Board!Unit
<1> QED
  BY <1>1 DEF node, Board!vars

\* The board as it leaves the factory.
LEMMA SameInit == Node!Init => Board!Init
  BY DEF Node!Init, Board!Init, Node!EmptyJournal, Board!EmptyJournal,
         Node!NoRecord,
         Board!NoRecord, Node!Unit, Board!Unit, Node!Off, Board!Off

-----------------------------------------------------------------------------
\* What the node's steps mean for the requests and answers between the two.

\* The ten kinds of request.
LEMMA Kinds ==
  ASSUME NEW q \in GoodRequest
  PROVE  q.kind \in {"HELLO", "GET_INFO", "ENTER_BOOT", "QUERY", "START", "ERASE",
                     "DATA", "VERIFY", "ACTIVATE", "ABORT"}
<1>1. PICK p \in Place : q.kind = Kind[p]
  BY DEF GoodRequest, Request
<1> QED
  BY <1>1, Places DEF Kind

\* A request that was handled is one of those the node may be sent at any time.
LEMMA HandleIsNext ==
  ASSUME NEW q \in GoodRequest, Handle(q), Listening
  PROVE  Node!Next
<1>1. q.kind \in WithSession => q.session \in Session
  BY DEF GoodRequest
<1>2. CASE dev.at \in {"window", "service"}
  <2>1. CASE q.kind \in {"HELLO", "GET_INFO", "ENTER_BOOT", "QUERY"}
    <3>1. Node!ReadOnlyRequest
      BY <1>2, <2>1 DEF Handle
    <3> QED
      BY <3>1 DEF Node!Next, Node!Request
  <2>2. CASE q.kind = "DATA"
    <3> DEFINE size == Size[q.package.image]
               len == ChunkEnd(q.offset, size) - q.offset
    <3>1. Node!Data(q.session, q.offset, len, q.package.image)
      BY <1>2, <2>2 DEF Handle
    <3>2. /\ q.session \in Session /\ q.package \in Package
          /\ q.offset \in 0 .. Units /\ q.offset < size
      BY <1>1, <2>2 DEF GoodRequest, Request, WithSession
    <3>3. q.package.image \in Image /\ size \in 1 .. Units /\ Units \in Nat
            /\ MaxChunk \in Nat
      BY <3>2, PackageSize, UpgradeAssumption DEF Node!DeviceAssumption, Node!Positive
    <3>4. q.offset \in Node!Unit /\ len \in 1 .. MaxChunk
      <4>1. ChunkEnd(q.offset, size) \in (q.offset + 1) .. (q.offset + MaxChunk)
        BY <3>2, <3>3, ChunkEndLater
      <4> QED
        BY <3>2, <3>3, <4>1 DEF Node!Unit
    <3> HIDE DEF len
    <3>5. Node!Request
      BY <3>1, <3>2, <3>3, <3>4 DEF Node!Request
    <3> QED
      BY <3>5 DEF Node!Next
  <2>3. CASE q.kind = "START"
    <3>1. Node!Start(q.session, q.package) /\ q.package \in Manifest
      BY <1>2, <2>3, UpgradeAssumption DEF Handle, GoodRequest
    <3> QED
      BY <1>1, <2>3, <3>1 DEF Node!Next, Node!Request, WithSession
  <2>4. CASE q.kind \in {"ERASE", "VERIFY", "ACTIVATE", "ABORT"}
    <3>1. \/ Node!Erase(q.session) \/ Node!Verify(q.session)
          \/ Node!Activate(q.session) \/ Node!Abort(q.session)
      BY <1>2, <2>4 DEF Handle
    <3> QED
      BY <1>1, <2>4, <3>1 DEF Node!Next, Node!Request, WithSession
  <2> QED
    BY <2>1, <2>2, <2>3, <2>4, Kinds
<1>3. CASE dev.at \in {"running", "waiting"}
  <2>1. CASE q.kind = "ENTER_BOOT"
    <3>1. Node!AppEnterBoot(q.session)
      BY <1>3, <2>1 DEF Handle
    <3> QED
      BY <1>1, <2>1, <3>1 DEF Node!Next, Node!Application, WithSession
  <2>2. CASE q.kind # "ENTER_BOOT"
    <3>1. Node!AppReadOnlyRequest
      BY <1>3, <2>2 DEF Handle
    <3> QED
      BY <3>1 DEF Node!Next, Node!Application
  <2> QED
    BY <2>1, <2>2
<1> QED
  BY <1>2, <1>3 DEF Listening

\* A handler ends with the node switched off or where it can be sent requests.
LEMMA HandleLeaves ==
  ASSUME Board!TypeOK, NEW q \in GoodRequest, Handle(q), Listening
  PROVE  dev' = Node!Off \/ dev'.at \in {"service", "running", "waiting"}
<1>1. DOMAIN dev = {"at", "rec", "pc", "deferred", "status"}
        /\ dev = [f \in {"at", "rec", "pc", "deferred", "status"} |-> dev[f]]
  BY DEF Board!TypeOK, Board!Dev
<1>2. \A st : Node!Answer(st).at = "service" /\ Node!AppAnswer(st).at = dev.at
  BY <1>1 DEF Node!Answer, Node!AppAnswer
<1>3. \A st, p : Node!Recorded(p, st).at = "service"
  BY <1>1 DEF Node!Recorded, Node!Answer
<1>4. CASE dev.at \in {"window", "service"}
  <2>1. CASE q.kind \in {"HELLO", "GET_INFO", "ENTER_BOOT", "QUERY"}
    <3>1. Node!ReadOnlyRequest
      BY <1>4, <2>1 DEF Handle
    <3> QED
      BY <1>2, <3>1 DEF Node!ReadOnlyRequest
  <2>2. CASE q.kind = "START"
    <3>1. Node!Start(q.session, q.package)
      BY <1>4, <2>2 DEF Handle
    <3> QED
      BY <1>2, <1>3, <3>1 DEF Node!Start, Node!Append, Node!ReserveAndAppend
  <2>3. CASE q.kind = "ERASE"
    <3>1. Node!Erase(q.session)
      BY <1>4, <2>3 DEF Handle
    <3>2. \A p : [Node!Recorded(p, "BUSY") EXCEPT !.deferred = "erase"].at = "service"
            /\ [Node!Answer("BUSY") EXCEPT !.deferred = "erase"].at = "service"
      BY <1>1 DEF Node!Recorded, Node!Answer
    <3> QED
      BY <1>2, <3>1, <3>2 DEF Node!Erase, Node!Append
  <2>4. CASE q.kind = "DATA"
    <3>1. Node!Data(q.session, q.offset,
                    ChunkEnd(q.offset, Size[q.package.image]) - q.offset,
                    q.package.image)
      BY <1>4, <2>4 DEF Handle
    <3>2. \A new : [Node!Answer("OK") EXCEPT !.rec.received = new].at = "service"
      BY <1>1 DEF Node!Answer
    <3>3. \A new : Node!AdvanceTo(new)
                     => dev' = Node!Off \/ dev'.at = "service"
      BY <1>2, <1>3, <3>2 DEF Node!AdvanceTo, Node!Append
    <3> QED
      BY <1>2, <3>1, <3>3 DEF Node!Data
  <2>5. CASE q.kind = "VERIFY"
    <3>1. Node!Verify(q.session)
      BY <1>4, <2>5 DEF Handle
    <3> DEFINE checking == [dev EXCEPT !.at = "service", !.pc = "verify"]
    <3>2. checking.at = "service" /\ \A p : [checking EXCEPT !.rec = p].at = "service"
      BY <1>1
    <3>3. \/ dev' \in {checking, Node!Off}
          \/ \E p : dev' = [checking EXCEPT !.rec = p]
          \/ \E st : dev' = Node!Answer(st)
      <4> HIDE DEF checking
      <4> QED
        BY <3>1, Zenon DEF Node!Verify, Node!Append, checking
    <3> HIDE DEF checking
    <3> QED
      BY <1>2, <3>2, <3>3
  <2>6. CASE q.kind = "ACTIVATE"
    <3>1. Node!Activate(q.session)
      BY <1>4, <2>6 DEF Handle
    <3>2. [Node!Answer("OK") EXCEPT !.deferred = "reset"].at = "service"
      BY <1>1 DEF Node!Answer
    <3> QED
      BY <1>2, <3>1, <3>2 DEF Node!Activate
  <2>7. CASE q.kind = "ABORT"
    <3>1. Node!Abort(q.session)
      BY <1>4, <2>7 DEF Handle
    <3> QED
      BY <1>2, <1>3, <3>1 DEF Node!Abort, Node!Append
  <2> QED
    BY <2>1, <2>2, <2>3, <2>4, <2>5, <2>6, <2>7, Kinds
<1>5. CASE dev.at \in {"running", "waiting"}
  <2>1. CASE q.kind = "ENTER_BOOT"
    <3>1. Node!AppEnterBoot(q.session)
      BY <1>5, <2>1 DEF Handle
    <3>2. [Node!AppAnswer("OK") EXCEPT !.deferred = "reset"].at = dev.at
      BY <1>1 DEF Node!AppAnswer
    <3> QED
      BY <1>2, <1>5, <3>1, <3>2 DEF Node!AppEnterBoot, Node!Append, Node!ReserveAndAppend
  <2>2. CASE q.kind # "ENTER_BOOT"
    <3>1. Node!AppReadOnlyRequest
      BY <1>5, <2>2 DEF Handle
    <3> QED
      BY <1>2, <1>5, <3>1 DEF Node!AppReadOnlyRequest
  <2> QED
    BY <2>1, <2>2
<1> QED
  BY <1>4, <1>5 DEF Listening

\* The node takes the request it has had for longest.
LEMMA ServeTypes ==
  ASSUME Board!TypeOK, GatewayInv, LineInv, Serve
  PROVE  GatewayInv' /\ LineInv' /\ Node!Next
<1> DEFINE q == Head(reqs)
<1>1. q \in GoodRequest /\ Tail(reqs) \in Seq(GoodRequest) /\ Len(Tail(reqs)) <= MaxQueue
  BY UpgradeAssumption DEF Serve, LineInv
<1>2. <<>> \in Seq(GoodRequest) /\ Len(<<>>) = 0 /\ MaxQueue \in Nat
  BY UpgradeAssumption
<1>3. Handle(q) /\ Listening
  BY DEF Serve
<1>4. GatewayInv'
  BY DEF Serve, gateway, GatewayInv
<1> HIDE DEF q
<1>5. dev' = Node!Off \/ dev'.at \in {"service", "running", "waiting"}
  BY <1>1, <1>3, HandleLeaves
<1>6. Node!Next
  BY <1>1, <1>3, HandleIsNext
<1>7. dev'.pc \in {"reply", "verify"} => ~ Fresh
  BY <1>5 DEF Node!Off, Fresh
<1>8. /\ reqs' = IF Fresh THEN <<>> ELSE Tail(reqs)
      /\ serving' = IF Fresh THEN NoRequest ELSE q
      /\ reps' = reps /\ trouble' = trouble
  BY DEF Serve, q
<1>9. reqs' \in Seq(GoodRequest) /\ Len(reqs') <= MaxQueue
  BY <1>1, <1>2, <1>8
<1> QED
  BY <1>1, <1>4, <1>6, <1>7, <1>8, <1>9, NoRequestTypes DEF LineInv

\* An answer that is sent is an answer to the request that was taken.
LEMMA ReplyTypes ==
  ASSUME Board!TypeOK, GatewayInv, LineInv, Reply
  PROVE  GatewayInv' /\ LineInv' /\ Node!Next
<1>1. PICK sent \in BOOLEAN :
        /\ Node!SendReply(sent)
        /\ \/ /\ sent /\ NoTrouble
              /\ reps' = IF client.waiting THEN Append(reps, AnswerTo(serving)) ELSE reps
           \/ Loss /\ UNCHANGED reps
  BY DEF Reply
<1>2. Node!Next
  BY <1>1 DEF Node!Next
<1>3. serving \in GoodRequest
  BY <1>1 DEF Node!SendReply, LineInv
<1>4. AnswerTo(serving) \in GoodAnswer
  BY <1>3, AnswerToTypes
<1>5. reps' \in Seq(GoodAnswer)
  <2>1. reps \in Seq(GoodAnswer)
    BY DEF LineInv
  <2> QED
    BY <1>1, <1>4, <2>1
<1>6. reqs' \in Seq(GoodRequest) /\ Len(reqs') <= MaxQueue
  <2>1. <<>> \in Seq(GoodRequest) /\ Len(<<>>) = 0 /\ MaxQueue \in Nat
    BY UpgradeAssumption
  <2> QED
    BY <2>1 DEF Reply, LineInv
<1>7. dev'.pc \notin {"reply", "verify"}
  BY <1>1 DEF Node!SendReply, Node!Off, Board!TypeOK, Board!Dev
<1>8. trouble' \in [lost : 0 .. MaxTrouble, other : 0 .. MaxTrouble]
  BY <1>1, TroubleTypes DEF LineInv
<1>9. GatewayInv' /\ serving' = NoRequest
  BY DEF Reply, gateway, GatewayInv
<1> QED
  BY <1>2, <1>5, <1>6, <1>7, <1>8, <1>9 DEF LineInv

\* By itself the node comes to no answer but that of the CRC check.
LEMMA NodeStepLeaves ==
  ASSUME Board!TypeOK, Node!EraseApp \/ OtherNodeStep \/ Node!PowerLoss
  PROVE  dev'.pc \in {"reply", "verify"} => dev.pc \in {"reply", "verify"} /\ ~ Fresh
<1>1. DOMAIN dev = {"at", "rec", "pc", "deferred", "status"}
        /\ dev = [f \in {"at", "rec", "pc", "deferred", "status"} |-> dev[f]]
  BY DEF Board!TypeOK, Board!Dev
<1>2. Node!Off.pc = "idle" /\ Node!Jump.pc = "idle"
        /\ \A p : [Node!Off EXCEPT !.rec = p].pc = "idle"
  BY DEF Node!Off, Node!Jump
<1>3. CASE Node!EraseApp
  <2> DEFINE idle == [dev EXCEPT !.pc = "idle"]
  <2>1. idle.pc = "idle" /\ \A p : [idle EXCEPT !.rec = p].pc = "idle"
    BY <1>1
  <2> HIDE DEF idle
  <2>2. dev' = Node!Off \/ dev' = idle \/ \E p : dev' = [idle EXCEPT !.rec = p]
    BY <1>3, Zenon DEF Node!EraseApp, Node!Append, idle
  <2> QED
    BY <1>2, <2>1, <2>2
<1>4. CASE Node!CheckCrc
  <2>1. /\ \A st : Node!Answer(st).at = "service"
        /\ \A st, p : Node!Recorded(p, st).at = "service"
    BY <1>1 DEF Node!Recorded, Node!Answer
  <2>2. dev' = Node!Off \/ dev'.at = "service"
    BY <1>4, <2>1 DEF Node!CheckCrc, Node!Append
  <2> QED
    BY <1>2, <1>4, <2>2 DEF Node!CheckCrc, Fresh
<1>5. CASE Node!Boot
  <2>1. ASSUME NEW d, d.pc = "idle", DOMAIN d = DOMAIN dev, Node!CountedStart(d)
        PROVE  dev'.pc = "idle"
    <3>1. \A p : [d EXCEPT !.rec = p].pc = "idle"
      BY <1>1, <2>1
    <3> QED
      BY <1>2, <2>1, <3>1 DEF Node!CountedStart, Node!Append
  <2>2. \A rec, at : LET d == [Node!Off EXCEPT !.rec = rec, !.at = at]
                     IN d.pc = "idle" /\ DOMAIN d = DOMAIN dev
    BY <1>1 DEF Node!Off
  <2>3. \A rec, at, new : [[Node!Off EXCEPT !.rec = rec, !.at = at]
                             EXCEPT !.at = new].pc = "idle"
    BY DEF Node!Off
  <2> DEFINE InLoop(ready) == [Node!Off EXCEPT !.rec = journal.latest,
                                               !.at = IF ready THEN "service" ELSE "dead"]
  <2>4. \E ready \in BOOLEAN :
          \/ Node!CountedStart(InLoop(ready))
          \/ dev' \in {InLoop(ready), [InLoop(ready) EXCEPT !.at = "window"], Node!Jump}
    BY <1>5 DEF Node!Boot
  <2>5. \A ready \in BOOLEAN :
          /\ InLoop(ready).pc = "idle" /\ DOMAIN InLoop(ready) = DOMAIN dev
          /\ [InLoop(ready) EXCEPT !.at = "window"].pc = "idle"
    BY <2>2, <2>3
  <2> HIDE DEF InLoop
  <2> QED
    BY <1>2, <2>1, <2>4, <2>5
<1>6. CASE Node!WindowExpires \/ Node!WatchdogReset \/ Node!PowerLoss
  BY <1>2, <1>6 DEF Node!WindowExpires, Node!WatchdogReset, Node!PowerLoss
<1>7. CASE Node!AppInit
  BY <1>1, <1>7 DEF Node!AppInit, Fresh
<1>8. CASE Node!Confirm
  <2>1. \A at : [dev EXCEPT !.at = at].pc = dev.pc
    BY <1>1
  <2> QED
    BY <1>2, <1>8, <2>1 DEF Node!Confirm, Node!Append
<1> QED
  BY <1>3, <1>4, <1>5, <1>6, <1>7, <1>8 DEF OtherNodeStep

\* The node goes on by itself, or is reset: what it had received may be gone.
LEMMA NodeStepTypes ==
  ASSUME Board!TypeOK, GatewayInv, LineInv, NodeStep \/ NodeReset
  PROVE  GatewayInv' /\ LineInv' /\ Node!Next
<1>1. /\ Node!EraseApp \/ OtherNodeStep \/ Node!PowerLoss
      /\ NoTrouble \/ Loss \/ Trouble
      /\ reqs' = reqs \/ reqs' = <<>>
      /\ serving' = serving \/ serving' = NoRequest
      /\ serving' = serving \/ Fresh \/ Node!PowerLoss
      /\ UNCHANGED <<gateway, reps>>
  BY DEF NodeStep, NodeReset
<1>2. Node!Next
  <2>1. CASE Node!EraseApp \/ OtherNodeStep
    BY <2>1 DEF OtherNodeStep, Node!Next, Node!Bootloader, Node!Application
  <2>2. CASE Node!PowerLoss
    BY <2>2 DEF Node!Next
  <2> QED
    BY <1>1, <2>1, <2>2
<1>3. dev'.pc \in {"reply", "verify"} => serving' # NoRequest
  <2>1. Node!PowerLoss => dev'.pc = "idle"
    BY DEF Node!PowerLoss, Node!Off
  <2> QED
    BY <1>1, <2>1, NodeStepLeaves DEF LineInv
<1>4. reqs' \in Seq(GoodRequest) /\ Len(reqs') <= MaxQueue
  <2>1. <<>> \in Seq(GoodRequest) /\ Len(<<>>) = 0 /\ MaxQueue \in Nat
    BY UpgradeAssumption
  <2>2. CASE reqs' = <<>>
    BY <2>1, <2>2
  <2>3. CASE reqs' = reqs
    BY <2>3 DEF LineInv
  <2> QED
    BY <1>1, <2>2, <2>3
<1>5. trouble' \in [lost : 0 .. MaxTrouble, other : 0 .. MaxTrouble]
  BY <1>1, TroubleTypes DEF LineInv
<1>6. GatewayInv'
  BY <1>1 DEF gateway, GatewayInv
<1> QED
  BY <1>1, <1>2, <1>3, <1>4, <1>5, <1>6 DEF LineInv

-----------------------------------------------------------------------------
\* The inductive invariant: the gateway, the line and the device together.
UpgradeInv == GatewayInv /\ LineInv /\ Board!TypeInv

\* A step keeps it, and is a step of the node, or none of its business.
LEMMA UpgradeStep ==
  ASSUME UpgradeInv, [Next]_vars
  PROVE  UpgradeInv' /\ [Node!Next]_node
<1>1. Board!TypeOK
  BY DEF UpgradeInv, Board!TypeInv
<1>2. GatewayInv' /\ LineInv' /\ [Node!Next]_node
  <2>1. CASE ClientRuns
    BY <2>1, TransmitTypes, AnsweredTypes, OtherGatewayTypes
    DEF UpgradeInv, ClientRuns, Transmit, Answered, TimedOut
  <2>2. CASE \/ StartTask \/ Probe \/ UserAborts \/ NewPackage \/ GatewayReboots
             \/ Deadline
    BY <2>2, OtherGatewayTypes
    DEF UpgradeInv, StartTask, Probe, UserAborts, NewPackage, GatewayReboots,
        Deadline
  <2>3. CASE NodeRuns \/ NodeReset
    BY <1>1, <2>3, ServeTypes, ReplyTypes, NodeStepTypes DEF UpgradeInv, NodeRuns
  <2>4. CASE UNCHANGED vars
    BY <2>4 DEF UpgradeInv, vars, gateway, line, node, GatewayInv, LineInv
  <2> QED
    BY <2>1, <2>2, <2>3, <2>4 DEF Next
<1>3. Board!TypeInv'
  BY <1>2, SameStep, Assumptions, Board!TypeStep DEF UpgradeInv
<1> QED
  BY <1>2, <1>3 DEF UpgradeInv

\* The invariant holds at the start.
LEMMA UpgradeInit == Init => UpgradeInv
<1> SUFFICES ASSUME Init PROVE UpgradeInv
  OBVIOUS
<1>1. Board!TypeInv
  BY SameInit, Assumptions, Board!TypeInit DEF Init
<1>2. GatewayInv
  <2>1. gw \in GoodTask /\ gw.pc = "idle"
    BY IdleTypes DEF Init
  <2>2. client = NoCall /\ NoCall \in GoodCall /\ ~ NoCall.waiting
          /\ NoCall.req = NoRequest
    BY UpgradeAssumption DEF Init, NoCall, GoodCall
  <2> QED
    BY <2>1, <2>2 DEF GatewayInv
<1>3. LineInv
  <2>1. <<>> \in Seq(GoodRequest) /\ Len(<<>>) = 0 /\ <<>> \in Seq(GoodAnswer)
    OBVIOUS
  <2>2. dev.pc = "idle"
    BY DEF Init, Node!Init, Node!Off
  <2> QED
    BY <2>1, <2>2, UpgradeAssumption DEF Init, LineInv
<1> QED
  BY <1>1, <1>2, <1>3 DEF UpgradeInv

\* The invariant holds throughout, for any number of packages, retries, losses and
\* resets, and any size of the flash.
THEOREM UpgradeInvariant == Spec => []UpgradeInv
<1>1. UpgradeInv /\ [Next]_vars => UpgradeInv'
  BY UpgradeStep
<1> QED
  BY <1>1, UpgradeInit, PTL DEF Spec

\* Every variable of the gateway and of the line has its type: no call outlives its
\* attempts, the ring of the node never holds more than it can.
THEOREM UpgradeTypeCorrect == Spec => []TypeOK
<1>1. UpgradeInv => TypeOK
  <2> SUFFICES ASSUME UpgradeInv PROVE TypeOK
    OBVIOUS
  <2>1. GoodRequest \subseteq Request
    BY DEF GoodRequest
  <2>2. gw \in Task /\ client \in [req : Request \cup {NoRequest}, left : 0 .. Retries,
                                   waiting : BOOLEAN, seq : 0 .. (SeqMod - 1)]
    BY <2>1 DEF UpgradeInv, GatewayInv, GoodTask, GoodCall
  <2>3. reqs \in Seq(Request) /\ serving \in Request \cup {NoRequest}
    BY <2>1 DEF UpgradeInv, LineInv
  <2>4. ASSUME NEW i \in DOMAIN reps
        PROVE  reps[i].to \in Request
    <3>1. reps \in Seq(GoodAnswer)
      BY DEF UpgradeInv, LineInv
    <3>2. reps[i] \in GoodAnswer
      BY <3>1
    <3> QED
      BY <2>1, <3>2 DEF GoodAnswer
  <2> QED
    BY <2>2, <2>3, <2>4 DEF UpgradeInv, LineInv, TypeOK, Task
<1> QED
  BY <1>1, UpgradeInvariant, PTL

\* The gateway asks of the node nothing but what Device allows anyone to ask, chunks
\* of more than MaxChunk or beyond the flash included; so everything Device
\* promises holds while an upgrade is under way.
THEOREM NodeIsDevice == Spec => NodeSpec
<1>1. Init => Node!Init
  BY DEF Init
<1>2. UpgradeInv /\ [Next]_vars => [Node!Next]_(Node!vars)
  BY UpgradeStep DEF node, Node!vars
<1> QED
  BY <1>1, <1>2, UpgradeInvariant, PTL DEF Spec, NodeSpec, Node!Spec

\* What is proved of Device alone, carried over.
LEMMA BoardIsSafe == Spec => [](Board!TypeInv /\ Board!SafetyInv /\ Board!ProgressInv)
<1>1. Init => Board!TypeInv /\ Board!SafetyInv /\ Board!ProgressInv
  BY SameInit, Assumptions, Board!TypeInit, Board!SafetyInit, Board!ProgressInit DEF Init
<1>2. UpgradeInv /\ (Board!TypeInv /\ Board!SafetyInv /\ Board!ProgressInv) /\ [Next]_vars
        => (Board!TypeInv /\ Board!SafetyInv /\ Board!ProgressInv)'
  BY UpgradeStep, SameStep, Assumptions, Board!TypeStep, Board!SafetyStep,
     Board!ProgressStep
<1> QED
  BY <1>1, <1>2, UpgradeInvariant, PTL DEF Spec

\* Whatever the gateway does and whatever is lost between the two, the node never
\* runs a flash that does not hold one whole image.
THEOREM UpgradesRunWholeImages == Spec => []Node!RunsWholeImage
<1>1. Board!SafetyInv => Node!RunsWholeImage
  BY DEF Board!SafetyInv, Board!Fits, Board!WholeImage, Board!Holds, Board!AppPlace,
         Node!RunsWholeImage, Node!InApp, Node!AppPlace, Node!Holds
<1> QED
  BY <1>1, BoardIsSafe, PTL

\* An image that waits to be confirmed, or is, is the one that was announced.
THEOREM UpgradesVerifyImages == Spec => []Node!PendingIsVerified
<1>1. Board!SafetyInv => Node!PendingIsVerified
  BY DEF Board!SafetyInv, Board!JournalSafe, Board!PendingIsVerified, Board!Holds,
         Node!PendingIsVerified, Node!Holds
<1> QED
  BY <1>1, BoardIsSafe, PTL
=============================================================================
