------------------------------ MODULE Upgrade -------------------------------
(***************************************************************************)
(* The gateway's upgrade task (upgrade_manager.c) talking through its      *)
(* request client (upgrade_client.c) and the UART (transport_uart.c) to    *)
(* the node, which is Device.  Requests and answers may be lost or late,   *)
(* the node may be reset and the gateway rebooted at any moment, the user  *)
(* may abort, probe, and start again.                                      *)
(*                                                                         *)
(* One call of the client is under way at a time; gw.pc names the place of *)
(* the task that made it.  What happens between an answer and the next     *)
(* request is one step: nobody else sees the task's variables meanwhile.   *)
(***************************************************************************)
EXTENDS Integers, Sequences

CONSTANTS
  Capacity, Image, Size, Version, Factory, Manifest, Session, Units, SectorUnits,
  MaxChunk, Checkpoint, Overhead, MaxAttempts, MaxFaults, Erased, Partial,
  Package,               \* manifests of the packages the store may hold
  Retries,               \* GATEWAY_MAX_RETRY_COUNT, 5
  SeqMod,                \* sequence numbers, 2^32
  MaxQueue,              \* requests the node's ring can hold
  MaxTrouble             \* bound: things that go wrong between the two

VARIABLES
  journal, flash, dev, faults, starts,    \* the node
  gw,                    \* the upgrade task and the store's package
  client,                \* the call under way, next_sequence
  reqs,                  \* requests in the node's ring
  serving,               \* the request the node is answering
  reps,                  \* answers in the gateway's UART since it last sent
  trouble                \* what went wrong so far

Node == INSTANCE Device

node == <<journal, flash, dev, faults, starts>>
gateway == <<gw, client>>
line == <<reqs, serving, reps>>
vars == <<node, gateway, line, trouble>>

ASSUME UpgradeAssumption ==
  /\ Node!CapacityAssumption /\ Node!DeviceAssumption
  /\ Package \subseteq Manifest
  /\ Retries \in Nat \ {0} /\ MaxQueue \in Nat \ {0}
  /\ SeqMod \in Nat /\ SeqMod >= 2
  /\ MaxTrouble \in Nat

-----------------------------------------------------------------------------
\* The places of the task and the request each of them makes.
Kind ==
  [find |-> "HELLO", enter |-> "ENTER_BOOT", info |-> "GET_INFO",
   query |-> "QUERY", start |-> "START", check |-> "QUERY", erase |-> "ERASE",
   poll |-> "QUERY", transfer |-> "DATA", verify |-> "VERIFY",
   verified |-> "QUERY", activate |-> "ACTIVATE", wait |-> "HELLO",
   waitapp |-> "GET_INFO", waitboot |-> "GET_INFO", waitquery |-> "QUERY",
   abort |-> "ABORT", probe |-> "HELLO", probeinfo |-> "GET_INFO"]

Place == DOMAIN Kind

\* The places that try once only: a loop around the call repeats it, or nobody.
Attempts(place) ==
  IF place \in {"find", "poll", "wait", "activate"} THEN 1 ELSE Retries

\* The places the loops with a deadline come round to.
LoopPlace == {"find", "poll", "wait"}

WithSession == {"ENTER_BOOT", "START", "ERASE", "DATA", "VERIFY", "ACTIVATE", "ABORT"}

NoPackage == Node!NoManifest

Request ==
  [kind : {Kind[p] : p \in Place}, seq : 0 .. (SeqMod - 1),
   session : Session \cup {0}, package : Package \cup {NoPackage}, offset : 0 .. Units]

NoRequest == [kind |-> "NONE"]

NoCall == [req |-> NoRequest, left |-> 0, waiting |-> FALSE, seq |-> 0]

Idle(package, result) ==
  [pc |-> "idle", package |-> package, session |-> 0, offset |-> 0,
   entered |-> FALSE, mayBeBusy |-> FALSE, aborted |-> FALSE, result |-> result]

Init ==
  /\ Node!Init
  /\ \E p \in Package : gw = Idle(p, "NONE")
  /\ client = NoCall
  /\ reqs = <<>> /\ serving = NoRequest /\ reps = <<>>
  /\ trouble = [lost |-> 0, other |-> 0]

\* A frame is lost, or something else goes wrong.
Goes(kind) ==
  /\ trouble.lost + trouble.other < MaxTrouble
  /\ trouble' = [trouble EXCEPT ![kind] = @ + 1]

Loss == Goes("lost")

Trouble == Goes("other")

NoTrouble == UNCHANGED trouble

-----------------------------------------------------------------------------
\* The task: what it does with an answer.  Each operator gives the task's state
\* at its next call, or at its end.

GoTo(g, place) == [g EXCEPT !.pc = place]

\* The end of upgrade_manager_task: an aborted session is given up on the node.
Failed(g) ==
  IF g.aborted /\ g.session # 0 /\ g.pc # "abort" THEN GoTo(g, "abort")
  ELSE Idle(g.package, "FAILED")

Succeeded(g) == Idle(g.package, "SUCCESS")

\* The loops look at s_abort_requested before every call.
Loop(g, place) == IF g.aborted THEN Failed(g) ELSE GoTo(g, place)

\* upgrade_manager_find_bootloader
Found(g, r) ==
  IF r.status # "OK" THEN Loop(g, "find")
  ELSE IF ~ r.app THEN GoTo([g EXCEPT !.entered = FALSE], "info")
  ELSE IF g.entered THEN Loop(g, "find") ELSE GoTo(g, "enter")

Entered(g, r) ==
  IF r.status = "OK" THEN Loop([g EXCEPT !.entered = TRUE], "find") ELSE Failed(g)

ImageSize(g) == Size[g.package.image]

\* Mutant: a session that is under way is not taken up.
MutQueried(g, r, s) ==
  IF r.status \notin {"OK", "BUSY"} THEN Failed(g)
  ELSE GoTo([g EXCEPT !.session = s], "start")

\* A session under way on the node is taken up, if the size of its image is that
\* of the package; otherwise a new one is begun.
Queried(g, r, s) ==
  LET resume == r.state \in Node!ActiveStates /\ r.session # 0
  IN IF r.status \notin {"OK", "BUSY"} \/ (resume /\ r.size # ImageSize(g))
     THEN Failed(g)
     ELSE GoTo([g EXCEPT !.session = IF resume THEN r.session ELSE s,
                         !.mayBeBusy = resume /\ r.state \in {"ERASING", "VERIFYING"}],
               "start")

Started(g, r) ==
  IF r.status = "OK" \/ (r.status = "BUSY" /\ g.mayBeBusy)
  THEN GoTo([g EXCEPT !.mayBeBusy = FALSE], "check") ELSE Failed(g)

Checked(g, r) ==
  IF \/ r.status \notin {"OK", "BUSY"}
     \/ r.session # g.session \/ r.size # ImageSize(g) THEN Failed(g)
  ELSE GoTo(g, CASE r.state = "PENDING_BOOT" -> "activate"
                 [] r.state = "VERIFYING" -> "verify"
                 [] OTHER -> "erase")

ErasingAccepted(g, r) ==
  IF r.status \in {"OK", "BUSY"} THEN Loop(g, "poll") ELSE Failed(g)

\* upgrade_manager_transfer: the next chunk, or the end of the loop.
TransferFrom(g, offset) ==
  IF offset < ImageSize(g) THEN Loop([g EXCEPT !.offset = offset], "transfer")
  ELSE GoTo([g EXCEPT !.offset = offset], "verify")

\* upgrade_manager_poll_erase
Polled(g, r) ==
  IF r.status \notin {"OK", "BUSY"} \/ r.state = "FAILED" THEN Failed(g)
  ELSE IF r.state # "RECEIVING" THEN Loop(g, "poll")
  ELSE IF r.size # ImageSize(g) \/ r.next > ImageSize(g) THEN Failed(g)
  ELSE TransferFrom(g, r.next)

\* Mutant: a chunk ends at the checkpoint only, however long that makes it.
MutChunkEnd(offset, size) ==
  LET next == (offset \div Checkpoint + 1) * Checkpoint
  IN IF next < size THEN next ELSE size

\* upgrade_manager_next_chunk_end
ChunkEnd(offset, size) ==
  CHOOSE end \in {offset + MaxChunk, (offset \div Checkpoint + 1) * Checkpoint, size} :
    \A e \in {offset + MaxChunk, (offset \div Checkpoint + 1) * Checkpoint, size} :
      end <= e

\* Mutant: the node's offset is not followed back.
MutTransferred(g, r) ==
  IF \/ r.next > ImageSize(g)
     \/ r.status = "OK" /\ r.next <= g.offset
     \/ r.status \notin {"OK", "BAD_OFFSET"}
  THEN Failed(g) ELSE TransferFrom(g, ChunkEnd(g.offset, ImageSize(g)))

\* The node's offset decides, forward or back.
Transferred(g, r) ==
  IF \/ r.next > ImageSize(g)
     \/ r.status = "OK" /\ r.next <= g.offset
     \/ r.status = "BAD_OFFSET" /\ r.next = g.offset
     \/ r.status \notin {"OK", "BAD_OFFSET"}
  THEN Failed(g) ELSE TransferFrom(g, r.next)

VerifyAnswered(g, r) ==
  IF r.status \in {"OK", "BUSY"} THEN GoTo(g, "verified") ELSE Failed(g)

Verified(g, r) ==
  IF r.status \in {"OK", "BUSY"} /\ r.state = "PENDING_BOOT"
  THEN GoTo(g, "activate") ELSE Failed(g)

Activated(g, r) == IF r.status = "OK" THEN Loop(g, "wait") ELSE Failed(g)

\* upgrade_manager_wait_for_application: HELLO tells which program answers.
Answering(g, r) ==
  IF r.status # "OK" THEN Loop(g, "wait")
  ELSE GoTo(g, IF r.app THEN "waitapp" ELSE "waitboot")

\* Mutant: an application that waits to be confirmed is good enough.
MutSeenApp(g, r) ==
  IF r.status # "OK" THEN Loop(g, "wait")
  ELSE IF r.version = g.package.version /\ r.state \in {"CONFIRMED", "PENDING_BOOT"}
       THEN Succeeded(g) ELSE Failed(g)

SeenApp(g, r) ==
  IF r.status # "OK" THEN Loop(g, "wait")
  ELSE IF r.version # g.package.version THEN Failed(g)
  ELSE IF r.state = "CONFIRMED" THEN Succeeded(g)
  ELSE IF r.state = "PENDING_BOOT" THEN Loop(g, "wait") ELSE Failed(g)

SeenBoot(g, r) ==
  IF r.status # "OK" THEN Loop(g, "wait")
  ELSE IF r.version # g.package.version THEN Failed(g)
  ELSE IF r.state = "FAILED" THEN GoTo(g, "waitquery") ELSE Loop(g, "wait")

\* s is the session number drawn if one is needed.
OnAnswer(g, r, s) ==
  CASE g.pc = "find"      -> Found(g, r)
    [] g.pc = "enter"     -> Entered(g, r)
    [] g.pc = "info"      -> IF r.status = "OK" THEN GoTo(g, "query") ELSE Failed(g)
    [] g.pc = "query"     -> Queried(g, r, s)
    [] g.pc = "start"     -> Started(g, r)
    [] g.pc = "check"     -> Checked(g, r)
    [] g.pc = "erase"     -> ErasingAccepted(g, r)
    [] g.pc = "poll"      -> Polled(g, r)
    [] g.pc = "transfer"  -> Transferred(g, r)
    [] g.pc = "verify"    -> VerifyAnswered(g, r)
    [] g.pc = "verified"  -> Verified(g, r)
    [] g.pc = "activate"  -> Activated(g, r)
    [] g.pc = "wait"      -> Answering(g, r)
    [] g.pc = "waitapp"   -> SeenApp(g, r)
    [] g.pc = "waitboot"  -> SeenBoot(g, r)
    [] g.pc = "waitquery" -> Failed(g)
    [] g.pc = "abort"     -> Failed(g)
    [] g.pc = "probe"     -> IF r.status = "OK" THEN GoTo(g, "probeinfo")
                             ELSE Idle(g.package, g.result)
    [] g.pc = "probeinfo" -> Idle(g.package, g.result)

\* Mutant: an ACTIVATE that was not answered has failed.
MutOnFailure(g, error) ==
  CASE g.pc \in {"find", "wait"}              -> Loop(g, g.pc)
    [] g.pc \in {"waitapp", "waitboot"}       -> Loop(g, "wait")
    [] g.pc = "poll" /\ error = "TIMEOUT"     -> Loop(g, "poll")
    [] g.pc = "verify" /\ error = "TIMEOUT"   -> GoTo(g, "verified")
    [] g.pc \in {"probe", "probeinfo"}        -> Idle(g.package, g.result)
    [] OTHER                                  -> Failed(g)

\* All attempts of the call failed; `error' is what the last one ended with.
OnFailure(g, error) ==
  CASE g.pc \in {"find", "wait"}              -> Loop(g, g.pc)
    [] g.pc \in {"waitapp", "waitboot"}       -> Loop(g, "wait")
    [] g.pc = "activate"                      -> Loop(g, "wait")
    [] g.pc = "poll" /\ error = "TIMEOUT"     -> Loop(g, "poll")
    [] g.pc = "verify" /\ error = "TIMEOUT"   -> GoTo(g, "verified")
    [] g.pc \in {"probe", "probeinfo"}        -> Idle(g.package, g.result)
    [] OTHER                                  -> Failed(g)

-----------------------------------------------------------------------------
\* The client.

RequestOf(g, seq, s) ==
  LET kind == Kind[g.pc] IN
  [kind |-> kind, seq |-> seq,
   session |-> IF kind = "ENTER_BOOT" THEN s
               ELSE IF kind \in WithSession THEN g.session ELSE 0,
   package |-> IF kind \in {"START", "DATA"} THEN g.package ELSE NoPackage,
   offset |-> IF kind = "DATA" THEN g.offset ELSE 0]

\* upgrade_client_transact, up to its loop.
Call(g, seq, s) ==
  /\ gw' = g
  /\ client' = IF g.pc = "idle" THEN NoCall
               ELSE [req |-> RequestOf(g, seq, s), left |-> Attempts(g.pc),
                     waiting |-> FALSE, seq |-> seq]

\* A number the journal does not hold: the real one is drawn from 2^32.
NewSession == {s \in Session : journal.latest = Node!NoRecord
                                 \/ journal.latest.session # s}

\* No answer can come any more, or the node is erasing for longer than the gateway
\* waits; otherwise it is an answer that comes too late.
NothingComes == (reqs = <<>> /\ serving = NoRequest) \/ dev.pc = "erase"

\* transport_uart_exchange: what is left in the receive buffer is flushed, the
\* request is sent.  A node that is not listening does not get it; while one is
\* stalled by an erase, at most the request that comes at its end is received.
Listening == dev.at \in {"window", "service", "running", "waiting"}

Reaches ==
  /\ Listening /\ Len(reqs) < (IF dev.pc = "erase" THEN 1 ELSE MaxQueue)
  /\ reqs' = Append(reqs, client.req)
  /\ NoTrouble

GetsLost ==
  /\ UNCHANGED reqs
  /\ IF Listening /\ Len(reqs) < MaxQueue /\ dev.pc # "erase" THEN Loss ELSE NoTrouble

\* The loops pause before each request, long enough for a node that can answer
\* the earlier ones to have done so.
Transmit ==
  /\ client.req # NoRequest /\ ~ client.waiting
  /\ gw.pc \in LoopPlace => NothingComes
  /\ client' = [client EXCEPT !.left = @ - 1, !.waiting = TRUE]
  /\ reps' = <<>>
  /\ Reaches \/ GetsLost
  /\ UNCHANGED <<node, gw, serving>>

\* Mutant: the sequence number is not compared.
MutFits(r, q) == r.to.kind = q.kind

Fits(r, q) == r.to.kind = q.kind /\ r.to.seq = q.seq

\* Mutant: one attempt too many is made.
MutAttemptFails(error) ==
  IF client.left >= 0
  THEN client' = [client EXCEPT !.waiting = FALSE] /\ UNCHANGED gw
  ELSE \E s \in NewSession : Call(OnFailure(gw, error), client.seq, s)

\* One attempt failed: the next one repeats the request, to the last.
AttemptFails(error) ==
  IF client.left > 0
  THEN client' = [client EXCEPT !.waiting = FALSE] /\ UNCHANGED gw
  ELSE \E s \in NewSession : Call(OnFailure(gw, error), client.seq, s)

\* The application answers BUSY, without a payload, where the client wants one.
Decodes(r) == ~ (r.app /\ r.to.kind \in {"QUERY", "DATA"})

\* The line falls silent after an answer.  Two that came one right after the
\* other are read as one frame, which does not decode.  Only an answer that fits
\* moves the sequence number on.
Answered ==
  /\ client.waiting /\ reps # <<>>
  /\ reps' = <<>>
  /\ IF Len(reps) = 1 /\ Fits(Head(reps), client.req)
     THEN \E s \in NewSession :
            Call(IF Decodes(Head(reps)) THEN OnAnswer(gw, Head(reps), s)
                 ELSE OnFailure(gw, "INVALID_RESPONSE"),
                 (client.seq + 1) % SeqMod, s)
     ELSE AttemptFails("INVALID_RESPONSE")
  /\ UNCHANGED <<node, reqs, serving, trouble>>

\* HELLO waits for 100 ms, the other requests for 1 s: longer than a reset takes.
Resetting == dev.at \in {"off", "entry"} /\ gw.pc \notin {"find", "wait"}

TimedOut ==
  /\ client.waiting /\ reps = <<>>
  /\ IF NothingComes /\ ~ Resetting THEN NoTrouble ELSE Trouble
  /\ AttemptFails("TIMEOUT")
  /\ UNCHANGED <<node, line>>

-----------------------------------------------------------------------------
\* The console and the deadlines of the loops.  Commands are typed, and a reboot
\* takes a second: a node that is not busy with its flash has answered by then.

\* The package of the gateway runs, confirmed.
Installed ==
  journal.latest.state = "CONFIRMED" /\ journal.latest.manifest = gw.package

\* upgrade_manager_start: a new client, whose sequence numbers begin at 0.
StartTask ==
  /\ gw.pc = "idle" /\ NothingComes
  /\ IF gw.result = "SUCCESS" /\ Installed THEN Trouble ELSE NoTrouble
  /\ \E s \in NewSession : Call([gw EXCEPT !.pc = "find", !.result = "NONE"], 0, s)
  /\ UNCHANGED <<node, line>>

\* upgrade_manager_probe
Probe ==
  /\ gw.pc = "idle" /\ NothingComes
  /\ Trouble
  /\ \E s \in NewSession : Call(GoTo(gw, "probe"), 0, s)
  /\ UNCHANGED <<node, line>>

\* upgrade_manager_abort
UserAborts ==
  /\ gw.pc \notin {"idle", "probe", "probeinfo"} /\ ~ gw.aborted
  /\ Trouble
  /\ gw' = [gw EXCEPT !.aborted = TRUE]
  /\ UNCHANGED <<node, client, line>>

\* Another package is downloaded, which is not done during an upgrade.
NewPackage ==
  /\ gw.pc = "idle"
  /\ Trouble
  /\ \E p \in Package : p # gw.package /\ gw' = [gw EXCEPT !.package = p]
  /\ UNCHANGED <<node, client, line>>

\* The task and the client are in RAM, the package is in the flash.
GatewayReboots ==
  /\ gw.pc # "idle"
  /\ Trouble
  /\ gw' = Idle(gw.package, "NONE") /\ client' = NoCall /\ reps' = <<>>
  /\ UNCHANGED <<node, reqs, serving>>

\* What the loop waits for cannot happen any more without a further call.
Hopeless ==
  /\ dev.at \in {"service", "dead", "running"} /\ dev.pc \in {"idle", "reply"}
  /\ dev.deferred = "none"
  /\ \A i \in DOMAIN reqs : reqs[i].kind \notin WithSession
  /\ CASE gw.pc = "find" -> dev.at = "dead" \/ (dev.at = "running" /\ gw.entered)
       [] gw.pc = "poll" -> dev.at # "service" \/ dev.rec.state # "RECEIVING"
       [] gw.pc = "wait" -> dev.at # "running"
       [] OTHER          -> FALSE

\* Mutant: the wait for the application has no end.
MutLate == gw.pc \in {"find", "poll"} /\ ~ client.waiting

\* A loop gives up when it comes round after its time: 10 s for the bootloader,
\* 60 s for the erase, 45 s for the application.
Late == gw.pc \in LoopPlace /\ ~ client.waiting

Deadline ==
  /\ Late
  /\ IF Hopeless THEN NoTrouble ELSE Trouble
  /\ \E s \in NewSession : Call(Failed(gw), client.seq, s)
  /\ UNCHANGED <<node, line>>

-----------------------------------------------------------------------------
\* The node.

\* Handlers of the bootloader and of the application for one request.
Handle(q) ==
  CASE dev.at \in {"window", "service"} ->
         (CASE q.kind \in {"HELLO", "GET_INFO", "ENTER_BOOT"} ->
                 Node!ReadOnlyRequest /\ dev'.status = "OK"
            [] q.kind = "QUERY" ->
                 Node!ReadOnlyRequest
                   /\ dev'.status = IF dev.rec.state = "ERASING" THEN "BUSY" ELSE "OK"
            [] q.kind = "START"    -> Node!Start(q.session, q.package)
            [] q.kind = "ERASE"    -> Node!Erase(q.session)
            [] q.kind = "DATA"     ->
                 Node!Data(q.session, q.offset,
                           ChunkEnd(q.offset, Size[q.package.image]) - q.offset,
                           q.package.image)
            [] q.kind = "VERIFY"   -> Node!Verify(q.session)
            [] q.kind = "ACTIVATE" -> Node!Activate(q.session)
            [] q.kind = "ABORT"    -> Node!Abort(q.session))
    [] dev.at \in {"running", "waiting"} ->
         IF q.kind = "ENTER_BOOT" THEN Node!AppEnterBoot(q.session)
         ELSE Node!AppReadOnlyRequest
                /\ dev'.status = IF q.kind \in {"HELLO", "GET_INFO"} THEN "OK" ELSE "BUSY"

\* A reset, and a jump to the application, empty the ring.
Fresh == dev'.at \in {"off", "entry"}

Serve ==
  /\ reqs # <<>> /\ Listening /\ dev.pc = "idle"
  /\ Handle(Head(reqs))
  /\ reqs' = (IF Fresh THEN <<>> ELSE Tail(reqs))
  /\ serving' = (IF Fresh THEN NoRequest ELSE Head(reqs))
  /\ UNCHANGED <<gateway, reps, trouble>>

\* What the manager reads of an answer.  The application reports the state of the
\* journal and the version it was compiled with, the bootloader its record.
AnswerTo(q) ==
  LET rec == IF Node!InApp THEN journal.latest ELSE dev.rec
      none == rec = Node!NoRecord
  IN [to |-> q, status |-> dev.status, app |-> Node!InApp,
      state |-> IF none THEN "EMPTY" ELSE rec.state,
      session |-> IF none THEN 0 ELSE rec.session,
      next |-> IF none THEN 0 ELSE rec.received,
      size |-> IF none THEN 0 ELSE Node!SizeOf(rec.manifest),
      version |-> IF Node!InApp THEN Node!RunningVersion
                  ELSE IF none THEN 0 ELSE rec.manifest.version]

\* The answer leaves, and reaches the gateway or not; or it cannot be sent.  One
\* that nobody waits for is flushed by the next exchange.
Reply ==
  /\ \E sent \in BOOLEAN :
       /\ Node!SendReply(sent)
       /\ \/ /\ sent /\ NoTrouble
             /\ reps' = IF client.waiting THEN Append(reps, AnswerTo(serving)) ELSE reps
          \/ Loss /\ UNCHANGED reps
  /\ serving' = NoRequest
  /\ reqs' = (IF Fresh THEN <<>> ELSE reqs)
  /\ UNCHANGED gateway

OtherNodeStep ==
  \/ Node!CheckCrc \/ Node!WindowExpires
  \/ Node!Boot /\ dev'.at # "dead"
  \/ Node!AppInit /\ (dev'.at = "blocked" => journal.latest.state = "PENDING_BOOT"
                                               /\ ~ Node!Compatible(journal.latest))
  \/ Node!Confirm
  \/ dev.at = "blocked" /\ Node!WatchdogReset

\* What the node does by itself.  Its UART works after every reset; an erase that
\* fails is trouble.
NodeStep ==
  /\ \/ Node!EraseApp /\ IF dev'.rec.state = "FAILED" THEN Trouble ELSE NoTrouble
     \/ OtherNodeStep /\ NoTrouble
  /\ reqs' = (IF Fresh THEN <<>> ELSE reqs)
  /\ serving' = (IF Fresh THEN NoRequest ELSE serving)
  /\ UNCHANGED <<gateway, reps>>

NodeReset ==
  /\ Node!PowerLoss
  /\ Trouble
  /\ reqs' = <<>> /\ serving' = NoRequest
  /\ UNCHANGED <<gateway, reps>>

-----------------------------------------------------------------------------
ClientRuns == Transmit \/ Answered \/ TimedOut

NodeRuns == Serve \/ Reply \/ NodeStep

Next ==
  \/ ClientRuns \/ NodeRuns \/ NodeReset
  \/ StartTask \/ Probe \/ UserAborts \/ NewPackage \/ GatewayReboots \/ Deadline

Spec == Init /\ [][Next]_vars

\* Both programs run without trouble being owed to them; an application whose main
\* loop is alive comes to confirm its image; a loop that comes round again and
\* again reaches its deadline; and the user tries again after a failure.
Fairness ==
  /\ WF_vars(ClientRuns /\ NoTrouble) /\ WF_vars(NodeRuns /\ NoTrouble)
  /\ SF_vars(Node!Confirm /\ NodeStep)
  /\ SF_vars(Deadline /\ NoTrouble)
  /\ WF_vars(StartTask /\ NoTrouble)

FairSpec == Spec /\ Fairness

-----------------------------------------------------------------------------
\* The two ends agree on the protocol: every request the gateway makes, in every
\* state it can be in when it makes it, is one the node's handlers are specified
\* for (a chunk of 1 to MaxChunk units within the flash, a session and a manifest
\* of the sets Device knows), so what is shown of Device holds during an upgrade
\* (upgrade_manager.c:321-336 and upgrade_client.c against boot_upgrade.c).
NodeSpec == Node!Spec

\* Every variable of the gateway and of the line has its type.
TypeOK ==
  /\ gw \in [pc : Place \cup {"idle"}, package : Package, session : Session \cup {0},
             offset : 0 .. Units, entered : BOOLEAN, mayBeBusy : BOOLEAN,
             aborted : BOOLEAN, result : {"NONE", "SUCCESS", "FAILED"}]
  /\ client \in [req : Request \cup {NoRequest}, left : 0 .. Retries,
                 waiting : BOOLEAN, seq : 0 .. (SeqMod - 1)]
  /\ reqs \in Seq(Request) /\ Len(reqs) <= MaxQueue
  /\ serving \in Request \cup {NoRequest}
  /\ \A i \in DOMAIN reps : reps[i].to \in Request
  /\ trouble \in [lost : 0 .. MaxTrouble, other : 0 .. MaxTrouble]

\* The answer a call accepts was given to its own request: not to an earlier
\* attempt at something else, though a failed call does not move the sequence
\* number on and `upgrade start' resets it (upgrade_client.c:124-162).
AnswersMatch ==
  client.waiting /\ Len(reps) = 1 /\ Fits(Head(reps), client.req)
    => Head(reps).to = client.req

\* SUCCESS is reported of whatever application answers with the right version and
\* state (upgrade_manager.c:160-260); it is only reported when the package is in
\* the flash, and confirmed (docs/m7_reliability_verification.md, requirement 1).
SuccessIsConfirmed ==
  [][gw.result # "SUCCESS" /\ gw'.result = "SUCCESS" =>
       Installed /\ Node!Holds(gw.package.image)]_vars

\* What the manager counts as transferred is in the flash and stays there while
\* it goes on: a repeated or late ERASE, a lost acknowledgement, a reset of the
\* node do not take it back (upgrade_manager.c:293-319 and 338-477).
TransferredIsInFlash ==
  gw.pc \in {"transfer", "verify", "verified", "activate"} =>
    \A u \in 0 .. (gw.offset - 1) : flash[u] = gw.package.image

\* Fewer losses than the client makes attempts do not fail an upgrade: above all
\* not that of the answer to ACTIVATE, which is sent once (upgrade_manager.c:685).
\* Two frames cannot be spared: the answer to ERASE, if the erase outlasts the
\* attempts, and ACTIVATE itself, without which the node stays where it is.
FewLossesAreSurvived ==
  [][gw.result # "FAILED" /\ gw'.result = "FAILED"
       /\ trouble'.other = 0 /\ trouble'.lost < Retries
     => \/ gw.pc = "erase"
        \/ gw.pc = "wait" /\ dev.at = "service" /\ dev.rec.state = "PENDING_BOOT"]_vars

\* Every task comes to an end, whatever was lost on the way: one that did not
\* would keep the place away from "idle" (the deadlines of the loops in
\* upgrade_manager.c:107, 170 and 299).
TaskEnds == []<>(gw.pc = "idle")

\* The node is in a session for another package than the gateway's.
OtherSession ==
  journal.latest.state \in Node!ActiveStates /\ journal.latest.manifest # gw.package

\* An upgrade that is started again after every failure succeeds, once nothing
\* goes wrong any more, and whatever did go wrong (docs/m7_reliability_
\* verification.md, requirement 5); except that nobody ends a session for a
\* package the gateway no longer has.
RestartRepairs == []<>((gw.result = "SUCCESS" /\ Installed) \/ OtherSession)
=============================================================================
