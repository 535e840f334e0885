----------------------- MODULE UpgradeAnswers_proofs ------------------------
(***************************************************************************)
(* Why the answer a call of the gateway accepts is the answer to its own   *)
(* request, however many attempts were made, lost or left behind in the    *)
(* node's ring, and though sequence numbers come round and a failed call   *)
(* does not move them on.                                                  *)
(*                                                                         *)
(* The requests the node still has are a queue.  An answer that fits tells *)
(* that everything sent before it is gone, and what is left is the request *)
(* itself, again: so the next sequence number, two of them being enough,   *)
(* is new to the queue.  What remains are the calls that follow a failure, *)
(* with the same number, and a task that starts while the node erases and  *)
(* an earlier task's requests wait in its ring.                            *)
(***************************************************************************)
EXTENDS Upgrade_proofs

-----------------------------------------------------------------------------
\* The requests the node has, the one it is answering first.
Flight == (IF serving = NoRequest THEN <<>> ELSE <<serving>>) \o reqs

\* It erases, or will when its answer has left.
Erasing == dev.deferred = "erase" \/ dev.pc = "erase"

\* It erases, or may yet.
MayErase == Erasing \/ \E i \in DOMAIN Flight : Flight[i].kind = "ERASE"

\* A request that carries nothing but its number.
Bare(kind, seq) ==
  [kind |-> kind, seq |-> seq, session |-> 0, package |-> NoPackage, offset |-> 0]

BareKind == {"HELLO", "GET_INFO", "QUERY"}

\* An answer to q would be taken for one to the request under way.
Resembles(q) == q.kind = client.req.kind /\ q.seq = client.req.seq

\* The node is answering a request exactly while it has taken one, only ERASE
\* makes it erase, and after a reset it has none.
ServingInv ==
  /\ dev.pc \in {"idle", "erase"} => serving = NoRequest
  /\ dev.deferred = "erase" => serving.kind = "ERASE"
  /\ dev.at \in {"off", "entry"} => serving = NoRequest /\ reqs = <<>>

\* The call under way is the one its place makes; a bare one says nothing else.
\* A task without a session has none to abort.
CallInv ==
  /\ client.req # NoRequest =>
       /\ client.req.kind = Kind[gw.pc] /\ client.req.seq = client.seq
       /\ client.req.kind \in BareKind => client.req = Bare(client.req.kind, client.seq)
  /\ gw.pc \in Sessionless => gw.session = 0
  /\ gw.pc = "probe" => client.seq = 0
  /\ ~ client.waiting => reps = <<>>

\* The queue is in order: what comes after a request like the one under way is
\* that request again.
QueueInv ==
  client.req # NoRequest =>
    /\ \A i \in DOMAIN Flight : Resembles(Flight[i]) => Flight[i] = client.req
    /\ \A i, j \in DOMAIN Flight :
         i < j /\ Resembles(Flight[i]) => Flight[j] = client.req

\* An answer that fits was given to the request under way; nothing else is left
\* with the node then, nor does it erase, unless that was asked.
AnswerInv ==
  client.req # NoRequest =>
    \A i \in DOMAIN reps :
      Resembles(reps[i].to) =>
        /\ reps[i].to = client.req
        /\ \A j \in DOMAIN Flight : Flight[j] = client.req
        /\ client.req.kind # "ERASE" => ~ MayErase

\* The places a failed call leads to, or where the queue may hold what an earlier
\* task left.  Elsewhere the number is that of the call under way only.
Reused == {"find", "wait", "verified", "abort", "probe", "idle"}

NumberInv ==
  /\ gw.pc \notin Reused =>
       \A i \in DOMAIN Flight : Flight[i].seq = client.seq => Flight[i] = client.req
  /\ gw.pc \in {"wait", "verified"} =>
       \A i \in DOMAIN Flight : Flight[i].seq = client.seq => Flight[i].kind # "ABORT"

\* While the node may erase, a task can come to an end and another one start: its
\* HELLOs are the first with number 0 and the last in the queue.
EraseInv ==
  /\ \A i \in DOMAIN Flight :
       Flight[i].kind = "HELLO" => Flight[i] = Bare("HELLO", Flight[i].seq)
  /\ gw.pc = "erase" => \A i \in DOMAIN Flight : Flight[i].kind # "HELLO"
  /\ MayErase =>
       /\ gw.pc \in {"idle", "find", "probe", "abort", "erase", "poll"}
       /\ gw.pc \in {"abort", "poll"} => \A i \in DOMAIN Flight : Flight[i].kind # "HELLO"
       /\ gw.pc = "find" => client.seq = 0
       /\ \A i \in DOMAIN Flight : Flight[i].kind = "HELLO" => Flight[i].seq = 0
       /\ \A i, j \in DOMAIN Flight :
            i < j /\ Flight[i].kind = "HELLO" => Flight[j] = Flight[i]

AnswersInv ==
  ServingInv /\ CallInv /\ QueueInv /\ AnswerInv /\ NumberInv /\ EraseInv

-----------------------------------------------------------------------------
\* The queue as a sequence.

\* A queue of requests that begins with the one being answered.
LEMMA FlightIs ==
  ASSUME LineInv
  PROVE  /\ Flight \in Seq(GoodRequest)
         /\ serving = NoRequest => Flight = reqs
         /\ serving # NoRequest =>
              Flight # <<>> /\ Flight[1] = serving /\ Tail(Flight) = reqs
<1>1. reqs \in Seq(GoodRequest) /\ serving \in GoodRequest \cup {NoRequest}
  BY DEF LineInv
<1>2. CASE serving = NoRequest
  BY <1>1, <1>2 DEF Flight
<1>3. CASE serving # NoRequest
  <2>1. Flight = <<serving>> \o reqs /\ <<serving>> \in Seq(GoodRequest)
    BY <1>1, <1>3 DEF Flight
  <2>2. Len(Flight) = Len(reqs) + 1 /\ Flight[1] = serving
          /\ \A i \in 1 .. Len(reqs) : Flight[i + 1] = reqs[i]
    BY <1>1, <2>1
  <2>3. Tail(Flight) = reqs
    BY <1>1, <2>1, <2>2
  <2>4. Flight \in Seq(GoodRequest)
    <3>1. <<serving>> \o reqs \in Seq(GoodRequest)
      BY <1>1, <1>3
    <3> QED
      BY <2>1, <3>1
  <2>5. Flight # <<>>
    BY <1>1, <2>2
  <2> QED
    BY <1>3, <2>2, <2>3, <2>4, <2>5
<1> QED
  BY <1>2, <1>3

\* The node takes the first request of its ring: the queue is the same, or gone.
LEMMA ServeFlight ==
  ASSUME LineInv, LineInv', ServingInv, Serve
  PROVE  /\ Flight # <<>> /\ Flight[1] = Head(reqs) /\ Head(reqs) \in GoodRequest
         /\ Flight' \in {Flight, <<>>}
<1>1. serving = NoRequest /\ reqs # <<>> /\ reqs \in Seq(GoodRequest)
  BY DEF Serve, ServingInv, LineInv
<1>2. Flight = reqs /\ Head(reqs) \in GoodRequest /\ Head(reqs) # NoRequest
        /\ Head(reqs) = reqs[1]
  BY <1>1, FlightIs, NoRequestTypes
<1>3. CASE Fresh
  <2>1. serving' = NoRequest /\ reqs' = <<>>
    BY <1>3 DEF Serve
  <2> QED
    BY <1>1, <1>2, <2>1 DEF Flight
<1>4. CASE ~ Fresh
  <2>1. serving' = Head(reqs) /\ reqs' = Tail(reqs)
    BY <1>4 DEF Serve
  <2>2. Flight' = <<Head(reqs)>> \o Tail(reqs)
    BY <1>2, <2>1 DEF Flight
  <2>3. <<Head(reqs)>> \o Tail(reqs) = reqs
    BY <1>1
  <2> QED
    BY <1>1, <1>2, <2>2, <2>3
<1> QED
  BY <1>1, <1>2, <1>3, <1>4

-----------------------------------------------------------------------------
\* What the node's steps do to its queue.

\* A handler begins an answer, or ends with the node switched off; only that of
\* ERASE has anything erased.
LEMMA HandleDefers ==
  ASSUME Board!TypeInv, NEW q \in GoodRequest, Handle(q), Listening, dev.pc = "idle"
  PROVE  /\ dev' = Node!Off \/ dev'.pc \in {"reply", "verify"}
         /\ dev'.deferred = "erase" => q.kind = "ERASE"
<1>1. DOMAIN dev = {"at", "rec", "pc", "deferred", "status"}
        /\ dev = [f \in {"at", "rec", "pc", "deferred", "status"} |-> dev[f]]
        /\ dev.deferred # "erase"
  BY DEF Board!TypeInv, Board!WellFormed, Board!Dev
<1> DEFINE Good(d) == d.pc = "reply" /\ d.deferred # "erase"
<1>2. \A st : Good(Node!Answer(st)) /\ Good(Node!AppAnswer(st))
  BY <1>1 DEF Node!Answer, Node!AppAnswer
<1>3. \A st, p : Good(Node!Recorded(p, st))
  BY <1>1 DEF Node!Recorded, Node!Answer
<1>4. Node!Off.deferred # "erase"
  BY DEF Node!Off
<1>5. CASE dev.at \in {"window", "service"}
  <2>1. CASE q.kind \in {"HELLO", "GET_INFO", "ENTER_BOOT", "QUERY"}
    <3>1. Node!ReadOnlyRequest
      BY <1>5, <2>1 DEF Handle
    <3> QED
      BY <1>2, <3>1 DEF Node!ReadOnlyRequest
  <2>2. CASE q.kind = "START"
    <3>1. Node!Start(q.session, q.package)
      BY <1>5, <2>2 DEF Handle
    <3> QED
      BY <1>2, <1>3, <1>4, <3>1 DEF Node!Start, Node!Append, Node!ReserveAndAppend
  <2>3. CASE q.kind = "ERASE"
    <3>1. Node!Erase(q.session)
      BY <1>5, <2>3 DEF Handle
    <3>2. \A p : [Node!Recorded(p, "BUSY") EXCEPT !.deferred = "erase"].pc = "reply"
            /\ [Node!Answer("BUSY") EXCEPT !.deferred = "erase"].pc = "reply"
      BY <1>1 DEF Node!Recorded, Node!Answer
    <3> QED
      BY <1>2, <2>3, <3>1, <3>2 DEF Node!Erase, Node!Append
  <2>4. CASE q.kind = "DATA"
    <3>1. Node!Data(q.session, q.offset,
                    ChunkEnd(q.offset, Size[q.package.image]) - q.offset,
                    q.package.image)
      BY <1>5, <2>4 DEF Handle
    <3>2. \A new : Good([Node!Answer("OK") EXCEPT !.rec.received = new])
      BY <1>1 DEF Node!Answer
    <3>3. \A new : Node!AdvanceTo(new) => dev' = Node!Off \/ Good(dev')
      BY <1>2, <1>3, <3>2 DEF Node!AdvanceTo, Node!Append
    <3> HIDE DEF Good
    <3>4. dev' = Node!Off \/ Good(dev')
      BY <1>2, <3>1, <3>3 DEF Node!Data
    <3> QED
      BY <1>4, <3>4 DEF Good
  <2>5. CASE q.kind = "VERIFY"
    <3>1. Node!Verify(q.session)
      BY <1>5, <2>5 DEF Handle
    <3> DEFINE checking == [dev EXCEPT !.at = "service", !.pc = "verify"]
    <3>2. checking.pc = "verify" /\ checking.deferred # "erase"
            /\ \A p : [checking EXCEPT !.rec = p].pc = "verify"
                        /\ [checking EXCEPT !.rec = p].deferred # "erase"
      BY <1>1
    <3>3. \/ dev' \in {checking, Node!Off}
          \/ \E p : dev' = [checking EXCEPT !.rec = p]
          \/ \E st : dev' = Node!Answer(st)
      <4> HIDE DEF checking
      <4> QED
        BY <3>1, Zenon DEF Node!Verify, Node!Append, checking
    <3> HIDE DEF checking
    <3> QED
      BY <1>2, <1>4, <3>2, <3>3
  <2>6. CASE q.kind = "ACTIVATE"
    <3>1. Node!Activate(q.session)
      BY <1>5, <2>6 DEF Handle
    <3>2. Good([Node!Answer("OK") EXCEPT !.deferred = "reset"])
      BY <1>1 DEF Node!Answer
    <3> QED
      BY <1>2, <3>1, <3>2 DEF Node!Activate
  <2>7. CASE q.kind = "ABORT"
    <3>1. Node!Abort(q.session)
      BY <1>5, <2>7 DEF Handle
    <3> QED
      BY <1>2, <1>3, <1>4, <3>1 DEF Node!Abort, Node!Append
  <2> QED
    BY <2>1, <2>2, <2>3, <2>4, <2>5, <2>6, <2>7, Kinds
<1>6. CASE dev.at \in {"running", "waiting"}
  <2>1. CASE q.kind = "ENTER_BOOT"
    <3>1. Node!AppEnterBoot(q.session)
      BY <1>6, <2>1 DEF Handle
    <3>2. Good([Node!AppAnswer("OK") EXCEPT !.deferred = "reset"])
      BY <1>1 DEF Node!AppAnswer
    <3> QED
      BY <1>2, <1>4, <3>1, <3>2
      DEF Node!AppEnterBoot, Node!Append, Node!ReserveAndAppend
  <2>2. CASE q.kind # "ENTER_BOOT"
    <3>1. Node!AppReadOnlyRequest
      BY <1>6, <2>2 DEF Handle
    <3> QED
      BY <1>2, <3>1 DEF Node!AppReadOnlyRequest
  <2> QED
    BY <2>1, <2>2
<1> QED
  BY <1>5, <1>6 DEF Listening

\* By itself the node begins no answer, and goes on with none: it finishes what it
\* was doing, or is reset.
LEMMA NodeStepDefers ==
  ASSUME Board!TypeInv, Node!EraseApp \/ OtherNodeStep
  PROVE  /\ (dev'.deferred = "erase" \/ dev'.pc = "erase") => Erasing
         /\ dev'.deferred = "erase" => dev.deferred = "erase"
         /\ dev'.pc \in {"idle", "erase"} =>
              dev.pc \in {"idle", "erase"} \/ dev.at \in {"off", "entry"} \/ Fresh
<1>1. /\ DOMAIN dev = {"at", "rec", "pc", "deferred", "status"}
      /\ dev = [f \in {"at", "rec", "pc", "deferred", "status"} |-> dev[f]]
      /\ dev.deferred = "erase" => dev.pc = "reply"
  BY DEF Board!TypeInv, Board!WellFormed, Board!Dev
<1>2. Node!Off.deferred # "erase" /\ Node!Off.pc = "idle" /\ Node!Off.at = "off"
        /\ Node!Jump.deferred # "erase" /\ Node!Jump.pc = "idle"
        /\ Node!Jump.at = "entry"
  BY DEF Node!Off, Node!Jump
<1>3. CASE Node!EraseApp
  <2> DEFINE idle == [dev EXCEPT !.pc = "idle"]
  <2>1. idle.deferred = dev.deferred /\ idle.pc = "idle"
          /\ \A p : [idle EXCEPT !.rec = p].deferred = dev.deferred
                      /\ [idle EXCEPT !.rec = p].pc = "idle"
    BY <1>1
  <2> HIDE DEF idle
  <2>2. dev' = Node!Off \/ dev' = idle \/ \E p : dev' = [idle EXCEPT !.rec = p]
    BY <1>3, Zenon DEF Node!EraseApp, Node!Append, idle
  <2>3. dev.pc = "erase"
    BY <1>3 DEF Node!EraseApp
  <2> QED
    BY <1>2, <2>1, <2>2, <2>3 DEF Erasing
<1>4. CASE Node!CheckCrc
  <2>1. /\ \A st : Node!Answer(st).pc = "reply" /\ Node!Answer(st).deferred = dev.deferred
        /\ \A st, p : Node!Recorded(p, st).pc = "reply"
                        /\ Node!Recorded(p, st).deferred = dev.deferred
    BY <1>1 DEF Node!Recorded, Node!Answer
  <2>2. dev' = Node!Off \/ (dev'.pc = "reply" /\ dev'.deferred = dev.deferred)
    BY <1>4, <2>1 DEF Node!CheckCrc, Node!Append
  <2> QED
    BY <1>2, <2>2 DEF Fresh, Erasing
<1>5. CASE Node!Boot
  <2> DEFINE Calm(d) == d.pc = "idle" /\ d.deferred # "erase" /\ DOMAIN d = DOMAIN dev
             InLoop(ready) == [Node!Off EXCEPT !.rec = journal.latest,
                                               !.at = IF ready THEN "service" ELSE "dead"]
  <2>1. ASSUME NEW d, Calm(d), Node!CountedStart(d)
        PROVE  dev'.pc = "idle" /\ dev'.deferred # "erase"
    <3>1. \A p : [d EXCEPT !.rec = p].pc = "idle"
                   /\ [d EXCEPT !.rec = p].deferred # "erase"
      BY <1>1, <2>1
    <3> QED
      BY <1>2, <2>1, <3>1 DEF Node!CountedStart, Node!Append
  <2>2. \A ready \in BOOLEAN :
          /\ Calm(InLoop(ready))
          /\ [InLoop(ready) EXCEPT !.at = "window"].pc = "idle"
          /\ [InLoop(ready) EXCEPT !.at = "window"].deferred # "erase"
    <3>1. \A rec, at : LET d == [Node!Off EXCEPT !.rec = rec, !.at = at]
                       IN d.pc = "idle" /\ DOMAIN d = DOMAIN dev
      BY <1>1 DEF Node!Off
    <3>2. \A rec, at : [Node!Off EXCEPT !.rec = rec, !.at = at].deferred # "erase"
      BY DEF Node!Off
    <3>3. \A rec, at, new :
            LET d == [[Node!Off EXCEPT !.rec = rec, !.at = at] EXCEPT !.at = new]
            IN d.pc = "idle" /\ d.deferred # "erase"
      BY DEF Node!Off
    <3> QED
      BY <3>1, <3>2, <3>3
  <2>3. \E ready \in BOOLEAN :
          \/ Node!CountedStart(InLoop(ready))
          \/ dev' \in {InLoop(ready), [InLoop(ready) EXCEPT !.at = "window"], Node!Jump}
    BY <1>5 DEF Node!Boot
  <2>4. dev.at = "off"
    BY <1>5 DEF Node!Boot
  <2> HIDE DEF InLoop
  <2>5. dev'.pc = "idle" /\ dev'.deferred # "erase"
    BY <1>2, <2>1, <2>2, <2>3
  <2> QED
    BY <2>4, <2>5
<1>6. CASE Node!WindowExpires \/ Node!WatchdogReset
  BY <1>2, <1>6 DEF Node!WindowExpires, Node!WatchdogReset, Fresh
<1>7. CASE Node!AppInit
  BY <1>1, <1>7 DEF Node!AppInit, Erasing
<1>8. CASE Node!Confirm
  <2>1. \A at : [dev EXCEPT !.at = at].pc = dev.pc
                  /\ [dev EXCEPT !.at = at].deferred = dev.deferred
    BY <1>1
  <2>2. dev' = Node!Off \/ \E at : dev' = [dev EXCEPT !.at = at]
    BY <1>8, Zenon DEF Node!Confirm, Node!Append
  <2>3. CASE dev' = Node!Off
    BY <1>2, <2>3 DEF Fresh
  <2>4. CASE \E at : dev' = [dev EXCEPT !.at = at]
    <3>1. dev'.pc = dev.pc /\ dev'.deferred = dev.deferred
      BY <2>1, <2>4
    <3> QED
      BY <3>1 DEF Erasing
  <2> QED
    BY <2>2, <2>3, <2>4
<1> QED
  BY <1>3, <1>4, <1>5, <1>6, <1>7, <1>8 DEF OtherNodeStep

\* The node's steps leave the queue as it is, or take its first request, or lose it,
\* and have nothing erased that was not asked for.
Drains ==
  /\ Flight' \in {Flight, <<>>} \/ (Flight # <<>> /\ Flight' = Tail(Flight))
  /\ Erasing' => MayErase
  /\ UNCHANGED gateway

\* What is erased when an answer has left is erased in the loop of the bootloader.
LEMMA NotFresh ==
  ASSUME Board!TypeInv'
  PROVE  dev'.deferred = "erase" => ~ Fresh
  BY DEF Board!TypeInv, Board!WellFormed, Fresh

\* Taking a request begins an answer to it.
LEMMA ServeDrains ==
  ASSUME Board!TypeInv, Board!TypeInv', LineInv, LineInv', ServingInv, Serve
  PROVE  ServingInv' /\ Drains /\ reps' = reps
<1>1. /\ Flight # <<>> /\ Flight[1] = Head(reqs) /\ Head(reqs) \in GoodRequest
      /\ Flight' \in {Flight, <<>>}
  BY ServeFlight
<1>2. /\ Handle(Head(reqs)) /\ Listening /\ dev.pc = "idle"
      /\ reqs' = (IF Fresh THEN <<>> ELSE Tail(reqs))
      /\ serving' = (IF Fresh THEN NoRequest ELSE Head(reqs))
  BY DEF Serve
<1>3. /\ dev' = Node!Off \/ dev'.pc \in {"reply", "verify"}
      /\ dev'.deferred = "erase" => Head(reqs).kind = "ERASE"
  BY <1>1, <1>2, HandleDefers
<1>4. Node!Off.at = "off" /\ Node!Off.pc = "idle" /\ Node!Off.deferred = "none"
  BY DEF Node!Off
<1>5. ServingInv'
  <2>1. dev'.at \in {"off", "entry"} => serving' = NoRequest /\ reqs' = <<>>
    BY <1>2 DEF Fresh
  <2>2. dev'.pc \in {"idle", "erase"} => serving' = NoRequest
    BY <1>2, <1>3, <1>4 DEF Fresh
  <2>3. dev'.deferred = "erase" => serving'.kind = "ERASE"
    BY <1>2, <1>3, NotFresh
  <2> QED
    BY <2>1, <2>2, <2>3 DEF ServingInv
<1>6. Erasing' => MayErase
  <2>1. Erasing' => Head(reqs).kind = "ERASE"
    BY <1>3, <1>4 DEF Erasing
  <2>2. 1 \in DOMAIN Flight
    BY <1>1, FlightIs
  <2> QED
    BY <1>1, <2>1, <2>2 DEF MayErase
<1> QED
  BY <1>1, <1>5, <1>6 DEF Drains, Serve

\* An answer that leaves is one to the first of the queue; the node then erases if
\* that was ERASE, and is not erasing otherwise.
LEMMA ReplyDrains ==
  ASSUME Board!TypeInv, Board!TypeInv', LineInv, LineInv', ServingInv, Reply
  PROVE  /\ ServingInv' /\ Drains
         /\ Flight # <<>> /\ Flight' \in {Tail(Flight), <<>>}
         /\ \/ reps' = reps
            \/ /\ client.waiting
               /\ reps' = Append(reps, AnswerTo(Flight[1]))
               /\ Flight[1].kind # "ERASE" => ~ Erasing'
<1>1. PICK sent \in BOOLEAN :
        /\ Node!SendReply(sent)
        /\ \/ /\ sent /\ NoTrouble
              /\ reps' = IF client.waiting THEN Append(reps, AnswerTo(serving)) ELSE reps
           \/ Loss /\ UNCHANGED reps
  BY DEF Reply
<1>2. dev.pc = "reply" /\ serving # NoRequest
  BY <1>1 DEF Node!SendReply, LineInv
<1>3. Flight # <<>> /\ Flight[1] = serving /\ Tail(Flight) = reqs
  BY <1>2, FlightIs
<1>4. /\ DOMAIN dev = {"at", "rec", "pc", "deferred", "status"}
      /\ dev = [f \in {"at", "rec", "pc", "deferred", "status"} |-> dev[f]]
  BY DEF Board!TypeInv, Board!WellFormed, Board!Dev
<1>5. /\ dev'.deferred # "erase"
      /\ dev'.pc = "erase" => dev.deferred = "erase"
      /\ dev'.pc \in {"idle", "erase"}
  <2>1. CASE sent /\ dev.deferred = "reset"
    <3>1. dev' = Node!Off
      BY <1>1, <2>1 DEF Node!SendReply
    <3> QED
      BY <3>1 DEF Node!Off
  <2>2. CASE sent /\ dev.deferred = "erase"
    <3>1. dev' = [dev EXCEPT !.pc = "erase", !.deferred = "none", !.status = "NONE"]
      BY <1>1, <2>2 DEF Node!SendReply
    <3> QED
      BY <1>4, <2>2, <3>1
  <2>3. CASE ~ (sent /\ dev.deferred \in {"reset", "erase"})
    <3>1. dev' = [dev EXCEPT !.pc = "idle", !.status = "NONE",
                             !.deferred = IF Node!InApp THEN @ ELSE "none"]
      BY <1>1, <2>3 DEF Node!SendReply
    <3>2. dev'.pc = "idle" /\ dev'.deferred = IF Node!InApp THEN dev.deferred ELSE "none"
      BY <1>4, <3>1
    <3>3. Node!InApp => dev.deferred # "erase"
      BY DEF Board!TypeInv, Board!WellFormed, Node!InApp, Node!AppPlace
    <3> QED
      BY <3>2, <3>3
  <2> QED
    BY <1>1, <2>1, <2>2, <2>3
<1>6. Flight' = reqs'
  BY FlightIs, <1>5 DEF Reply, Flight, LineInv
<1>7. Flight' \in {Tail(Flight), <<>>}
  BY <1>3, <1>6 DEF Reply
<1>8. Erasing' => serving.kind = "ERASE"
  BY <1>5 DEF Erasing, ServingInv
<1>9. Erasing' => MayErase
  BY <1>5 DEF Erasing, MayErase
<1>10. ServingInv'
  BY <1>5, <1>2 DEF ServingInv, Reply, Fresh
<1> QED
  BY <1>1, <1>3, <1>7, <1>8, <1>9, <1>10 DEF Drains, Reply

\* What the node does by itself, or a reset.
LEMMA NodeStepDrains ==
  ASSUME Board!TypeInv, Board!TypeInv', LineInv, LineInv', ServingInv, NodeStep \/ NodeReset
  PROVE  ServingInv' /\ Drains /\ reps' = reps
<1>1. CASE NodeReset
  <2>1. dev'.pc = "idle" /\ dev'.deferred = "none" /\ serving' = NoRequest /\ reqs' = <<>>
    BY <1>1 DEF NodeReset, Node!PowerLoss, Node!Off
  <2>2. Flight' = <<>>
    BY <2>1 DEF Flight
  <2> QED
    BY <1>1, <2>1, <2>2 DEF ServingInv, Drains, Erasing, NodeReset
<1>2. CASE NodeStep
  <2>1. /\ Node!EraseApp \/ OtherNodeStep
        /\ reqs' = (IF Fresh THEN <<>> ELSE reqs)
        /\ serving' = (IF Fresh THEN NoRequest ELSE serving)
    BY <1>2 DEF NodeStep
  <2>2. /\ Erasing' => Erasing
        /\ dev'.deferred = "erase" => dev.deferred = "erase"
        /\ dev'.pc \in {"idle", "erase"} =>
             dev.pc \in {"idle", "erase"} \/ dev.at \in {"off", "entry"} \/ Fresh
    BY <2>1, NodeStepDefers DEF Erasing
  <2>3. Flight' \in {Flight, <<>>}
    <3>1. CASE Fresh
      <4>1. serving' = NoRequest /\ reqs' = <<>>
        BY <2>1, <3>1
      <4> QED
        BY <4>1 DEF Flight
    <3>2. CASE ~ Fresh
      <4>1. serving' = serving /\ reqs' = reqs
        BY <2>1, <3>2
      <4> QED
        BY <4>1 DEF Flight
    <3> QED
      BY <3>1, <3>2
  <2>4. ServingInv'
    <3>1. dev'.at \in {"off", "entry"} => serving' = NoRequest /\ reqs' = <<>>
      BY <2>1 DEF Fresh
    <3>2. dev'.pc \in {"idle", "erase"} => serving' = NoRequest
      BY <2>1, <2>2 DEF ServingInv
    <3>3. dev'.deferred = "erase" => serving'.kind = "ERASE"
      BY <2>1, <2>2, NotFresh DEF ServingInv
    <3> QED
      BY <3>1, <3>2, <3>3 DEF ServingInv
  <2> QED
    BY <1>2, <2>2, <2>3, <2>4 DEF Drains, MayErase, NodeStep
<1> QED
  BY <1>1, <1>2

-----------------------------------------------------------------------------
\* The node's steps keep what is said of its queue.

\* A queue, its tail and the empty one are each an end of it.
LEMMA EndOf ==
  ASSUME NEW f \in Seq(GoodRequest), NEW g,
         g = f \/ g = <<>> \/ (f # <<>> /\ g = Tail(f))
  PROVE  /\ g \in Seq(GoodRequest)
         /\ \E k \in {0, 1} : \A j \in DOMAIN g : j + k \in DOMAIN f /\ g[j] = f[j + k]
<1>1. CASE g = f
  BY <1>1
<1>2. CASE g = <<>>
  BY <1>2
<1>3. CASE f # <<>> /\ g = Tail(f)
  <2>1. g \in Seq(GoodRequest) /\ \A j \in DOMAIN g : j + 1 \in DOMAIN f /\ g[j] = f[j + 1]
    BY <1>3
  <2> QED
    BY <2>1
<1> QED
  BY <1>1, <1>2, <1>3

\* So what holds of all its requests, or of their order, is kept.
LEMMA DrainsKeep ==
  ASSUME LineInv, LineInv', QueueInv, NumberInv, EraseInv, Drains
  PROVE  /\ QueueInv' /\ NumberInv' /\ EraseInv'
         /\ MayErase' => MayErase
         /\ \A j \in DOMAIN Flight' : \E i \in DOMAIN Flight : Flight'[j] = Flight[i]
<1> DEFINE f == Flight
           g == Flight'
<1>1. /\ f \in Seq(GoodRequest) /\ g \in Seq(GoodRequest)
      /\ \E k \in {0, 1} : \A j \in DOMAIN g : j + k \in DOMAIN f /\ g[j] = f[j + k]
  <2>1. f \in Seq(GoodRequest)
    BY FlightIs
  <2>2. g = f \/ g = <<>> \/ (f # <<>> /\ g = Tail(f))
    BY DEF Drains
  <2> HIDE DEF f, g
  <2> QED
    BY <2>1, <2>2, EndOf
<1>2. PICK k \in {0, 1} : \A j \in DOMAIN g : j + k \in DOMAIN f /\ g[j] = f[j + k]
  BY <1>1
<1>3. gw' = gw /\ client' = client
  BY DEF Drains, gateway
<1>4. \A i, j \in DOMAIN g : i < j => i + k < j + k
  BY <1>1, <1>2
<1>5. MayErase' => MayErase
  <2>1. Erasing' => MayErase
    BY DEF Drains
  <2>2. ASSUME NEW j \in DOMAIN g, g[j].kind = "ERASE"
        PROVE  MayErase
    BY <1>2, <2>2 DEF MayErase
  <2> QED
    BY <2>1, <2>2 DEF MayErase
<1>6. QueueInv'
  <2>1. ASSUME client.req # NoRequest
        PROVE  /\ \A i \in DOMAIN g : Resembles(g[i]) => g[i] = client.req
               /\ \A i, j \in DOMAIN g : i < j /\ Resembles(g[i]) => g[j] = client.req
    <3>1. /\ \A i \in DOMAIN f : Resembles(f[i]) => f[i] = client.req
          /\ \A i, j \in DOMAIN f : i < j /\ Resembles(f[i]) => f[j] = client.req
      BY <2>1 DEF QueueInv
    <3> HIDE DEF f, g
    <3> QED
      BY <1>2, <1>4, <3>1
  <2> QED
    BY <1>3, <2>1 DEF QueueInv, Resembles
<1>7. NumberInv'
  <2>1. /\ gw.pc \notin Reused =>
             \A i \in DOMAIN f : f[i].seq = client.seq => f[i] = client.req
        /\ gw.pc \in {"wait", "verified"} =>
             \A i \in DOMAIN f : f[i].seq = client.seq => f[i].kind # "ABORT"
    BY DEF NumberInv
  <2>2. /\ gw.pc \notin Reused =>
             \A i \in DOMAIN g : g[i].seq = client.seq => g[i] = client.req
        /\ gw.pc \in {"wait", "verified"} =>
             \A i \in DOMAIN g : g[i].seq = client.seq => g[i].kind # "ABORT"
    <3> HIDE DEF f, g
    <3> QED
      BY <1>2, <2>1
  <2> QED
    BY <1>3, <2>2 DEF NumberInv
<1>8. EraseInv'
  <2>1. /\ \A i \in DOMAIN f : f[i].kind = "HELLO" => f[i] = Bare("HELLO", f[i].seq)
        /\ gw.pc = "erase" => \A i \in DOMAIN f : f[i].kind # "HELLO"
    BY DEF EraseInv
  <2>2. ASSUME MayErase
        PROVE  /\ gw.pc \in {"idle", "find", "probe", "abort", "erase", "poll"}
               /\ gw.pc \in {"abort", "poll"} => \A i \in DOMAIN f : f[i].kind # "HELLO"
               /\ gw.pc = "find" => client.seq = 0
               /\ \A i \in DOMAIN f : f[i].kind = "HELLO" => f[i].seq = 0
               /\ \A i, j \in DOMAIN f : i < j /\ f[i].kind = "HELLO" => f[j] = f[i]
    BY <2>2 DEF EraseInv
  <2>3. /\ \A i \in DOMAIN g : g[i].kind = "HELLO" => g[i] = Bare("HELLO", g[i].seq)
        /\ gw.pc = "erase" => \A i \in DOMAIN g : g[i].kind # "HELLO"
    <3> HIDE DEF f, g
    <3> QED
      BY <1>2, <2>1
  <2>4. ASSUME MayErase
        PROVE  /\ gw.pc \in {"idle", "find", "probe", "abort", "erase", "poll"}
               /\ gw.pc \in {"abort", "poll"} => \A i \in DOMAIN g : g[i].kind # "HELLO"
               /\ gw.pc = "find" => client.seq = 0
               /\ \A i \in DOMAIN g : g[i].kind = "HELLO" => g[i].seq = 0
               /\ \A i, j \in DOMAIN g : i < j /\ g[i].kind = "HELLO" => g[j] = g[i]
    <3> HIDE DEF f, g
    <3> QED
      BY <1>2, <1>4, <2>2, <2>4
  <2> QED
    BY <1>3, <1>5, <2>3, <2>4 DEF EraseInv
<1> QED
  BY <1>2, <1>5, <1>6, <1>7, <1>8

\* The call under way is none of the node's business.
LEMMA NodeKeepsCall ==
  ASSUME CallInv, UNCHANGED gateway, client.waiting \/ reps' = reps
  PROVE  CallInv'
  BY DEF gateway, CallInv

\* An answer is to the first of the queue.  If it fits, that is the request under
\* way, and so is everything behind it.
LEMMA ReplyAnswers ==
  ASSUME Board!TypeInv, Board!TypeInv', LineInv, LineInv', AnswersInv, Reply
  PROVE  AnswersInv'
<1>1. /\ ServingInv' /\ Drains
      /\ Flight # <<>> /\ Flight' \in {Tail(Flight), <<>>}
      /\ \/ reps' = reps
         \/ /\ client.waiting
            /\ reps' = Append(reps, AnswerTo(Flight[1]))
            /\ Flight[1].kind # "ERASE" => ~ Erasing'
  BY ReplyDrains DEF AnswersInv
<1>2. /\ QueueInv' /\ NumberInv' /\ EraseInv'
      /\ MayErase' => MayErase
      /\ \A j \in DOMAIN Flight' : \E i \in DOMAIN Flight : Flight'[j] = Flight[i]
  BY <1>1, DrainsKeep DEF AnswersInv
<1>3. CallInv'
  BY <1>1, NodeKeepsCall DEF AnswersInv, Drains
<1>4. Flight \in Seq(GoodRequest) /\ reps \in Seq(GoodAnswer)
  BY FlightIs DEF LineInv
<1>5. gw' = gw /\ client' = client
  BY <1>1 DEF Drains, gateway
<1>6. ASSUME client.req # NoRequest, NEW i \in DOMAIN reps', Resembles(reps'[i].to)
      PROVE  /\ reps'[i].to = client.req
             /\ \A j \in DOMAIN Flight' : Flight'[j] = client.req
             /\ client.req.kind # "ERASE" => ~ MayErase'
  <2>1. CASE i \in DOMAIN reps /\ reps'[i] = reps[i]
    <3>1. /\ reps[i].to = client.req
          /\ \A j \in DOMAIN Flight : Flight[j] = client.req
          /\ client.req.kind # "ERASE" => ~ MayErase
      BY <1>6, <2>1 DEF AnswersInv, AnswerInv
    <3> QED
      BY <1>2, <2>1, <3>1
  <2>2. CASE ~ (i \in DOMAIN reps /\ reps'[i] = reps[i])
    <3>1. /\ reps'[i] = AnswerTo(Flight[1])
          /\ Flight[1].kind # "ERASE" => ~ Erasing'
      <4>1. reps' # reps
        BY <1>6, <2>2
      <4>2. reps' = Append(reps, AnswerTo(Flight[1]))
        BY <1>1, <4>1
      <4> HIDE DEF AnswerTo
      <4> QED
        BY <1>1, <1>4, <1>6, <2>2, <4>1, <4>2
    <3>2. reps'[i].to = Flight[1]
      BY <3>1 DEF AnswerTo
    <3>3. \A j \in DOMAIN Flight : Flight[j] = client.req
      <4>1. 1 \in DOMAIN Flight /\ \A j \in DOMAIN Flight : j = 1 \/ 1 < j
        BY <1>1, <1>4
      <4> QED
        BY <1>6, <3>2, <4>1 DEF AnswersInv, QueueInv
    <3>4. \A j \in DOMAIN Flight' : Flight'[j] = client.req
      BY <1>2, <3>3
    <3>5. 1 \in DOMAIN Flight
      BY <1>1, <1>4
    <3> QED
      BY <3>1, <3>2, <3>3, <3>4, <3>5 DEF MayErase
  <2> QED
    BY <2>1, <2>2
<1>7. AnswerInv'
  BY <1>5, <1>6 DEF AnswerInv, Resembles
<1> QED
  BY <1>1, <1>2, <1>3, <1>7 DEF AnswersInv

\* So do the node's other steps, which answer nothing.
LEMMA NodeAnswers ==
  ASSUME Board!TypeInv, Board!TypeInv', LineInv, LineInv', AnswersInv,
         Serve \/ NodeStep \/ NodeReset
  PROVE  AnswersInv'
<1>1. ServingInv' /\ Drains /\ reps' = reps
  BY ServeDrains, NodeStepDrains DEF AnswersInv
<1>2. /\ QueueInv' /\ NumberInv' /\ EraseInv'
      /\ MayErase' => MayErase
      /\ \A j \in DOMAIN Flight' : \E i \in DOMAIN Flight : Flight'[j] = Flight[i]
  BY <1>1, DrainsKeep DEF AnswersInv
<1>3. CallInv'
  BY <1>1, NodeKeepsCall DEF AnswersInv, Drains
<1>4. AnswerInv'
  <2>1. client' = client
    BY <1>1 DEF Drains, gateway
  <2> QED
    BY <1>1, <1>2, <2>1 DEF AnswersInv, AnswerInv, Resembles
<1> QED
  BY <1>1, <1>2, <1>3, <1>4 DEF AnswersInv

-----------------------------------------------------------------------------
\* What the gateway's steps do to the queue and the call.

\* A request is sent again, or for the first time: it is the last of the queue, if
\* it got there.
LEMMA TransmitFlight ==
  ASSUME LineInv, ServingInv, GatewayInv, Transmit
  PROVE  /\ client'.req = client.req /\ client'.seq = client.seq /\ client'.waiting
         /\ UNCHANGED <<gw, dev, serving>> /\ reps' = <<>> /\ client.req \in GoodRequest
         /\ dev.at \in {"off", "entry"} => reqs' = reqs
         /\ \/ Flight' = Flight
            \/ /\ Flight' = Append(Flight, client.req)
               /\ gw.pc \in LoopPlace => Flight = <<>>
<1>1. /\ client.req # NoRequest
      /\ client' = [client EXCEPT !.left = @ - 1, !.waiting = TRUE]
      /\ gw.pc \in LoopPlace => NothingComes
      /\ UNCHANGED <<gw, dev, serving>> /\ reps' = <<>>
  BY DEF Transmit, node
<1>2. client'.req = client.req /\ client'.seq = client.seq /\ client'.waiting
        /\ client.req \in GoodRequest
  BY <1>1 DEF GatewayInv, GoodCall
<1>3. reqs' = reqs \/ (Reaches /\ reqs' = Append(reqs, client.req))
  BY DEF Transmit, Reaches, GetsLost
<1>4. dev.at \in {"off", "entry"} => reqs' = reqs
  BY <1>3 DEF Reaches, Listening
<1>5. CASE reqs' = reqs
  BY <1>1, <1>2, <1>5 DEF Flight
<1>6. CASE Reaches /\ reqs' = Append(reqs, client.req)
  <2>1. reqs \in Seq(GoodRequest) /\ serving \in GoodRequest \cup {NoRequest}
    BY DEF LineInv
  <2>2. Flight' = (IF serving = NoRequest THEN <<>> ELSE <<serving>>)
                    \o Append(reqs, client.req)
    BY <1>1, <1>6 DEF Flight
  <2>3. Flight' = Append(Flight, client.req)
    <3>1. \A h \in Seq(GoodRequest) :
            h \o Append(reqs, client.req) = Append(h \o reqs, client.req)
      BY <1>2, <2>1
    <3>2. (IF serving = NoRequest THEN <<>> ELSE <<serving>>) \in Seq(GoodRequest)
      BY <2>1
    <3> QED
      BY <2>2, <3>1, <3>2 DEF Flight
  <2>4. dev.pc = "erase" => reqs = <<>> /\ serving = NoRequest
    BY <1>6, <2>1 DEF Reaches, ServingInv
  <2>5. gw.pc \in LoopPlace => reqs = <<>> /\ serving = NoRequest
    BY <1>1, <2>4 DEF NothingComes
  <2>6. gw.pc \in LoopPlace => Flight = <<>>
    BY <2>5 DEF Flight
  <2> QED
    BY <1>1, <1>2, <1>4, <2>3, <2>6
<1> QED
  BY <1>3, <1>5, <1>6

\* One more of what is under way does not disturb the queue.
LEMMA TransmitAnswers ==
  ASSUME LineInv, GatewayInv, AnswersInv, Transmit
  PROVE  AnswersInv'
<1> DEFINE f == Flight
           g == Flight'
           q == client.req
<1>1. /\ client'.req = q /\ client'.seq = client.seq /\ client'.waiting
      /\ UNCHANGED <<gw, dev, serving>> /\ reps' = <<>> /\ q \in GoodRequest
      /\ dev.at \in {"off", "entry"} => reqs' = reqs
      /\ g = f \/ (g = Append(f, q) /\ (gw.pc \in LoopPlace => f = <<>>))
  BY TransmitFlight DEF AnswersInv
<1>2. f \in Seq(GoodRequest)
  BY FlightIs
<1>3. /\ q # NoRequest /\ q.kind = Kind[gw.pc] /\ q.seq = client.seq
      /\ q.kind \in BareKind => q = Bare(q.kind, client.seq)
      /\ gw.pc = "probe" => client.seq = 0
      /\ gw.pc \in Place
  <2>1. q # NoRequest
    BY DEF Transmit
  <2>2. gw.pc \in Place
    BY <2>1 DEF GatewayInv, GoodTask, Task
  <2> QED
    BY <2>1, <2>2 DEF AnswersInv, CallInv
<1>4. ServingInv'
  BY <1>1 DEF AnswersInv, ServingInv
<1>5. CallInv'
  BY <1>1 DEF AnswersInv, CallInv
<1>6. AnswerInv'
  BY <1>1 DEF AnswerInv
<1>7. \A j \in DOMAIN g :
        \/ j \in DOMAIN f /\ g[j] = f[j]
        \/ /\ g[j] = q /\ \A i \in DOMAIN f : i < j
           /\ gw.pc \in LoopPlace => f = <<>>
  <2> HIDE DEF f, g, q
  <2> QED
    BY <1>1, <1>2
<1>8. \A i, j \in DOMAIN g : i < j =>
        \/ i \in DOMAIN f /\ j \in DOMAIN f /\ g[i] = f[i] /\ g[j] = f[j]
        \/ i \in DOMAIN f /\ g[i] = f[i] /\ g[j] = q /\ gw.pc \notin LoopPlace
  <2> HIDE DEF f, g, q
  <2>1. \A i, j \in DOMAIN g : i < j => i \in DOMAIN f /\ g[i] = f[i]
    BY <1>1, <1>2
  <2> QED
    BY <1>1, <1>2, <1>7, <2>1
<1>9. QueueInv'
  <2>1. /\ \A i \in DOMAIN f : Resembles(f[i]) => f[i] = q
        /\ \A i, j \in DOMAIN f : i < j /\ Resembles(f[i]) => f[j] = q
    BY <1>3 DEF AnswersInv, QueueInv
  <2>2. /\ \A i \in DOMAIN g : Resembles(g[i]) => g[i] = q
        /\ \A i, j \in DOMAIN g : i < j /\ Resembles(g[i]) => g[j] = q
    <3> HIDE DEF f, g, q
    <3> QED
      BY <1>7, <1>8, <2>1
  <2> QED
    BY <1>1, <2>2 DEF QueueInv, Resembles
<1>10. NumberInv'
  <2>1. /\ gw.pc \notin Reused => \A i \in DOMAIN f : f[i].seq = client.seq => f[i] = q
        /\ gw.pc \in {"wait", "verified"} =>
             \A i \in DOMAIN f : f[i].seq = client.seq => f[i].kind # "ABORT"
    BY DEF AnswersInv, NumberInv
  <2>2. gw.pc \in {"wait", "verified"} => q.kind # "ABORT"
    BY <1>3 DEF Kind
  <2>3. /\ gw.pc \notin Reused => \A i \in DOMAIN g : g[i].seq = client.seq => g[i] = q
        /\ gw.pc \in {"wait", "verified"} =>
             \A i \in DOMAIN g : g[i].seq = client.seq => g[i].kind # "ABORT"
    <3> HIDE DEF f, g, q
    <3> QED
      BY <1>7, <2>1, <2>2
  <2> QED
    BY <1>1, <2>3 DEF NumberInv
<1>11. EraseInv'
  <2>1. /\ \A i \in DOMAIN f : f[i].kind = "HELLO" => f[i] = Bare("HELLO", f[i].seq)
        /\ gw.pc = "erase" => \A i \in DOMAIN f : f[i].kind # "HELLO"
    BY DEF AnswersInv, EraseInv
  <2>2. ASSUME MayErase
        PROVE  /\ gw.pc \in {"idle", "find", "probe", "abort", "erase", "poll"}
               /\ gw.pc \in {"abort", "poll"} => \A i \in DOMAIN f : f[i].kind # "HELLO"
               /\ gw.pc = "find" => client.seq = 0
               /\ \A i \in DOMAIN f : f[i].kind = "HELLO" => f[i].seq = 0
               /\ \A i, j \in DOMAIN f : i < j /\ f[i].kind = "HELLO" => f[j] = f[i]
    BY <2>2 DEF AnswersInv, EraseInv
  <2>3. /\ q.kind = "HELLO" => gw.pc \in {"find", "wait", "probe"} /\ q = Bare("HELLO", q.seq)
        /\ gw.pc \in {"erase", "abort", "poll"} => q.kind # "HELLO"
        /\ q.kind = "ERASE" => gw.pc = "erase"
        /\ gw.pc # "idle"
    <3>1. /\ q.kind = "HELLO" => gw.pc \in {"find", "wait", "probe"}
          /\ gw.pc \in {"erase", "abort", "poll"} => q.kind # "HELLO"
          /\ q.kind = "ERASE" => gw.pc = "erase"
          /\ gw.pc # "idle"
      BY <1>3 DEF Kind, Place
    <3> QED
      BY <1>3, <3>1 DEF BareKind
  <2>4. MayErase' => MayErase \/ gw.pc = "erase"
    <3>1. Erasing' => Erasing
      BY <1>1 DEF Erasing
    <3>2. ASSUME NEW j \in DOMAIN g, g[j].kind = "ERASE"
          PROVE  MayErase \/ gw.pc = "erase"
      BY <1>7, <2>3, <3>2 DEF MayErase
    <3> QED
      BY <3>1, <3>2 DEF MayErase
  <2>5. /\ \A i \in DOMAIN g : g[i].kind = "HELLO" => g[i] = Bare("HELLO", g[i].seq)
        /\ gw.pc = "erase" => \A i \in DOMAIN g : g[i].kind # "HELLO"
    <3> HIDE DEF f, g, q
    <3> QED
      BY <1>7, <2>1, <2>3
  <2>6. ASSUME MayErase, gw.pc # "erase"
        PROVE  /\ gw.pc \in {"abort", "poll"} => \A i \in DOMAIN g : g[i].kind # "HELLO"
               /\ gw.pc = "find" => client.seq = 0
               /\ \A i \in DOMAIN g : g[i].kind = "HELLO" => g[i].seq = 0
               /\ \A i, j \in DOMAIN g : i < j /\ g[i].kind = "HELLO" => g[j] = g[i]
    <3>1. q.kind = "HELLO" => gw.pc \in {"find", "probe"} /\ q.seq = 0 /\ q = Bare("HELLO", 0)
      BY <1>3, <2>2, <2>3, <2>6
    <3>2. \A i \in DOMAIN g : g[i].kind = "HELLO" => g[i].seq = 0
      <4> HIDE DEF f, g, q
      <4> QED
        BY <1>7, <2>2, <2>6, <3>1
    <3>3. gw.pc \in {"abort", "poll"} => \A i \in DOMAIN g : g[i].kind # "HELLO"
      <4> HIDE DEF f, g, q
      <4> QED
        BY <1>7, <2>2, <2>3, <2>6
    <3>4. ASSUME NEW i \in DOMAIN g, NEW j \in DOMAIN g, i < j, g[i].kind = "HELLO"
          PROVE  g[j] = g[i]
      <4>1. CASE i \in DOMAIN f /\ j \in DOMAIN f /\ g[i] = f[i] /\ g[j] = f[j]
        <5> HIDE DEF f, g, q
        <5> QED
          BY <2>2, <2>6, <3>4, <4>1
      <4>2. CASE i \in DOMAIN f /\ g[i] = f[i] /\ g[j] = q /\ gw.pc \notin LoopPlace
        <5>1. gw.pc = "probe"
          <6> HIDE DEF f, g, q
          <6>1. gw.pc \notin {"abort", "poll", "find"}
            BY <3>3, <3>4, <4>2 DEF LoopPlace
          <6> QED
            BY <2>2, <2>3, <2>6, <6>1
        <5>2. q.kind = "HELLO"
          BY <1>3, <5>1 DEF Kind
        <5>3. f[i] = Bare("HELLO", 0)
          BY <2>1, <2>2, <2>6, <3>4, <4>2
        <5> QED
          BY <3>1, <4>2, <5>2, <5>3
      <4> QED
        BY <1>8, <3>4, <4>1, <4>2
    <3> QED
      BY <2>2, <2>6, <3>2, <3>3, <3>4
  <2>7. MayErase' =>
          /\ gw.pc \in {"idle", "find", "probe", "abort", "erase", "poll"}
          /\ gw.pc \in {"abort", "poll"} => \A i \in DOMAIN g : g[i].kind # "HELLO"
          /\ gw.pc = "find" => client.seq = 0
          /\ \A i \in DOMAIN g : g[i].kind = "HELLO" => g[i].seq = 0
          /\ \A i, j \in DOMAIN g : i < j /\ g[i].kind = "HELLO" => g[j] = g[i]
    <3> HIDE DEF f, g, q
    <3> QED
      BY <2>2, <2>4, <2>5, <2>6
  <2> QED
    BY <1>1, <2>5, <2>7 DEF EraseInv
<1> QED
  BY <1>4, <1>5, <1>6, <1>9, <1>10, <1>11 DEF AnswersInv

-----------------------------------------------------------------------------
\* Where the task goes.

\* A task that fails ends, or has a session to abort.
LEMMA FailedGoes ==
  ASSUME NEW g \in GoodTask, g.pc \in Sessionless => g.session = 0
  PROVE  \/ Failed(g).pc = "idle" /\ Failed(g).session = 0
         \/ Failed(g).pc = "abort" /\ g.pc \notin Sessionless \cup {"abort"}
<1>1. GoTo(g, "abort").pc = "abort"
  BY DEF GoodTask, Task, GoTo
<1> QED
  BY <1>1 DEF Failed, Idle

\* A loop comes round, or the task fails.
LEMMA LoopGoes ==
  ASSUME NEW g \in GoodTask, g.pc \in Sessionless => g.session = 0, NEW place
  PROVE  \/ Loop(g, place).pc = place /\ Loop(g, place).session = g.session
         \/ Loop(g, place).pc = "idle" /\ Loop(g, place).session = 0
         \/ Loop(g, place).pc = "abort" /\ g.pc \notin Sessionless \cup {"abort"}
<1>1. GoTo(g, place).pc = place /\ GoTo(g, place).session = g.session
  BY DEF GoodTask, Task, GoTo
<1> QED
  BY <1>1, FailedGoes DEF Loop

\* Where a failed call leads: the number is used again there.
AfterFailure(g, h) ==
  /\ \/ h.pc = "idle"
     \/ h.pc = g.pc /\ g.pc \in LoopPlace
     \/ h.pc = "wait" /\ g.pc \in {"waitapp", "waitboot", "activate"}
     \/ h.pc = "verified" /\ g.pc = "verify"
     \/ h.pc = "abort" /\ g.pc \notin Sessionless \cup {"abort"}
  /\ h.pc \in Sessionless => h.session = 0

LEMMA FailureGoes ==
  ASSUME NEW g \in GoodTask, g.pc # "idle", g.pc \in Sessionless => g.session = 0,
         NEW error
  PROVE  AfterFailure(g, OnFailure(g, error))
<1>1. AfterFailure(g, Failed(g))
  BY FailedGoes DEF AfterFailure, Sessionless
<1>2. ASSUME g.pc \in LoopPlace
      PROVE  AfterFailure(g, Loop(g, g.pc))
  BY <1>2, LoopGoes DEF AfterFailure, Sessionless
<1>3. ASSUME g.pc \in {"waitapp", "waitboot", "activate"}
      PROVE  AfterFailure(g, Loop(g, "wait"))
  BY <1>3, LoopGoes DEF AfterFailure, Sessionless
<1>4. ASSUME g.pc = "verify"
      PROVE  AfterFailure(g, GoTo(g, "verified"))
  <2>1. GoTo(g, "verified").pc = "verified"
    BY DEF GoodTask, Task, GoTo
  <2> QED
    BY <1>4, <2>1 DEF AfterFailure, Sessionless
<1>5. AfterFailure(g, Idle(g.package, g.result))
  BY DEF AfterFailure, Idle
<1>6. \/ OnFailure(g, error) = Failed(g)
      \/ g.pc \in LoopPlace /\ OnFailure(g, error) = Loop(g, g.pc)
      \/ /\ g.pc \in {"waitapp", "waitboot", "activate"}
         /\ OnFailure(g, error) = Loop(g, "wait")
      \/ g.pc = "verify" /\ OnFailure(g, error) = GoTo(g, "verified")
      \/ OnFailure(g, error) = Idle(g.package, g.result)
  BY DEF OnFailure, LoopPlace
<1> QED
  BY <1>1, <1>2, <1>3, <1>4, <1>5, <1>6

\* Where an answer leads: to ERASE from QUERY only, and from ERASE to the end of it.
AfterAnswer(g, h) ==
  /\ h.pc = "erase" => g.pc = "check"
  /\ g.pc = "erase" => h.pc \in {"poll", "abort", "idle"}
  /\ h.pc # "probe"
  /\ h.pc \in Sessionless => h.session = 0

LEMMA AnswerGoes ==
  ASSUME NEW g \in GoodTask, g.pc # "idle", g.pc \in Sessionless => g.session = 0,
         NEW r, NEW s
  PROVE  AfterAnswer(g, OnAnswer(g, r, s))
<1>1. AfterAnswer(g, Failed(g))
  BY FailedGoes DEF AfterAnswer, Sessionless
<1>2. AfterAnswer(g, Idle(g.package, g.result)) /\ AfterAnswer(g, Succeeded(g))
  BY DEF AfterAnswer, Idle, Succeeded
<1>3. ASSUME NEW place \in Place \ {"probe", "erase"}, g.pc = "erase" => place = "poll",
             place \in Sessionless => g.session = 0
      PROVE  AfterAnswer(g, GoTo(g, place)) /\ AfterAnswer(g, Loop(g, place))
  <2>1. GoTo(g, place).pc = place /\ GoTo(g, place).session = g.session
    BY DEF GoodTask, Task, GoTo
  <2> QED
    BY <1>1, <1>3, <2>1 DEF AfterAnswer, Loop
<1>4. g.pc \in Place /\ g.session \in Session \cup {0}
  BY DEF GoodTask, Task
<1>5. /\ [g EXCEPT !.entered = FALSE] \in GoodTask
      /\ [g EXCEPT !.entered = TRUE] \in GoodTask
      /\ \A e \in BOOLEAN : [g EXCEPT !.entered = e].pc = g.pc
                              /\ [g EXCEPT !.entered = e].session = g.session
                              /\ [g EXCEPT !.entered = e].aborted = g.aborted
  BY DEF GoodTask, Task, ImageSize
<1>6. CASE g.pc = "find"
  <2>1. GoTo([g EXCEPT !.entered = FALSE], "info").pc = "info"
          /\ GoTo([g EXCEPT !.entered = FALSE], "info").session = g.session
    BY <1>5 DEF GoTo, GoodTask, Task
  <2>2. AfterAnswer(g, GoTo([g EXCEPT !.entered = FALSE], "info"))
    BY <1>6, <2>1 DEF AfterAnswer, Sessionless
  <2> QED
    BY <1>3, <1>6, <2>2, Places DEF OnAnswer, Found, Sessionless
<1>7. CASE g.pc = "enter"
  <2> DEFINE h == [g EXCEPT !.entered = TRUE]
  <2>1. h \in GoodTask /\ h.pc = "enter" /\ h.session = 0
    BY <1>5, <1>7 DEF Sessionless
  <2>2. OnAnswer(g, r, s) = Failed(g) \/ OnAnswer(g, r, s) = Loop(h, "find")
    BY <1>7 DEF OnAnswer, Entered
  <2> HIDE DEF h
  <2>3. AfterAnswer(g, Loop(h, "find"))
    BY <1>7, <2>1, LoopGoes DEF AfterAnswer, Sessionless
  <2> QED
    BY <1>1, <2>2, <2>3
<1>8. CASE g.pc = "info"
  BY <1>1, <1>3, <1>8, Places DEF OnAnswer, Sessionless
<1>9. CASE g.pc = "query"
  <2>1. \A ss, m : GoTo([g EXCEPT !.session = ss, !.mayBeBusy = m], "start").pc = "start"
    BY DEF GoTo, GoodTask, Task
  <2>2. \A ss, m : AfterAnswer(g, GoTo([g EXCEPT !.session = ss, !.mayBeBusy = m], "start"))
    BY <1>9, <2>1 DEF AfterAnswer, Sessionless
  <2> QED
    BY <1>1, <1>9, <2>2 DEF OnAnswer, Queried
<1>10. CASE g.pc = "start"
  <2>1. GoTo([g EXCEPT !.mayBeBusy = FALSE], "check").pc = "check"
    BY DEF GoTo, GoodTask, Task
  <2>2. AfterAnswer(g, GoTo([g EXCEPT !.mayBeBusy = FALSE], "check"))
    BY <1>10, <2>1 DEF AfterAnswer, Sessionless
  <2> QED
    BY <1>1, <1>10, <2>2 DEF OnAnswer, Started
<1>11. CASE g.pc = "check"
  <2>1. \A place \in {"activate", "verify", "erase"} : GoTo(g, place).pc = place
    BY DEF GoTo, GoodTask, Task
  <2>2. \A place \in {"activate", "verify", "erase"} : AfterAnswer(g, GoTo(g, place))
    BY <1>11, <2>1 DEF AfterAnswer, Sessionless
  <2> QED
    BY <1>1, <1>11, <2>2 DEF OnAnswer, Checked
<1>12. CASE g.pc = "erase"
  BY <1>1, <1>3, <1>12, Places DEF OnAnswer, ErasingAccepted, Sessionless
<1>13. CASE g.pc \in {"poll", "transfer"}
  <2> DEFINE h(o) == [g EXCEPT !.offset = o]
  <2>1. \A o : /\ GoTo(h(o), "transfer").pc = "transfer" /\ GoTo(h(o), "verify").pc = "verify"
               /\ GoTo(h(o), "abort").pc = "abort"
    BY DEF GoTo, GoodTask, Task
  <2>2. \A o : AfterAnswer(g, GoTo(h(o), "transfer")) /\ AfterAnswer(g, GoTo(h(o), "verify"))
                 /\ AfterAnswer(g, GoTo(h(o), "abort"))
    BY <1>13, <2>1 DEF AfterAnswer, Sessionless
  <2>3. \A p, x : AfterAnswer(g, Idle(p, x))
    BY <1>13 DEF AfterAnswer, Idle
  <2>4. \A o : AfterAnswer(g, TransferFrom(g, o))
    BY <2>2, <2>3 DEF TransferFrom, Loop, Failed
  <2>5. AfterAnswer(g, Loop(g, "poll"))
    BY <1>3, <1>13, Places DEF Sessionless
  <2> QED
    BY <1>1, <1>13, <2>4, <2>5 DEF OnAnswer, Polled, Transferred
<1>14. CASE g.pc \in {"verify", "verified", "activate"}
  BY <1>1, <1>3, <1>14, Places DEF OnAnswer, VerifyAnswered, Verified, Activated, Sessionless
<1>15. CASE g.pc \in {"wait", "waitapp", "waitboot", "waitquery", "abort"}
  BY <1>1, <1>2, <1>3, <1>15, Places
  DEF OnAnswer, Answering, SeenApp, SeenBoot, Sessionless
<1>16. CASE g.pc \in {"probe", "probeinfo"}
  BY <1>2, <1>3, <1>16, Places DEF OnAnswer, Sessionless
<1> QED
  BY <1>4, <1>6, <1>7, <1>8, <1>9, <1>10, <1>11, <1>12, <1>13, <1>14, <1>15, <1>16, Places

-----------------------------------------------------------------------------
\* A new call, after which nothing is in the gateway's buffer.
Calls(h, seq) ==
  /\ h \in GoodTask /\ seq \in 0 .. (SeqMod - 1)
  /\ h.pc \in Sessionless => h.session = 0
  /\ h.pc = "probe" => seq = 0
  /\ \E s \in NewSession : Call(h, seq, s)
  /\ reps' = <<>> /\ UNCHANGED <<node, reqs, serving>>

\* It leaves the queue alone and is the call its place makes.
LEMMA CallMade ==
  ASSUME GatewayInv, GatewayInv', NEW h, NEW seq, Calls(h, seq), ServingInv
  PROVE  /\ Flight' = Flight /\ (MayErase' <=> MayErase) /\ gw' = h
         /\ h.pc # "idle" => client'.seq = seq
         /\ ServingInv' /\ CallInv' /\ AnswerInv'
<1>1. PICK s \in NewSession : Call(h, seq, s)
  BY DEF Calls
<1>2. gw' = h /\ UNCHANGED <<dev, reqs, serving>> /\ reps' = <<>>
  BY <1>1 DEF Calls, Call, node
<1>3. Flight' = Flight /\ (MayErase' <=> MayErase) /\ ServingInv'
  <2>1. Flight' = Flight
    BY <1>2 DEF Flight
  <2>2. Erasing' <=> Erasing
    BY <1>2 DEF Erasing
  <2>3. ServingInv'
    BY <1>2 DEF ServingInv
  <2> QED
    BY <2>1, <2>2, <2>3 DEF MayErase
<1>4. AnswerInv'
  BY <1>2 DEF AnswerInv
<1>5. client'.req # NoRequest =>
        /\ client'.req.kind = Kind[h.pc] /\ client'.req.seq = seq /\ client'.seq = seq
        /\ client'.req.kind \in BareKind => client'.req = Bare(client'.req.kind, seq)
  <2>1. CASE h.pc = "idle"
    BY <1>1, <2>1 DEF Call, NoCall
  <2>2. CASE h.pc # "idle"
    <3>1. client'.req = RequestOf(h, seq, s) /\ client'.seq = seq
      BY <1>1, <2>2 DEF Call
    <3> QED
      BY <3>1 DEF RequestOf, Bare, BareKind, WithSession
  <2> QED
    BY <2>1, <2>2
<1>6. h.pc # "idle" => client'.seq = seq
  BY <1>1 DEF Call
<1>7. CallInv'
  BY <1>2, <1>5, <1>6 DEF CallInv, Calls
<1> QED
  BY <1>2, <1>3, <1>4, <1>6, <1>7

\* What else there is to say of it depends on its number and on its place.
LEMMA CallKeeps ==
  ASSUME GatewayInv, GatewayInv', NEW h, NEW seq, Calls(h, seq), AnswersInv,
         \* nothing of the queue resembles it, or only that very request does
         h.pc # "idle" =>
           /\ \A i \in DOMAIN Flight :
                Flight[i].kind = Kind[h.pc] /\ Flight[i].seq = seq =>
                  Flight[i] = Bare(Kind[h.pc], seq) /\ Kind[h.pc] \in BareKind
           /\ \A i, j \in DOMAIN Flight :
                i < j /\ Flight[i].kind = Kind[h.pc] /\ Flight[i].seq = seq =>
                  Flight[j] = Flight[i],
         \* so does its number, but for the places where it is used again
         h.pc \notin Reused =>
           \A i \in DOMAIN Flight :
             Flight[i].seq = seq =>
               Flight[i] = Bare(Kind[h.pc], seq) /\ Kind[h.pc] \in BareKind,
         h.pc \in {"wait", "verified"} =>
           \A i \in DOMAIN Flight : Flight[i].seq = seq => Flight[i].kind # "ABORT",
         \* the node does not erase, or the place is one where it may
         h.pc = "erase" => \A i \in DOMAIN Flight : Flight[i].kind # "HELLO",
         MayErase =>
           /\ h.pc \in {"idle", "find", "probe", "abort", "erase", "poll"}
           /\ h.pc \in {"abort", "poll"} => \A i \in DOMAIN Flight : Flight[i].kind # "HELLO"
           /\ h.pc = "find" => seq = 0
  PROVE  AnswersInv'
<1> DEFINE f == Flight
<1>1. /\ Flight' = f /\ (MayErase' <=> MayErase) /\ gw' = h
      /\ h.pc # "idle" => client'.seq = seq
      /\ ServingInv' /\ CallInv' /\ AnswerInv'
  BY CallMade DEF AnswersInv
<1>2. client'.req # NoRequest =>
        /\ h.pc # "idle"
        /\ client'.req.kind = Kind[h.pc] /\ client'.req.seq = seq
        /\ client'.req.kind \in BareKind => client'.req = Bare(Kind[h.pc], seq)
  BY <1>1 DEF CallInv, GatewayInv
<1>3. QueueInv'
  <2>1. ASSUME client'.req # NoRequest
        PROVE  /\ \A i \in DOMAIN f :
                    f[i].kind = client'.req.kind /\ f[i].seq = client'.req.seq =>
                      f[i] = client'.req
               /\ \A i, j \in DOMAIN f :
                    i < j /\ f[i].kind = client'.req.kind /\ f[i].seq = client'.req.seq =>
                      f[j] = client'.req
    <3>1. /\ \A i \in DOMAIN f :
                f[i].kind = Kind[h.pc] /\ f[i].seq = seq =>
                  f[i] = Bare(Kind[h.pc], seq) /\ Kind[h.pc] \in BareKind
          /\ \A i, j \in DOMAIN f :
                i < j /\ f[i].kind = Kind[h.pc] /\ f[i].seq = seq => f[j] = f[i]
      BY <1>2, <2>1
    <3> HIDE DEF f
    <3> QED
      BY <1>2, <2>1, <3>1
  <2> QED
    BY <1>1, <2>1 DEF QueueInv, Resembles
<1>4. NumberInv'
  <2>1. h.pc \notin Reused =>
          \A i \in DOMAIN f : f[i].seq = client'.seq => f[i] = client'.req
    <3>1. h.pc \notin Reused =>
            /\ client'.req # NoRequest /\ client'.seq = seq
            /\ \A i \in DOMAIN f :
                 f[i].seq = seq => f[i] = Bare(Kind[h.pc], seq) /\ Kind[h.pc] \in BareKind
      BY <1>1 DEF Reused, GatewayInv
    <3> HIDE DEF f
    <3> QED
      BY <1>2, <3>1
  <2>2. h.pc \in {"wait", "verified"} =>
          \A i \in DOMAIN f : f[i].seq = client'.seq => f[i].kind # "ABORT"
    BY <1>1
  <2> QED
    BY <1>1, <2>1, <2>2 DEF NumberInv
<1>5. EraseInv'
  <2>1. \A i \in DOMAIN f : f[i].kind = "HELLO" => f[i] = Bare("HELLO", f[i].seq)
    BY DEF AnswersInv, EraseInv
  <2>2. MayErase =>
          /\ \A i \in DOMAIN f : f[i].kind = "HELLO" => f[i].seq = 0
          /\ \A i, j \in DOMAIN f : i < j /\ f[i].kind = "HELLO" => f[j] = f[i]
    BY DEF AnswersInv, EraseInv
  <2>3. h.pc = "find" /\ MayErase => client'.seq = 0
    BY <1>1
  <2> QED
    BY <1>1, <2>1, <2>2, <2>3 DEF EraseInv
<1> QED
  BY <1>1, <1>3, <1>4, <1>5 DEF AnswersInv

\* A call that failed: the next one has the same number, but is of another kind than
\* what the queue holds of that number, or the same once more.
LEMMA NextAfterFailure ==
  ASSUME GatewayInv, GatewayInv', LineInv, AnswersInv, client.req # NoRequest,
         NEW h, AfterFailure(gw, h), Calls(h, client.seq)
  PROVE  AnswersInv'
<1> DEFINE f == Flight
           seq == client.seq
<1>1. /\ client.req.kind = Kind[gw.pc] /\ client.req.seq = seq
      /\ client.req.kind \in BareKind => client.req = Bare(client.req.kind, seq)
      /\ gw.pc # "idle"
  BY DEF AnswersInv, CallInv, GatewayInv
<1>2. CASE h.pc = "idle"
  BY <1>2, CallKeeps DEF Reused
<1>3. CASE h.pc = gw.pc /\ gw.pc \in LoopPlace
  <2>1. client.req = Bare(Kind[h.pc], seq) /\ Kind[h.pc] \in BareKind
    BY <1>1, <1>3 DEF LoopPlace, Kind, BareKind
  <2>2. /\ \A i \in DOMAIN f :
             f[i].kind = Kind[h.pc] /\ f[i].seq = seq => f[i] = client.req
        /\ \A i, j \in DOMAIN f :
             i < j /\ f[i].kind = Kind[h.pc] /\ f[i].seq = seq => f[j] = client.req
    BY <1>1, <1>3 DEF AnswersInv, QueueInv, Resembles
  <2>3. /\ gw.pc = "wait" =>
             \A i \in DOMAIN f : f[i].seq = seq => f[i].kind # "ABORT"
        /\ gw.pc = "poll" => \A i \in DOMAIN f : f[i].seq = seq => f[i] = client.req
    BY DEF AnswersInv, NumberInv, Reused
  <2>4. \A i, j \in DOMAIN f :
          i < j /\ f[i].kind = Kind[h.pc] /\ f[i].seq = seq => f[j] = f[i]
    <3> HIDE DEF f
    <3> QED
      BY <2>2
  <2>5. MayErase =>
          /\ gw.pc \in {"find", "poll"}
          /\ gw.pc = "find" => seq = 0
          /\ gw.pc = "poll" => \A i \in DOMAIN f : f[i].kind # "HELLO"
    BY <1>3 DEF AnswersInv, EraseInv, LoopPlace
  <2>6. h.pc \notin Reused => gw.pc = "poll"
    BY <1>3 DEF Reused, LoopPlace
  <2>7. h.pc \notin {"verified", "erase", "abort"}
    BY <1>3 DEF LoopPlace
  <2>8. /\ \A i \in DOMAIN f :
             f[i].kind = Kind[h.pc] /\ f[i].seq = seq =>
               f[i] = Bare(Kind[h.pc], seq) /\ Kind[h.pc] \in BareKind
        /\ h.pc \notin Reused =>
             \A i \in DOMAIN f :
               f[i].seq = seq => f[i] = Bare(Kind[h.pc], seq) /\ Kind[h.pc] \in BareKind
    <3> HIDE DEF f
    <3> QED
      BY <2>1, <2>2, <2>3, <2>6
  <2> QED
    BY <1>3, <2>3, <2>4, <2>5, <2>7, <2>8, CallKeeps
<1>4. CASE h.pc = "wait" /\ gw.pc \in {"waitapp", "waitboot", "activate"}
  <2>1. \A i \in DOMAIN f : f[i].seq = seq => f[i] = client.req
    BY <1>4 DEF AnswersInv, NumberInv, Reused
  <2>2. client.req.kind \notin {"HELLO", "ABORT"} /\ Kind[h.pc] = "HELLO"
    BY <1>1, <1>4 DEF Kind
  <2>3. ~ MayErase
    BY <1>4 DEF AnswersInv, EraseInv
  <2>4. /\ \A i \in DOMAIN f : f[i].seq = seq => f[i].kind # Kind[h.pc]
        /\ \A i \in DOMAIN f : f[i].seq = seq => f[i].kind # "ABORT"
    BY <2>1, <2>2
  <2> QED
    BY <1>4, <2>3, <2>4, CallKeeps DEF Reused
<1>5. CASE h.pc = "verified" /\ gw.pc = "verify"
  <2>1. \A i \in DOMAIN f : f[i].seq = seq => f[i] = client.req
    BY <1>5 DEF AnswersInv, NumberInv, Reused
  <2>2. client.req.kind \notin {"QUERY", "ABORT"} /\ Kind[h.pc] = "QUERY"
    BY <1>1, <1>5 DEF Kind
  <2>3. ~ MayErase
    BY <1>5 DEF AnswersInv, EraseInv
  <2>4. /\ \A i \in DOMAIN f : f[i].seq = seq => f[i].kind # Kind[h.pc]
        /\ \A i \in DOMAIN f : f[i].seq = seq => f[i].kind # "ABORT"
    BY <2>1, <2>2
  <2> QED
    BY <1>5, <2>3, <2>4, CallKeeps DEF Reused
<1>6. CASE h.pc = "abort" /\ gw.pc \notin Sessionless \cup {"abort"}
  <2>1. \A i \in DOMAIN f : f[i].seq = seq => f[i].kind # "ABORT"
    <3>1. CASE gw.pc \in {"wait", "verified"}
      BY <3>1 DEF AnswersInv, NumberInv
    <3>2. CASE gw.pc \notin {"wait", "verified"}
      <4>1. gw.pc \notin Reused /\ gw.pc \in Place
        BY <1>1, <1>6, <3>2 DEF Reused, Sessionless, GatewayInv, GoodTask, Task
      <4>2. client.req.kind # "ABORT"
        BY <1>1, <1>6, <4>1 DEF Kind, Place
      <4> QED
        BY <4>1, <4>2 DEF AnswersInv, NumberInv
    <3> QED
      BY <3>1, <3>2
  <2>2. Kind[h.pc] = "ABORT"
    BY <1>6 DEF Kind
  <2>3. MayErase => \A i \in DOMAIN f : f[i].kind # "HELLO"
    BY <1>6 DEF AnswersInv, EraseInv, Sessionless
  <2> QED
    BY <1>6, <2>1, <2>2, <2>3, CallKeeps DEF Reused
<1> QED
  BY <1>2, <1>3, <1>4, <1>5, <1>6 DEF AfterFailure

\* A call that was answered: everything the node still has is that request again,
\* and the next number is another one.
LEMMA NextAfterAnswer ==
  ASSUME GatewayInv, GatewayInv', LineInv, AnswersInv, client.req # NoRequest,
         NEW i \in DOMAIN reps, Resembles(reps[i].to),
         NEW h, AfterAnswer(gw, h) \/ (AfterFailure(gw, h) /\ gw.pc # "erase"),
         Calls(h, (client.seq + 1) % SeqMod)
  PROVE  AnswersInv'
<1> DEFINE f == Flight
           seq == (client.seq + 1) % SeqMod
<1>1. /\ \A j \in DOMAIN f : f[j] = client.req
      /\ client.req.kind # "ERASE" => ~ MayErase
      /\ client.req.kind = Kind[gw.pc] /\ client.req.seq = client.seq
  BY DEF AnswersInv, AnswerInv, CallInv
<1>2. gw.pc \in Place /\ client.seq \in 0 .. (SeqMod - 1)
  BY DEF GatewayInv, GoodTask, Task, GoodCall
<1>3. seq # client.seq
  <2>1. SeqMod \in Nat /\ SeqMod >= 2
    BY UpgradeAssumption
  <2>2. CASE client.seq + 1 < SeqMod
    BY <1>2, <2>1, <2>2
  <2>3. CASE client.seq + 1 = SeqMod
    BY <1>2, <2>1, <2>3
  <2> QED
    BY <1>2, <2>1, <2>2, <2>3
<1> HIDE DEF seq
<1>4. \A j \in DOMAIN f : f[j].seq # seq
  BY <1>1, <1>3
<1>5. h.pc = "erase" => \A j \in DOMAIN f : f[j].kind # "HELLO"
  <2>1. h.pc = "erase" => gw.pc = "check"
    BY DEF AfterAnswer, AfterFailure, LoopPlace
  <2>2. gw.pc = "check" => client.req.kind # "HELLO"
    BY <1>1 DEF Kind
  <2> QED
    BY <1>1, <2>1, <2>2
<1>6. MayErase =>
        /\ h.pc \in {"poll", "abort", "idle"}
        /\ \A j \in DOMAIN f : f[j].kind # "HELLO"
  <2>1. MayErase => client.req.kind = "ERASE" /\ gw.pc = "erase"
    BY <1>1, <1>2 DEF Kind, Place
  <2> QED
    BY <1>1, <2>1 DEF AfterAnswer
<1>7. Calls(h, seq)
  BY DEF seq
<1> QED
  BY <1>4, <1>5, <1>6, <1>7, CallKeeps

\* What an attempt that failed is followed by.
LEMMA AttemptFailsAnswers ==
  ASSUME GatewayInv, GatewayInv', LineInv, AnswersInv, client.waiting,
         NEW error, AttemptFails(error), reps' = <<>>, UNCHANGED <<node, reqs, serving>>
  PROVE  AnswersInv'
<1>1. /\ client.req # NoRequest /\ gw.pc # "idle" /\ gw \in GoodTask
      /\ client.seq \in 0 .. (SeqMod - 1)
      /\ gw.pc \in Sessionless => gw.session = 0
  BY DEF GatewayInv, GoodCall, AnswersInv, CallInv
<1>2. CASE client.left > 0
  <2>1. gw' = gw /\ client' = [client EXCEPT !.waiting = FALSE]
    BY <1>2 DEF AttemptFails
  <2>2. client'.req = client.req /\ client'.seq = client.seq
    BY <2>1 DEF GatewayInv, GoodCall
  <2>3. UNCHANGED <<dev, reqs, serving>>
    BY DEF node
  <2>4. Flight' = Flight /\ (MayErase' <=> MayErase)
    <3>1. Flight' = Flight
      BY <2>3 DEF Flight
    <3>2. Erasing' <=> Erasing
      BY <2>3 DEF Erasing
    <3> QED
      BY <3>1, <3>2 DEF MayErase
  <2>5. ServingInv' /\ CallInv' /\ AnswerInv'
    BY <2>1, <2>2, <2>3 DEF AnswersInv, ServingInv, CallInv, AnswerInv
  <2>6. QueueInv' /\ NumberInv' /\ EraseInv'
    BY <2>1, <2>2, <2>4 DEF AnswersInv, QueueInv, Resembles, NumberInv, EraseInv
  <2> QED
    BY <2>5, <2>6 DEF AnswersInv
<1>3. CASE ~ (client.left > 0)
  <2> DEFINE h == OnFailure(gw, error)
  <2>1. PICK s \in NewSession : Call(h, client.seq, s)
    BY <1>3 DEF AttemptFails
  <2>2. h \in GoodTask /\ AfterFailure(gw, h)
    BY <1>1, FailureTypes, FailureGoes
  <2> HIDE DEF h
  <2>3. h.pc \in Sessionless => h.session = 0
    BY <2>2 DEF AfterFailure
  <2>4. h.pc # "probe"
    BY <2>2 DEF AfterFailure, LoopPlace
  <2>5. Calls(h, client.seq)
    BY <1>1, <2>1, <2>2, <2>3, <2>4 DEF Calls
  <2> QED
    BY <1>1, <2>2, <2>5, NextAfterFailure
<1> QED
  BY <1>2, <1>3

\* The line falls silent after an answer, or after none.
LEMMA AnsweredAnswers ==
  ASSUME GatewayInv, GatewayInv', LineInv, AnswersInv, Answered
  PROVE  AnswersInv'
<1>1. /\ client.waiting /\ reps # <<>> /\ reps' = <<>>
      /\ UNCHANGED <<node, reqs, serving>>
  BY DEF Answered
<1>2. CASE Len(reps) = 1 /\ Fits(Head(reps), client.req)
  <2> DEFINE seq == (client.seq + 1) % SeqMod
             h(s) == IF Decodes(Head(reps)) THEN OnAnswer(gw, Head(reps), s)
                     ELSE OnFailure(gw, "INVALID_RESPONSE")
  <2>1. PICK s \in NewSession : Call(h(s), seq, s)
    BY <1>2 DEF Answered
  <2>2. /\ client.req # NoRequest /\ gw \in GoodTask /\ gw.pc # "idle"
        /\ gw.pc \in Sessionless => gw.session = 0
        /\ client.req.kind = Kind[gw.pc]
        /\ client.seq \in 0 .. (SeqMod - 1) /\ gw.pc \in Place
    BY <1>1 DEF GatewayInv, GoodTask, Task, GoodCall, AnswersInv, CallInv
  <2>3. seq \in 0 .. (SeqMod - 1)
    BY <2>2, UpgradeAssumption
  <2>4. 1 \in DOMAIN reps /\ Head(reps) = reps[1] /\ Head(reps) \in GoodAnswer
    BY <1>1 DEF LineInv
  <2>5. Resembles(reps[1].to)
    BY <1>2, <2>4 DEF Fits, Resembles
  <2>6. h(s) \in GoodTask
    BY <2>2, <2>4, AnswerTypes, FailureTypes DEF NewSession
  <2>7. ~ Decodes(Head(reps)) => gw.pc # "erase"
    BY <1>2, <2>2 DEF Decodes, Fits, Kind
  <2>8. AfterAnswer(gw, h(s)) \/ (AfterFailure(gw, h(s)) /\ gw.pc # "erase")
    BY <2>2, <2>7, AnswerGoes, FailureGoes
  <2> HIDE DEF h, seq
  <2>9. /\ h(s).pc \in Sessionless => h(s).session = 0
        /\ h(s).pc # "probe"
    BY <2>8 DEF AfterAnswer, AfterFailure, LoopPlace
  <2>10. Calls(h(s), seq)
    BY <1>1, <2>1, <2>3, <2>6, <2>9 DEF Calls
  <2> QED
    BY <2>2, <2>4, <2>5, <2>8, <2>10, NextAfterAnswer DEF seq
<1>3. CASE ~ (Len(reps) = 1 /\ Fits(Head(reps), client.req))
  BY <1>1, <1>3, AttemptFailsAnswers DEF Answered
<1> QED
  BY <1>2, <1>3

\* The console starts a task or a probe: the node has nothing left, or it erases.
LEMMA NewTaskAnswers ==
  ASSUME GatewayInv, GatewayInv', LineInv, AnswersInv, StartTask \/ Probe
  PROVE  AnswersInv'
<1> DEFINE f == Flight
<1>1. /\ gw.pc = "idle" /\ NothingComes /\ gw.session = 0 /\ gw \in Task
      /\ client.req = NoRequest /\ ~ client.waiting /\ reps = <<>>
      /\ UNCHANGED <<node, reqs, serving, reps>>
  BY DEF StartTask, Probe, GatewayInv, GoodTask, AnswersInv, CallInv, Sessionless, line
<1>2. PICK h \in GoodTask, s \in NewSession :
        h.pc \in {"find", "probe"} /\ h.session = 0 /\ Call(h, 0, s)
  <2>1. CASE StartTask
    <3>1. PICK s \in NewSession : Call([gw EXCEPT !.pc = "find", !.result = "NONE"], 0, s)
      BY <2>1 DEF StartTask
    <3>2. [gw EXCEPT !.pc = "find", !.result = "NONE"] \in GoodTask
      BY <1>1, NewTaskTypes DEF Sessionless
    <3>3. [gw EXCEPT !.pc = "find", !.result = "NONE"].pc = "find"
            /\ [gw EXCEPT !.pc = "find", !.result = "NONE"].session = 0
      BY <1>1 DEF Task
    <3> QED
      BY <3>1, <3>2, <3>3
  <2>2. CASE Probe
    <3>1. PICK s \in NewSession : Call(GoTo(gw, "probe"), 0, s)
      BY <2>2 DEF Probe
    <3>2. GoTo(gw, "probe") \in GoodTask
      BY <1>1, GoToTypes, Places DEF Sessionless, GatewayInv
    <3>3. GoTo(gw, "probe").pc = "probe" /\ GoTo(gw, "probe").session = 0
      BY <1>1 DEF Task, GoTo
    <3> QED
      BY <3>1, <3>2, <3>3
  <2> QED
    BY <2>1, <2>2
<1>3. Calls(h, 0)
  <2>1. 0 \in 0 .. (SeqMod - 1)
    BY UpgradeAssumption
  <2> QED
    BY <1>1, <1>2, <2>1 DEF Calls
<1>4. Kind[h.pc] = "HELLO" /\ h.pc \in Reused \ {"wait", "verified"} /\ h.pc # "erase"
  BY <1>2 DEF Kind, Reused
<1>5. f = <<>> \/ dev.pc = "erase"
  BY <1>1 DEF NothingComes, Flight
<1>6. /\ \A i \in DOMAIN f :
           f[i].kind = "HELLO" /\ f[i].seq = 0 => f[i] = Bare("HELLO", 0)
      /\ \A i, j \in DOMAIN f :
           i < j /\ f[i].kind = "HELLO" /\ f[i].seq = 0 => f[j] = f[i]
  <2>1. CASE f = <<>>
    <3> HIDE DEF f
    <3> QED
      BY <2>1
  <2>2. CASE dev.pc = "erase"
    <3>1. MayErase
      BY <2>2 DEF MayErase, Erasing
    <3> QED
      BY <3>1 DEF AnswersInv, EraseInv
  <2> QED
    BY <1>5, <2>1, <2>2
<1>7. "HELLO" \in BareKind
  BY DEF BareKind
<1> QED
  BY <1>2, <1>3, <1>4, <1>6, <1>7, CallKeeps

\* A loop that comes round after its time gives the task up; so does a reboot.
LEMMA EndAnswers ==
  ASSUME GatewayInv, GatewayInv', LineInv, AnswersInv, Deadline \/ GatewayReboots
  PROVE  AnswersInv'
<1>1. CASE Deadline
  <2>1. /\ gw.pc \in LoopPlace /\ reps = <<>>
        /\ UNCHANGED <<node, reqs, serving, reps>>
        /\ gw \in GoodTask /\ client.seq \in 0 .. (SeqMod - 1)
        /\ gw \in Task /\ (gw.session \in Session \/ gw.session = 0)
        /\ client.req # NoRequest
    BY <1>1 DEF Deadline, Late, line, GatewayInv, AnswersInv, CallInv, GoodCall,
       GoodTask, Task, LoopPlace
  <2>2. gw.pc \in Sessionless => gw.session = 0
    BY DEF AnswersInv, CallInv
  <2>3. PICK s \in NewSession : Call(Failed(gw), client.seq, s)
    BY <1>1 DEF Deadline
  <2>4. Failed(gw) \in GoodTask
    BY <2>1, FailedTypes
  <2>5. AfterFailure(gw, Failed(gw)) /\ Failed(gw).pc # "probe"
    BY <2>1, <2>2, FailedGoes DEF AfterFailure, Sessionless
  <2>6. Calls(Failed(gw), client.seq)
    BY <2>1, <2>3, <2>4, <2>5 DEF Calls, AfterFailure
  <2> QED
    BY <2>1, <2>5, <2>6, NextAfterFailure
<1>2. CASE GatewayReboots
  <2> DEFINE h == Idle(gw.package, "NONE")
  <2>1. /\ gw' = h /\ client' = NoCall /\ reps' = <<>>
        /\ UNCHANGED <<dev, reqs, serving>> /\ gw'.pc = "idle" /\ gw'.session = 0
    BY <1>2 DEF GatewayReboots, node, Idle
  <2>2. client'.req = NoRequest
    BY <2>1 DEF NoCall
  <2>3. Flight' = Flight /\ (MayErase' <=> MayErase)
    <3>1. Flight' = Flight
      BY <2>1 DEF Flight
    <3>2. Erasing' <=> Erasing
      BY <2>1 DEF Erasing
    <3> QED
      BY <3>1, <3>2 DEF MayErase
  <2>4. ServingInv' /\ CallInv' /\ AnswerInv' /\ QueueInv' /\ NumberInv'
    BY <2>1, <2>2 DEF AnswersInv, ServingInv, CallInv, AnswerInv, QueueInv, NumberInv,
       Reused
  <2>5. EraseInv'
    BY <2>1, <2>3 DEF AnswersInv, EraseInv
  <2> QED
    BY <2>4, <2>5 DEF AnswersInv
<1> QED
  BY <1>1, <1>2

\* Neither `upgrade abort' nor a download makes a call.
LEMMA FlagAnswers ==
  ASSUME GatewayInv, AnswersInv, UserAborts \/ NewPackage \/ UNCHANGED vars
  PROVE  AnswersInv'
<1>1. /\ UNCHANGED <<client, dev, reqs, serving, reps>>
      /\ gw'.pc = gw.pc /\ gw'.session = gw.session
  <2>1. gw \in Task
    BY DEF GatewayInv, GoodTask
  <2> QED
    BY <2>1 DEF UserAborts, NewPackage, vars, node, line, gateway, Task
<1>2. Flight' = Flight /\ (MayErase' <=> MayErase)
  <2>1. Flight' = Flight
    BY <1>1 DEF Flight
  <2>2. Erasing' <=> Erasing
    BY <1>1 DEF Erasing
  <2> QED
    BY <2>1, <2>2 DEF MayErase
<1>3. ServingInv' /\ CallInv'
  BY <1>1 DEF AnswersInv, ServingInv, CallInv
<1>4. QueueInv' /\ NumberInv' /\ EraseInv' /\ AnswerInv'
  BY <1>1, <1>2 DEF AnswersInv, QueueInv, AnswerInv, Resembles, NumberInv, EraseInv
<1> QED
  BY <1>3, <1>4 DEF AnswersInv

-----------------------------------------------------------------------------
\* Every step keeps the queue in order.
LEMMA AnswersStep ==
  ASSUME UpgradeInv, AnswersInv, [Next]_vars
  PROVE  AnswersInv'
<1>1. /\ GatewayInv /\ LineInv /\ Board!TypeInv
      /\ GatewayInv' /\ LineInv' /\ Board!TypeInv'
  BY UpgradeStep DEF UpgradeInv
<1>2. CASE Transmit
  BY <1>1, <1>2, TransmitAnswers
<1>3. CASE Answered
  BY <1>1, <1>3, AnsweredAnswers
<1>4. CASE TimedOut
  <2>1. client.waiting /\ reps' = <<>> /\ UNCHANGED <<node, reqs, serving>>
          /\ AttemptFails("TIMEOUT")
    BY <1>4 DEF TimedOut, line
  <2> QED
    BY <1>1, <2>1, AttemptFailsAnswers
<1>5. CASE Reply
  BY <1>1, <1>5, ReplyAnswers
<1>6. CASE Serve \/ NodeStep \/ NodeReset
  BY <1>1, <1>6, NodeAnswers
<1>7. CASE StartTask \/ Probe
  BY <1>1, <1>7, NewTaskAnswers
<1>8. CASE Deadline \/ GatewayReboots
  BY <1>1, <1>8, EndAnswers
<1>9. CASE UserAborts \/ NewPackage \/ UNCHANGED vars
  BY <1>1, <1>9, FlagAnswers
<1> QED
  BY <1>2, <1>3, <1>4, <1>5, <1>6, <1>7, <1>8, <1>9 DEF Next, ClientRuns, NodeRuns

\* At the start there is no queue, and no call.
LEMMA AnswersInit == Init => AnswersInv
<1> SUFFICES ASSUME Init PROVE AnswersInv
  OBVIOUS
<1>1. /\ gw.pc = "idle" /\ gw.session = 0 /\ client.req = NoRequest /\ ~ client.waiting
      /\ reqs = <<>> /\ serving = NoRequest /\ reps = <<>>
      /\ dev.pc = "idle" /\ dev.deferred # "erase"
  BY DEF Init, Idle, NoCall, Node!Init, Node!Off
<1>2. Flight = <<>> /\ ~ MayErase
  <2>1. Flight = <<>>
    BY <1>1 DEF Flight
  <2> QED
    BY <1>1, <2>1 DEF MayErase, Erasing
<1> QED
  BY <1>1, <1>2
  DEF AnswersInv, ServingInv, CallInv, QueueInv, AnswerInv, NumberInv, EraseInv, Reused

\* The order of the queue holds throughout, whatever is lost, reset or rebooted.
THEOREM AnswersInvariant == Spec => [](UpgradeInv /\ AnswersInv)
<1>1. Init => UpgradeInv /\ AnswersInv
  BY UpgradeInit, AnswersInit
<1>2. (UpgradeInv /\ AnswersInv) /\ [Next]_vars => (UpgradeInv /\ AnswersInv)'
  BY UpgradeStep, AnswersStep
<1> QED
  BY <1>1, <1>2, PTL DEF Spec

\* The answer a call accepts was given to its own request, for any number of
\* attempts and of requests that wait in the node, and two sequence numbers.
THEOREM AnswersAreMatched == Spec => []AnswersMatch
<1>1. UpgradeInv /\ AnswersInv => AnswersMatch
  <2> SUFFICES ASSUME UpgradeInv, AnswersInv, client.waiting, Len(reps) = 1,
                      Fits(Head(reps), client.req)
               PROVE  Head(reps).to = client.req
    BY DEF AnswersMatch
  <2>1. 1 \in DOMAIN reps /\ Head(reps) = reps[1] /\ client.req # NoRequest
    BY DEF UpgradeInv, LineInv, GatewayInv
  <2> QED
    BY <2>1 DEF AnswersInv, AnswerInv, Resembles, Fits
<1> QED
  BY <1>1, AnswersInvariant, PTL
=============================================================================
