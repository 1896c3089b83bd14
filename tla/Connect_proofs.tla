--------------------------- MODULE Connect_proofs ---------------------------
(***************************************************************************)
(* Theorems about how a link comes to be: PunchHandshake and the ladder of *)
(* ConnectLadder.                                                          *)
(***************************************************************************)
EXTENDS PunchHandshake, ConnectLadder, TLAPS

-----------------------------------------------------------------------------
(***************************************************************************)
(* PunchHandshake, for any set of candidate paths.                         *)
(***************************************************************************)

\* What a packet in flight to x tells about its path: its sender's packets
\* get through, and for a pong, x's own do too (a pong answers a ping).
NetInv == \A m \in net : /\ m.path \in open[Other(m.to)]
                         /\ m.kind = "pong" => m.path \in open[m.to]

HandshakeInv == TypeOK /\ NetInv /\ NoOneWayLink

\* The two ends are each other's peer.
LEMMA OtherFacts ==
  \A x \in Ends : Other(x) \in Ends /\ Other(Other(x)) = x
  BY DEF Ends, Other

\* A pong in flight travels a path that is open both ways.
LEMMA PongTwoWay ==
  ASSUME TypeOK, NetInv, NEW m \in net, m.kind = "pong"
  PROVE  m.path \in TwoWay
<1>1. m.to \in Ends BY DEF TypeOK, Packets
<1>2. m.path \in open[Other(m.to)] /\ m.path \in open[m.to] BY DEF NetInv
<1> QED BY <1>1, <1>2 DEF TwoWay, Ends, Other

\* What x sends: well-formed, and on a path its packets get through.
LEMMA SentFacts ==
  ASSUME TypeOK, NEW x \in Ends, NEW k \in {"ping", "pong", "data"}, NEW P \in SUBSET Paths
  PROVE  \A m \in Sent(x, k, P) :
            m \in Packets /\ m.to = Other(x) /\ m.kind = k /\ m.path \in P /\ m.path \in open[x]
  BY OtherFacts DEF Sent, Packets, TypeOK

\* Nothing is in flight at the start.
LEMMA HandshakeInit == Init => HandshakeInv
  BY SilenceAssumption DEF Init, HandshakeInv, TypeOK, NetInv, NoOneWayLink, Ends, SilentCap

\* Sending a ping or a frame anywhere, or an answer where a packet came from,
\* keeps the account of the packets in flight.
LEMMA SendNet ==
  ASSUME HandshakeInv, NEW x \in Ends, NEW k \in {"ping", "pong", "data"},
         NEW P \in SUBSET Paths, k = "pong" => P \subseteq open[Other(x)],
         UNCHANGED open, NEW base \in SUBSET net, net' = base \cup Sent(x, k, P)
  PROVE  net' \subseteq Packets /\ NetInv'
<1> USE DEF HandshakeInv
<1>1. \A m \in Sent(x, k, P) :
            m \in Packets /\ m.to = Other(x) /\ m.kind = k /\ m.path \in P /\ m.path \in open[x]
  BY SentFacts
<1>2. net' \subseteq Packets BY <1>1 DEF TypeOK
<1>3. \A m \in Sent(x, k, P) : /\ m.path \in open[Other(m.to)]
                               /\ m.kind = "pong" => m.path \in open[m.to]
  BY <1>1, OtherFacts
<1>4. NetInv' BY <1>3 DEF NetInv
<1> QED BY <1>2, <1>4

\* A packet lost or read leaves what is said of the others.
LEMMA ShrinkNet ==
  ASSUME HandshakeInv, UNCHANGED open, net' \subseteq net
  PROVE  net' \subseteq Packets /\ NetInv'
  BY DEF HandshakeInv, TypeOK, NetInv

\* A step that leaves `open` alone and brings nobody up keeps NoOneWayLink.
LEMMA NobodyUp ==
  ASSUME HandshakeInv, UNCHANGED open, \A x \in Ends : pc'[x] = "up" => pc[x] = "up"
  PROVE  NoOneWayLink'
  BY DEF HandshakeInv, NoOneWayLink, TwoWay

\* Reading a packet keeps the invariant, in every phase.
LEMMA ReceiveStep ==
  ASSUME HandshakeInv, NEW m \in net, Receive(m)
  PROVE  HandshakeInv'
<1> DEFINE x == m.to
<1> USE DEF HandshakeInv
<1>1. x \in Ends /\ m.path \in Paths /\ m.kind \in {"ping", "pong", "data"}
      /\ m.path \in open[Other(x)] /\ UNCHANGED open
  BY DEF TypeOK, Packets, NetInv, Receive, PunchReceive, ConfirmReceive, DriverReceive
<1>a. {m.path} \in SUBSET Paths /\ {m.path} \subseteq open[Other(x)] /\ net \ {m} \in SUBSET net
      /\ 0 \in 0 .. SilentCap
  BY <1>1, SilenceAssumption DEF SilentCap
<1>b. pc \in [Ends -> {"punch", "confirm", "up", "gone"}] /\ addr \in [Ends -> Paths \cup {None}]
      /\ silent \in [Ends -> 0 .. SilentCap]
  BY DEF TypeOK
<1> HIDE DEF x
<1>2. CASE PunchReceive(x, m)
  <2>1. net' \subseteq Packets /\ NetInv'
    <3>1. CASE m.kind = "ping"
      <4>1. net' = (net \ {m}) \cup Sent(x, "ping", {m.path}) BY <1>2, <3>1 DEF PunchReceive
      <4> QED BY <1>1, <1>a, <4>1, SendNet
    <3>2. CASE m.kind # "ping"
      <4>1. net' \subseteq net BY <1>2, <3>2 DEF PunchReceive
      <4> QED BY <1>1, <4>1, ShrinkNet
    <3> QED BY <3>1, <3>2
  <2>2. \A y \in Ends : pc'[y] = "up" => pc[y] = "up" BY <1>b, <1>2 DEF PunchReceive, Goto
  <2>3. NoOneWayLink' BY <1>1, <2>2, NobodyUp
  <2>4. TypeOK' BY <1>1, <1>b, <1>2, <2>1 DEF TypeOK, PunchReceive, Goto, Lock
  <2> QED BY <2>1, <2>3, <2>4
<1>3. CASE ConfirmReceive(x, m)
  <2>1. net' \subseteq Packets /\ NetInv'
    <3>1. CASE m.kind = "ping"
      <4>1. net' = (net \ {m}) \cup Sent(x, "pong", {m.path}) BY <1>3, <3>1 DEF ConfirmReceive
      <4> QED BY <1>1, <1>a, <4>1, SendNet
    <3>2. CASE m.kind # "ping"
      <4>1. net' \subseteq net BY <1>3, <3>2 DEF ConfirmReceive
      <4> QED BY <1>1, <4>1, ShrinkNet
    <3> QED BY <3>1, <3>2
  <2>2. NoOneWayLink'
    <3>1. CASE m.kind = "pong"
      <4>1. TwoWay # {} BY <3>1, PongTwoWay
      <4> QED BY <1>1, <4>1 DEF NoOneWayLink, TwoWay
    <3>2. CASE m.kind # "pong"
      <4>1. UNCHANGED pc BY <1>3, <3>2 DEF ConfirmReceive
      <4> QED BY <1>1, <4>1, NobodyUp
    <3> QED BY <3>1, <3>2
  <2>3. TypeOK' BY <1>1, <1>a, <1>b, <1>3, <2>1 DEF TypeOK, ConfirmReceive, Goto, Lock
  <2> QED BY <2>1, <2>2, <2>3
<1>4. CASE DriverReceive(x, m)
  <2>1. net' \subseteq Packets /\ NetInv'
    <3>1. CASE m.kind = "ping"
      <4>1. net' = (net \ {m}) \cup Sent(x, "pong", {m.path}) BY <1>4, <3>1 DEF DriverReceive
      <4> QED BY <1>1, <1>a, <4>1, SendNet
    <3>2. CASE m.kind # "ping"
      <4>1. net' \subseteq net BY <1>4, <3>2 DEF DriverReceive
      <4> QED BY <1>1, <4>1, ShrinkNet
    <3> QED BY <3>1, <3>2
  <2>2. UNCHANGED pc BY <1>4 DEF DriverReceive
  <2>3. NoOneWayLink' BY <1>1, <2>2, NobodyUp
  <2>4. TypeOK' BY <1>1, <1>a, <1>b, <1>4, <2>1 DEF TypeOK, DriverReceive, Lock
  <2> QED BY <2>1, <2>3, <2>4
<1> QED BY <1>2, <1>3, <1>4 DEF Receive, x

\* Every step does.
LEMMA HandshakeStep == HandshakeInv /\ [Next]_vars => HandshakeInv'
<1> SUFFICES ASSUME HandshakeInv, [Next]_vars PROVE HandshakeInv' OBVIOUS
<1> USE DEF HandshakeInv
<1>1. ASSUME NEW x \in Ends, Probe(x) \/ ConfirmPing(x) \/ Keepalive(x) \/ SendFrame(x)
      PROVE  HandshakeInv'
  <2>0. UNCHANGED <<open, pc, addr, silent>>
    BY <1>1 DEF Probe, ConfirmPing, Keepalive, SendFrame
  <2>1. \E P \in SUBSET Paths, k \in {"ping", "data"} : net' = net \cup Sent(x, k, P)
    <3>1. pc[x] \in {"confirm", "up"} => {addr[x]} \in SUBSET Paths BY DEF TypeOK
    <3>2. CASE Probe(x) BY <3>2 DEF Probe
    <3>3. CASE ConfirmPing(x) BY <3>1, <3>3 DEF ConfirmPing
    <3>4. CASE Keepalive(x) BY <3>1, <3>4 DEF Keepalive
    <3>5. CASE SendFrame(x) BY <3>1, <3>5 DEF SendFrame
    <3> QED BY <1>1, <3>2, <3>3, <3>4, <3>5
  <2>2. net' \subseteq Packets /\ NetInv'
    <3> PICK P \in SUBSET Paths, k \in {"ping", "data"} : net' = net \cup Sent(x, k, P) BY <2>1
    <3> QED BY <2>0, SendNet
  <2>3. NoOneWayLink' BY <2>0, NobodyUp
  <2>4. TypeOK' BY <2>0, <2>2 DEF TypeOK
  <2> QED BY <2>2, <2>3, <2>4
<1>2. ASSUME NEW x \in Ends, Expire(x) \/ Evict(x) \/ Leave(x) PROVE HandshakeInv'
  <2>0. UNCHANGED <<open, addr, net, silent>> /\ pc' = [pc EXCEPT ![x] = "gone"]
    BY <1>2 DEF Expire, Evict, Leave, Goto
  <2>1. net' \subseteq Packets /\ NetInv' BY <2>0, ShrinkNet
  <2>2. NoOneWayLink' BY <2>0, NobodyUp DEF TypeOK
  <2>3. TypeOK' BY <2>0 DEF TypeOK
  <2> QED BY <2>1, <2>2, <2>3
<1>3. ASSUME NEW m \in net, Receive(m) PROVE HandshakeInv'
  BY <1>3, ReceiveStep
<1>4. ASSUME NEW m \in net, Lose(m) PROVE HandshakeInv'
  <2>0. UNCHANGED <<open, pc, addr, silent>> /\ net' \subseteq net BY <1>4 DEF Lose
  <2>1. net' \subseteq Packets /\ NetInv' BY <2>0, ShrinkNet
  <2>2. NoOneWayLink' BY <2>0, NobodyUp
  <2>3. TypeOK' BY <2>0, <2>1 DEF TypeOK
  <2> QED BY <2>1, <2>2, <2>3
<1>5. CASE Tick
  <2>0. UNCHANGED <<open, pc, addr, net>> BY <1>5 DEF Tick
  <2>1. silent' \in [Ends -> 0 .. SilentCap]
    BY <1>5, SilenceAssumption DEF Tick, TypeOK, SilentCap
  <2>2. NetInv' /\ NoOneWayLink' BY <2>0 DEF NetInv, NoOneWayLink, TwoWay
  <2>3. TypeOK' BY <2>0, <2>1 DEF TypeOK
  <2> QED BY <2>2, <2>3
<1>6. CASE UNCHANGED vars
  BY <1>6 DEF vars, TypeOK, NetInv, NoOneWayLink, TwoWay
<1> QED BY <1>1, <1>2, <1>3, <1>4, <1>5, <1>6 DEF Next

\* So it holds in every reachable state.
LEMMA HandshakeInvariant == Spec => []HandshakeInv
  BY HandshakeInit, HandshakeStep, PTL DEF Spec

\* A device never declares a link up unless some path works both ways,
\* whatever the candidates and however packets are lost or delayed.
THEOREM NoOneWay == Spec => []NoOneWayLink
<1>1. HandshakeInv => NoOneWayLink BY DEF HandshakeInv
<1> QED BY <1>1, HandshakeInvariant, PTL

\* The address a link comes up on is one of those paths.
THEOREM ProvenPath == Spec => UpOnProvenPath
<1>1. HandshakeInv /\ [Next]_vars =>
        [\A x \in Ends : pc[x] # "up" /\ pc'[x] = "up" => addr'[x] \in TwoWay]_vars
  <2> SUFFICES ASSUME HandshakeInv, [Next]_vars, NEW x \in Ends, pc[x] # "up", pc'[x] = "up"
               PROVE  addr'[x] \in TwoWay
    OBVIOUS
  <2> USE DEF HandshakeInv
  <2>0. pc \in [Ends -> {"punch", "confirm", "up", "gone"}] /\ addr \in [Ends -> Paths \cup {None}]
    BY DEF TypeOK
  <2>1. ASSUME NEW y \in Ends, Probe(y) \/ ConfirmPing(y) \/ Keepalive(y) \/ SendFrame(y)
                               \/ Expire(y) \/ Evict(y) \/ Leave(y)
        PROVE  FALSE
    BY <2>0, <2>1 DEF Probe, ConfirmPing, Keepalive, SendFrame, Expire, Evict, Leave, Goto
  <2>2. ASSUME NEW m \in net, Receive(m) PROVE addr'[x] \in TwoWay
    <3>1. m.to \in Ends BY DEF TypeOK, Packets
    <3>2. ~PunchReceive(m.to, m) /\ ~DriverReceive(m.to, m)
      BY <2>0, <3>1 DEF PunchReceive, DriverReceive, Goto
    <3>3. ConfirmReceive(m.to, m) BY <2>2, <3>2 DEF Receive
    <3>4. m.kind = "pong" /\ x = m.to /\ addr'[x] = m.path
      BY <2>0, <3>1, <3>3 DEF ConfirmReceive, Goto, Lock
    <3> QED BY <3>4, PongTwoWay
  <2>3. ~Tick /\ ~UNCHANGED vars /\ \A m \in net : ~Lose(m)
    BY DEF Tick, vars, Lose
  <2> QED BY <2>1, <2>2, <2>3 DEF Next
<1> QED BY <1>1, HandshakeInvariant, PTL DEF Spec, UpOnProvenPath

\* States, locked addresses, packets in flight and silences keep their types,
\* for any candidate paths: in particular a device past hole_punch has locked
\* onto one of them.
THEOREM HandshakeTypes == Spec => []TypeOK
<1>1. HandshakeInv => TypeOK BY DEF HandshakeInv
<1> QED BY <1>1, HandshakeInvariant, PTL

-----------------------------------------------------------------------------
(***************************************************************************)
(* ConnectLadder, for any number of connect() calls on either device.      *)
(***************************************************************************)

\* There are two devices, and a run's negotiation belongs to the one it started on.
LEMMA DeviceFacts ==
  /\ \A d \in Devices : PeerOf(d) \in Devices /\ PeerOf(PeerOf(d)) = d
  /\ \A r : At(r) \in Devices
  /\ \A s : Owner(s) \in Devices
  /\ \A r, k : Owner(Sid(r, k)) = At(r) /\ Sid(r, k).run = r /\ Sid(r, k).rung = k
  /\ \A r \in Runs, k \in Rungs : Sid(r, k) \in Sids
  /\ \A k \in Rungs : Above(k) \in Rungs \cup {"failed"}
  BY DEF Devices, PeerOf, At, Owner, Sid, Sids, Rungs, Above

\* The fields of the message Msg builds.
LEMMA MsgFacts ==
  \A k, d, s : Msg(k, d, s).kind = k /\ Msg(k, d, s).to = d /\ Msg(k, d, s).sid = s
  BY DEF Msg

\* Msg builds a message of the network, for a known device and negotiation.
LEMMA MsgType ==
  \A k \in {"ping", "pong", "start_ws", "ws_ready", "offer", "answer"}, d \in Devices, s \in Sids :
     Msg(k, d, s) \in Messages
  BY DEF Msg, Messages

\* The fields of the responder record Thread builds.
LEMMA ThreadFacts ==
  \A d, s, st : Thread(d, s, st).dev = d /\ Thread(d, s, st).sid = s /\ Thread(d, s, st).st = st
  BY DEF Thread

\* A ladder is in the middle of a step only on a rung that has that step.
StepOK == \A r \in Runs : /\ step[r] # "try" => rung[r] \in Rungs
                          /\ step[r] \in {"offer", "recv", "got", "none"} => rung[r] \in {"punch", "rtc"}

\* The engine starts with empty maps of waiters and no ladder running.
LEMMA TypeInit == LadderInit => LadderTypeOK /\ StepOK
  BY DEF LadderInit, LadderTypeOK, StepOK, Steps, Devices

\* A step of a ladder's own thread keeps rung and step in their types.
LEMMA GotoType ==
  ASSUME LadderTypeOK, StepOK, NEW r \in Runs, NEW k \in Rungs \cup {"start", "connected", "failed"},
         NEW st \in Steps, ClimbTo(r, k, st),
         st # "try" => k \in Rungs, st \in {"offer", "recv", "got", "none"} => k \in {"punch", "rtc"}
  PROVE  /\ rung' \in [Runs -> Rungs \cup {"idle", "start", "connected", "failed"}]
         /\ step' \in [Runs -> Steps]
         /\ StepOK'
  BY DEF LadderTypeOK, StepOK, ClimbTo

\* Every step of run_connect_ladder keeps the types.
LEMMA LadderType ==
  ASSUME LadderTypeOK, StepOK, NEW r \in Runs, Connect(r) \/ Ladder(r)
  PROVE  /\ rung' \in [Runs -> Rungs \cup {"idle", "start", "connected", "failed"}]
         /\ step' \in [Runs -> Steps]
         /\ StepOK'
<1>0. "try" \in Steps /\ "offer" \in Steps /\ "recv" \in Steps /\ "got" \in Steps
      /\ "none" \in Steps /\ "wait" \in Steps
  BY DEF Steps
<1>1. "udp" \in Rungs /\ "ws" \in Rungs /\ "sig" \in Rungs /\ "punch" \in Rungs /\ "rtc" \in Rungs
  BY DEF Rungs
<1> DEFINE Goal == /\ rung' \in [Runs -> Rungs \cup {"idle", "start", "connected", "failed"}]
                   /\ step' \in [Runs -> Steps]
                   /\ StepOK'
<1>2. ASSUME rung[r] \in Rungs, Escalate(r) PROVE Goal
  <2>1. Above(rung[r]) \in Rungs \cup {"failed"} BY <1>2, DeviceFacts
  <2> QED BY <1>0, <1>2, <2>1, GotoType DEF Escalate
<1>3. ASSUME rung[r] \in {"punch", "rtc"},
             NEW st \in {"offer", "recv", "got", "none", "wait"}, ClimbTo(r, rung[r], st)
      PROVE  Goal
  BY <1>0, <1>1, <1>3, GotoType
<1>4. CASE Connect(r) BY <1>0, <1>4, GotoType DEF Connect
<1>5. CASE Start(r) BY <1>0, <1>1, <1>5, GotoType DEF Start
<1>6. CASE Skip(r) BY <1>2, <1>6 DEF Skip
<1>7. CASE Ping(r) \/ Dial(r) \/ StartWs(r)
  BY <1>0, <1>1, <1>7, GotoType DEF Ping, Dial, StartWs
<1>8. CASE Prepare(r) BY <1>3, <1>8 DEF Prepare
<1>9. CASE Offer(r) \/ Recv(r)
  <2>1. rung[r] \in {"punch", "rtc"} BY <1>9 DEF Offer, Recv, StepOK
  <2> QED BY <1>3, <1>9, <2>1 DEF Offer, Recv
<1>10. CASE Abandon(r) \/ Proceed(r)
  <2>1. rung[r] \in {"punch", "rtc"} /\ rung[r] \in Rungs
    BY <1>1, <1>10 DEF Abandon, Proceed, StepOK
  <2> QED BY <1>2, <1>3, <1>10, <2>1 DEF Abandon, Proceed
<1>11. CASE WaitLive(r)
  <2>1. rung[r] \in Rungs BY <1>11 DEF WaitLive, StepOK
  <2> QED BY <1>0, <1>2, <1>11, <2>1, GotoType DEF WaitLive
<1> QED BY <1>4, <1>5, <1>6, <1>7, <1>8, <1>9, <1>10, <1>11 DEF Ladder

\* So does every other step: deliveries, responder threads, links.
LEMMA TypeStep == LadderTypeOK /\ StepOK /\ [LadderNext]_(ladderVars) => LadderTypeOK' /\ StepOK'
<1> SUFFICES ASSUME LadderTypeOK, StepOK, [LadderNext]_(ladderVars) PROVE LadderTypeOK' /\ StepOK' OBVIOUS
<1>1. ASSUME NEW r \in Runs, Connect(r) \/ Ladder(r) PROVE LadderTypeOK' /\ StepOK'
  <2>1. /\ rung' \in [Runs -> Rungs \cup {"idle", "start", "connected", "failed"}]
        /\ step' \in [Runs -> Steps]
        /\ StepOK'
    BY <1>1, LadderType
  <2>2. rung[r] \in Rungs => Mine(r) \in Sids BY DeviceFacts DEF Mine
  <2>3. step[r] # "try" => Mine(r) \in Sids BY <2>2 DEF StepOK
  <2>4. At(r) \in Devices /\ PeerOf(At(r)) \in Devices BY DeviceFacts
  <2>5. waiters' \subseteq Sids /\ handing' \subseteq Sids /\ inbox' \subseteq Sids
    BY <1>1, <2>2, <2>3 DEF LadderTypeOK, Connect, Ladder, Start, Skip, Ping, Dial, StartWs, Prepare,
       Offer, Recv, Abandon, Proceed, WaitLive
  <2>6. UNCHANGED <<threads, live>>
    BY <1>1 DEF Connect, Ladder, Start, Skip, Ping, Dial, StartWs, Prepare,
       Offer, Recv, Abandon, Proceed, WaitLive
  <2>7. begun' \subseteq Devices \X Sids
    <3>1. CASE Dial(r)
      <4>1. Mine(r) \in Sids BY <2>2, <3>1 DEF Dial, On, Rungs
      <4> QED BY <3>1, <4>1 DEF Dial, StartLink, LadderTypeOK
    <3>2. CASE Proceed(r)
      <4>1. Mine(r) \in Sids BY <2>3, <3>2 DEF Proceed
      <4> QED BY <2>4, <3>2, <4>1 DEF Proceed, StartLink, LadderTypeOK
    <3>3. CASE UNCHANGED begun BY <3>3 DEF LadderTypeOK
    <3> QED BY <1>1, <3>1, <3>2, <3>3 DEF Connect, Ladder, Start, Skip, Ping, StartWs, Prepare,
       Offer, Recv, Abandon, WaitLive
  <2>8. signals' \subseteq Messages
    <3>1. ASSUME Mine(r) \in Sids, NEW k \in {"ping", "start_ws", "offer"},
                 signals' = signals \cup {Msg(k, PeerOf(At(r)), Mine(r))}
          PROVE  signals' \subseteq Messages
      BY <2>4, <3>1, MsgType DEF LadderTypeOK
    <3>2. CASE Ping(r) \/ StartWs(r) BY <2>2, <3>1, <3>2 DEF Ping, StartWs, On, Rungs
    <3>3. CASE Offer(r) BY <2>3, <3>1, <3>3 DEF Offer, LadderTypeOK
    <3>4. CASE UNCHANGED signals BY <3>4 DEF LadderTypeOK
    <3> QED BY <1>1, <3>2, <3>3, <3>4 DEF Connect, Ladder, Start, Skip, Dial, Prepare,
       Recv, Abandon, Proceed, WaitLive
  <2> QED BY <2>1, <2>5, <2>6, <2>7, <2>8 DEF LadderTypeOK
<1>2. ASSUME NEW m \in signals, Deliver(m) PROVE LadderTypeOK' /\ StepOK'
  <2>1. m.to \in Devices /\ m.sid \in Sids /\ PeerOf(m.to) \in Devices
    BY DeviceFacts DEF LadderTypeOK, Messages
  <2>2. Msg("pong", PeerOf(m.to), m.sid) \in Messages /\ Msg("ws_ready", PeerOf(m.to), m.sid) \in Messages
    BY <2>1, MsgType
  <2>3. Thread(m.to, m.sid, "gather") \in [dev : Devices, sid : Sids, st : {"gather", "punch", "reply"}]
    BY <2>1 DEF Thread
  <2>4. UNCHANGED <<rung, step, inbox>>
    BY <1>2 DEF Deliver, OnPing, OnStartWs, OnWsReady, OnOffer, OnAnswer, ladder
  <2>5. StepOK' BY <2>4 DEF StepOK
  <2>6. signals' \subseteq Messages
    BY <1>2, <2>2 DEF LadderTypeOK, Deliver, OnPing, OnStartWs, OnWsReady, OnOffer, OnAnswer
  <2>7. waiters' \subseteq Sids /\ handing' \subseteq Sids
    BY <1>2, <2>1 DEF LadderTypeOK, Deliver, OnPing, OnStartWs, OnWsReady, OnOffer, OnAnswer
  <2>8. threads' \subseteq [dev : Devices, sid : Sids, st : {"gather", "punch", "reply"}]
    BY <1>2, <2>3 DEF LadderTypeOK, Deliver, OnPing, OnStartWs, OnWsReady, OnOffer, OnAnswer
  <2>9. begun' \subseteq Devices \X Sids
    BY <1>2, <2>1 DEF LadderTypeOK, Deliver, OnPing, OnStartWs, OnWsReady, OnOffer, OnAnswer, StartLink
  <2>10. live' \in [Devices -> BOOLEAN]
    BY <1>2, <2>1 DEF LadderTypeOK, Deliver, OnPing, OnStartWs, OnWsReady, OnOffer, OnAnswer
  <2> QED BY <2>4, <2>5, <2>6, <2>7, <2>8, <2>9, <2>10 DEF LadderTypeOK
<1>3. ASSUME NEW s \in handing, HandOver(s) PROVE LadderTypeOK' /\ StepOK'
  BY <1>3 DEF LadderTypeOK, StepOK, HandOver, ladder
<1>4. ASSUME NEW th \in threads, Respond(th) PROVE LadderTypeOK' /\ StepOK'
  <2>1. th.dev \in Devices /\ th.sid \in Sids /\ PeerOf(th.dev) \in Devices
    BY DeviceFacts DEF LadderTypeOK
  <2>2. Msg("answer", PeerOf(th.dev), th.sid) \in Messages BY <2>1, MsgType
  <2>3. Thread(th.dev, th.sid, "punch") \in [dev : Devices, sid : Sids, st : {"gather", "punch", "reply"}]
        /\ Thread(th.dev, th.sid, "reply") \in [dev : Devices, sid : Sids, st : {"gather", "punch", "reply"}]
    BY <2>1 DEF Thread
  <2>4. UNCHANGED <<rung, step, waiters, handing, inbox, live>>
    BY <1>4 DEF Respond, PunchAnswer, PunchRespond, RtcRespond, RtcAnswer, Fizzle, ladder
  <2>5. StepOK' BY <2>4 DEF StepOK
  <2>6. signals' \subseteq Messages
    BY <1>4, <2>2 DEF LadderTypeOK, Respond, PunchAnswer, PunchRespond, RtcRespond, RtcAnswer, Fizzle
  <2>7. threads' \subseteq [dev : Devices, sid : Sids, st : {"gather", "punch", "reply"}]
    BY <1>4, <2>3 DEF LadderTypeOK, Respond, PunchAnswer, PunchRespond, RtcRespond, RtcAnswer, Fizzle, Replace
  <2>8. begun' \subseteq Devices \X Sids
    BY <1>4, <2>1 DEF LadderTypeOK, Respond, PunchAnswer, PunchRespond, RtcRespond, RtcAnswer, Fizzle, StartLink
  <2> QED BY <2>4, <2>5, <2>6, <2>7, <2>8 DEF LadderTypeOK
<1>5. ASSUME NEW d \in Devices, LinkLost(d) \/ \E s \in Sids : LinkUp(d, s) PROVE LadderTypeOK' /\ StepOK'
  BY <1>5 DEF LadderTypeOK, StepOK, LinkLost, LinkUp, ladder
<1>6. CASE UNCHANGED ladderVars BY <1>6 DEF ladderVars, LadderTypeOK, StepOK
<1> QED BY <1>1, <1>2, <1>3, <1>4, <1>5, <1>6 DEF LadderNext

-----------------------------------------------------------------------------
\* Types and steps fit in every reachable state.
LEMMA TypeInvariant == LadderSpec => [](LadderTypeOK /\ StepOK)
  BY TypeInit, TypeStep, PTL DEF LadderSpec

\* No step leaves a waiter behind whose ladder is not waiting.
LEMMA WaiterStep == LadderTypeOK /\ StepOK /\ NoStrayWaiter /\ [LadderNext]_(ladderVars) => NoStrayWaiter'
<1> SUFFICES ASSUME LadderTypeOK, StepOK, NoStrayWaiter, [LadderNext]_(ladderVars) PROVE NoStrayWaiter' OBVIOUS
<1>1. ASSUME NEW r \in Runs, Connect(r) \/ Ladder(r) PROVE NoStrayWaiter'
  <2> SUFFICES ASSUME NEW s \in waiters'
               PROVE  rung'[s.run] = s.rung /\ step'[s.run] \in {"offer", "recv", "got", "none"}
    BY DEF NoStrayWaiter
  <2>0. \A q \in Runs \ {r} : rung'[q] = rung[q] /\ step'[q] = step[q]
    BY <1>1 DEF LadderTypeOK, Connect, Ladder, Start, Skip, Ping, Dial, StartWs, Prepare,
       Offer, Recv, Abandon, Proceed, WaitLive, ClimbTo, Escalate
  <2>1. CASE s = Mine(r) /\ Prepare(r)
    <3>1. s.run = r /\ s.rung = rung[r] BY <2>1, DeviceFacts DEF Mine
    <3> QED BY <2>1, <3>1 DEF Prepare, ClimbTo, LadderTypeOK
  <2>2. CASE ~(s = Mine(r) /\ Prepare(r))
    <3>1. s \in waiters
      BY <1>1, <2>2 DEF Connect, Ladder, Start, Skip, Ping, Dial, StartWs, Prepare,
         Offer, Recv, Abandon, Proceed, WaitLive
    <3>2. s \in Sids /\ rung[s.run] = s.rung /\ step[s.run] \in {"offer", "recv", "got", "none"}
      BY <3>1 DEF NoStrayWaiter, LadderTypeOK
    <3>3. s.run \in Runs BY <3>2 DEF Sids
    <3>4. CASE s.run # r BY <2>0, <3>2, <3>3, <3>4
    <3>5. CASE s.run = r
      <4>1. s = Mine(r) BY <3>2, <3>5 DEF Sids, Mine, Sid
      <4>2. step[r] \in {"offer", "recv", "got", "none"} /\ rung[r] \in {"punch", "rtc"}
        BY <3>2, <3>5 DEF StepOK
      <4>3. ~Abandon(r) /\ ~Proceed(r) BY <4>1 DEF Abandon, Proceed
      <4>4. Offer(r) \/ Recv(r)
        BY <1>1, <4>2, <4>3 DEF Connect, Ladder, Start, Skip, Ping, Dial, StartWs, Prepare, WaitLive, On
      <4> QED BY <3>2, <3>5, <4>4 DEF Offer, Recv, ClimbTo, LadderTypeOK
    <3> QED BY <3>4, <3>5
  <2> QED BY <2>1, <2>2
<1>2. ASSUME NEW m \in signals, Deliver(m) PROVE NoStrayWaiter'
  BY <1>2 DEF NoStrayWaiter, Deliver, OnPing, OnStartWs, OnWsReady, OnOffer, OnAnswer, ladder
<1>3. ASSUME UNCHANGED <<rung, step, waiters>> PROVE NoStrayWaiter'
  BY <1>3 DEF NoStrayWaiter
<1>4. ASSUME NEW s \in handing, HandOver(s) PROVE NoStrayWaiter'
  BY <1>3, <1>4 DEF HandOver, ladder
<1>5. ASSUME NEW th \in threads, Respond(th) PROVE NoStrayWaiter'
  BY <1>3, <1>5 DEF Respond, PunchAnswer, PunchRespond, RtcRespond, RtcAnswer, Fizzle, ladder
<1>6. ASSUME NEW d \in Devices, LinkLost(d) \/ \E s \in Sids : LinkUp(d, s) PROVE NoStrayWaiter'
  BY <1>3, <1>6 DEF LinkLost, LinkUp, ladder
<1>7. CASE UNCHANGED ladderVars BY <1>3, <1>7 DEF ladderVars
<1> QED BY <1>1, <1>2, <1>4, <1>5, <1>6, <1>7 DEF LadderNext

\* However answers, timeouts and failures interleave, and however many
\* ladders run, punch_waiters and rtc_waiters hold no abandoned entry.
THEOREM WaitersOwned == LadderSpec => []NoStrayWaiter
<1>1. LadderInit => NoStrayWaiter BY DEF LadderInit, NoStrayWaiter
<1> QED BY <1>1, WaiterStep, TypeInvariant, PTL DEF LadderSpec

-----------------------------------------------------------------------------
(***************************************************************************)
(* AnsweredOffer.  A message says what its sender has done: which rung its *)
(* negotiation is about and, for an answer to an SDP offer, that the       *)
(* responder's driver runs.                                                *)
(***************************************************************************)
Answer(s) == Msg("answer", Owner(s), s)
Driving(s) == <<PeerOf(Owner(s)), s>> \in begun

MessageOK(m) ==
    /\ m.kind \in {"ping", "pong"} => m.sid.rung = "udp"
    /\ m.kind \in {"start_ws", "ws_ready"} => m.sid.rung = "sig"
    /\ m.kind \in {"offer", "answer"} => m.sid.rung \in {"punch", "rtc"}
    /\ m.kind = "offer" => m.to = PeerOf(Owner(m.sid))
    /\ m.kind = "answer" => m.to = Owner(m.sid) /\ (m.sid.rung = "rtc" => Driving(m.sid))

ThreadOK(th) ==
    /\ th.dev = PeerOf(Owner(th.sid))
    /\ th.sid.rung \in {"punch", "rtc"}
    /\ th.st = "punch" => th.sid.rung = "punch"
    /\ th.st = "reply" => Driving(th.sid)

AnswerInv ==
    /\ \A m \in signals : MessageOK(m)
    /\ \A th \in threads : ThreadOK(th)
    /\ \A s \in handing \cup inbox : Answer(s) \in signals
    /\ \A r \in Runs : step[r] = "got" => Mine(r) \in inbox
    /\ \A s \in Sids : s.rung = "rtc" /\ <<Owner(s), s>> \in begun => Driving(s)

\* No answer is anywhere when the engine starts.
LEMMA AnswerInit == LadderInit => AnswerInv
  BY DEF LadderInit, AnswerInv

\* Nothing a message or a thread vouches for is ever taken back.
LEMMA Vouched ==
  ASSUME begun \subseteq begun'
  PROVE  /\ \A m : MessageOK(m) => MessageOK(m)'
         /\ \A th : ThreadOK(th) => ThreadOK(th)'
  BY DEF MessageOK, ThreadOK, Driving

\* A ladder's step: what it sends, receives and starts.
LEMMA AnswerLadder ==
  ASSUME LadderTypeOK, StepOK, AnswerInv, NEW r \in Runs, Connect(r) \/ Ladder(r)
  PROVE  AnswerInv'
<1> USE DEF AnswerInv
<1>0. begun \subseteq begun' /\ signals \subseteq signals' /\ UNCHANGED <<handing, inbox, threads>>
  BY DEF Connect, Ladder, Start, Skip, Ping, Dial, StartWs, Prepare,
     Offer, Recv, Abandon, Proceed, WaitLive, StartLink
<1>1. Mine(r).rung = rung[r] /\ Owner(Mine(r)) = At(r) BY DeviceFacts DEF Mine
<1>2. \A m \in signals' : MessageOK(m)'
  <2>1. \A m \in signals : MessageOK(m)' BY <1>0, Vouched
  <2>2. ASSUME NEW k \in {"ping", "start_ws", "offer"},
               signals' = signals \cup {Msg(k, PeerOf(At(r)), Mine(r))},
               k = "ping" => rung[r] = "udp", k = "start_ws" => rung[r] = "sig",
               k = "offer" => rung[r] \in {"punch", "rtc"}
        PROVE  \A m \in signals' : MessageOK(m)'
    <3>1. PICK n : n = Msg(k, PeerOf(At(r)), Mine(r)) OBVIOUS
    <3>2. MessageOK(n)' BY <1>1, <2>2, <3>1, MsgFacts DEF MessageOK
    <3>3. signals' = signals \cup {n} BY <2>2, <3>1
    <3> QED BY <2>1, <3>2, <3>3
  <2>3. CASE Ping(r) \/ StartWs(r) BY <2>2, <2>3 DEF Ping, StartWs, On
  <2>4. CASE Offer(r)
    <3>1. rung[r] \in {"punch", "rtc"} BY <2>4 DEF Offer, StepOK
    <3> QED BY <2>1, <2>2, <2>4, <3>1 DEF Offer
  <2>5. CASE UNCHANGED signals BY <2>1, <2>5
  <2> QED BY <2>3, <2>4, <2>5 DEF Connect, Ladder, Start, Skip, Dial, Prepare,
       Recv, Abandon, Proceed, WaitLive
<1>3. \A th \in threads' : ThreadOK(th)' BY <1>0, Vouched
<1>4. \A s \in (handing \cup inbox)' : Answer(s)' \in signals' BY <1>0 DEF Answer
<1>5. \A q \in Runs : step'[q] = "got" => Mine(q)' \in inbox'
  <2>1. \A q \in Runs \ {r} : rung'[q] = rung[q] /\ step'[q] = step[q]
    BY DEF LadderTypeOK, Connect, Ladder, Start, Skip, Ping, Dial, StartWs, Prepare,
       Offer, Recv, Abandon, Proceed, WaitLive, ClimbTo, Escalate
  <2>2. step'[r] = "got" => Recv(r)
    BY DEF LadderTypeOK, Connect, Ladder, Start, Skip, Ping, Dial, StartWs, Prepare,
       Offer, Recv, Abandon, Proceed, WaitLive, ClimbTo, Escalate
  <2>3. Recv(r) /\ step'[r] = "got" => rung'[r] = rung[r] /\ Mine(r) \in inbox
    BY DEF LadderTypeOK, Recv, ClimbTo
  <2> QED BY <1>0, <2>1, <2>2, <2>3 DEF Mine
<1>6. \A s \in Sids : s.rung = "rtc" /\ <<Owner(s), s>> \in begun' => Driving(s)'
  <2> SUFFICES ASSUME NEW s \in Sids, s.rung = "rtc", <<Owner(s), s>> \in begun'
               PROVE  Driving(s)
    BY <1>0 DEF Driving
  <2>1. CASE <<Owner(s), s>> \in begun BY <2>1
  <2>2. CASE <<Owner(s), s>> \notin begun
    <3>1. Dial(r) \/ Proceed(r)
      BY <2>2 DEF Connect, Ladder, Start, Skip, Ping, StartWs, Prepare,
         Offer, Recv, Abandon, WaitLive
    <3>2. s = Mine(r) BY <2>2, <3>1 DEF Dial, Proceed, StartLink
    <3>3. Proceed(r) BY <1>1, <3>1, <3>2 DEF Dial, On
    <3>4. Answer(s) \in signals BY <3>2, <3>3 DEF Proceed
    <3> QED BY <3>4, MsgFacts DEF MessageOK, Answer
  <2> QED BY <2>1, <2>2
<1> QED BY <1>2, <1>3, <1>4, <1>5, <1>6

\* A delivery keeps every answer vouched for by a responder's thread.
LEMMA AnswerDeliver ==
  ASSUME LadderTypeOK, StepOK, AnswerInv, NEW m \in signals, Deliver(m)
  PROVE  AnswerInv'
<1> USE DEF AnswerInv
<1>0. begun \subseteq begun' /\ signals \subseteq signals' /\ UNCHANGED <<rung, step, inbox>>
  BY DEF Deliver, OnPing, OnStartWs, OnWsReady, OnOffer, OnAnswer, ladder, StartLink
<1>1. MessageOK(m) /\ m.to \in Devices /\ m.sid \in Sids BY DEF LadderTypeOK, Messages
<1>2. \A n \in signals' : MessageOK(n)'
  <2>1. \A n \in signals : MessageOK(n)' BY <1>0, Vouched
  <2>2. CASE OnPing(m)
    <3>1. MessageOK(Msg("pong", PeerOf(m.to), m.sid))'
      BY <1>1, <2>2, MsgFacts DEF OnPing, MessageOK
    <3> QED BY <2>1, <2>2, <3>1 DEF OnPing
  <2>3. CASE OnStartWs(m)
    <3>1. MessageOK(Msg("ws_ready", PeerOf(m.to), m.sid))'
      BY <1>1, <2>3, MsgFacts DEF OnStartWs, MessageOK
    <3> QED BY <2>1, <2>3, <3>1 DEF OnStartWs
  <2>4. CASE UNCHANGED signals BY <2>1, <2>4
  <2> QED BY <2>2, <2>3, <2>4 DEF Deliver, OnWsReady, OnOffer, OnAnswer
<1>3. \A th \in threads' : ThreadOK(th)'
  <2>1. \A th \in threads : ThreadOK(th)' BY <1>0, Vouched
  <2>2. CASE OnOffer(m)
    <3>1. ThreadOK(Thread(m.to, m.sid, "gather"))'
      BY <1>1, <2>2, ThreadFacts DEF OnOffer, MessageOK, ThreadOK
    <3> QED BY <2>1, <2>2, <3>1 DEF OnOffer
  <2>3. CASE UNCHANGED threads BY <2>1, <2>3
  <2> QED BY <2>2, <2>3 DEF Deliver, OnPing, OnStartWs, OnWsReady, OnAnswer
<1>4. \A s \in (handing \cup inbox)' : Answer(s)' \in signals'
  <2>1. CASE OnAnswer(m)
    <3>1. m = Answer(m.sid) BY <1>1, <2>1 DEF OnAnswer, MessageOK, Answer, Msg, LadderTypeOK, Messages
    <3> QED BY <1>0, <2>1, <3>1 DEF OnAnswer, Answer
  <2>2. CASE UNCHANGED handing BY <1>0, <2>2 DEF Answer
  <2> QED BY <2>1, <2>2 DEF Deliver, OnPing, OnStartWs, OnWsReady, OnOffer
<1>5. \A q \in Runs : step'[q] = "got" => Mine(q)' \in inbox' BY <1>0 DEF Mine
<1>6. \A s \in Sids : s.rung = "rtc" /\ <<Owner(s), s>> \in begun' => Driving(s)'
  <2>1. CASE OnWsReady(m)
    <3>1. m.sid.rung = "sig" BY <1>1, <2>1 DEF OnWsReady, MessageOK
    <3>2. \A s : <<Owner(s), s>> \in begun' /\ s # m.sid => <<Owner(s), s>> \in begun
      BY <2>1 DEF OnWsReady, StartLink
    <3> QED BY <1>0, <3>1, <3>2 DEF Driving
  <2>2. CASE UNCHANGED begun BY <2>2 DEF Driving
  <2> QED BY <2>1, <2>2 DEF Deliver, OnPing, OnStartWs, OnOffer, OnAnswer
<1> QED BY <1>2, <1>3, <1>4, <1>5, <1>6

\* A responder that answers has taken up the offer, or is about to.
LEMMA AnswerRespond ==
  ASSUME LadderTypeOK, StepOK, AnswerInv, NEW th \in threads, Respond(th)
  PROVE  AnswerInv'
<1> USE DEF AnswerInv
<1>0. begun \subseteq begun' /\ signals \subseteq signals' /\ UNCHANGED <<rung, step, handing, inbox>>
  BY DEF Respond, PunchAnswer, PunchRespond, RtcRespond, RtcAnswer, Fizzle, ladder, StartLink
<1>1. ThreadOK(th) /\ th.dev \in Devices /\ th.sid \in Sids /\ Owner(th.sid) \in Devices
      /\ PeerOf(th.dev) = Owner(th.sid) /\ th.dev # Owner(th.sid)
  <2>1. ThreadOK(th) /\ th.dev \in Devices /\ th.sid \in Sids BY DEF LadderTypeOK
  <2> QED BY <2>1, DeviceFacts DEF ThreadOK, Devices, PeerOf
<1>2. \A m \in signals' : MessageOK(m)'
  <2>1. \A m \in signals : MessageOK(m)' BY <1>0, Vouched
  <2>2. CASE UNCHANGED signals BY <2>1, <2>2
  <2>3. CASE PunchAnswer(th) \/ RtcAnswer(th)
    <3>1. th.sid.rung = "rtc" => Driving(th.sid)'
      BY <1>0, <1>1, <2>3 DEF PunchAnswer, RtcAnswer, ThreadOK, Driving
    <3>2. MessageOK(Msg("answer", PeerOf(th.dev), th.sid))'
      BY <1>1, <3>1, MsgFacts DEF MessageOK, ThreadOK
    <3> QED BY <2>1, <2>3, <3>2 DEF PunchAnswer, RtcAnswer
  <2> QED BY <2>2, <2>3 DEF Respond, PunchRespond, RtcRespond, Fizzle
<1>3. \A t \in threads' : ThreadOK(t)'
  <2>1. \A t \in threads : ThreadOK(t)' BY <1>0, Vouched
  <2>2. CASE PunchAnswer(th)
    <3>1. ThreadOK(Thread(th.dev, th.sid, "punch"))'
      BY <1>1, <2>2, ThreadFacts DEF PunchAnswer, ThreadOK
    <3> QED BY <2>1, <2>2, <3>1 DEF PunchAnswer, Replace
  <2>3. CASE RtcRespond(th)
    <3>1. Driving(th.sid)' BY <1>1, <2>3 DEF RtcRespond, StartLink, Driving, ThreadOK
    <3>2. ThreadOK(Thread(th.dev, th.sid, "reply"))'
      BY <1>1, <3>1, ThreadFacts DEF ThreadOK
    <3> QED BY <2>1, <2>3, <3>2 DEF RtcRespond, Replace
  <2>4. CASE threads' \subseteq threads BY <2>1, <2>4
  <2> QED BY <2>2, <2>3, <2>4 DEF Respond, PunchRespond, RtcAnswer, Fizzle, Replace
<1>4. \A s \in (handing \cup inbox)' : Answer(s)' \in signals' BY <1>0 DEF Answer
<1>5. \A q \in Runs : step'[q] = "got" => Mine(q)' \in inbox' BY <1>0 DEF Mine
<1>6. \A s \in Sids : s.rung = "rtc" /\ <<Owner(s), s>> \in begun' => Driving(s)'
  <2>1. \A s : <<Owner(s), s>> \in begun' => <<Owner(s), s>> \in begun
    BY <1>1 DEF Respond, PunchAnswer, PunchRespond, RtcRespond, RtcAnswer, Fizzle, StartLink
  <2> QED BY <1>0, <2>1 DEF Driving
<1> QED BY <1>2, <1>3, <1>4, <1>5, <1>6

\* Every step keeps answers vouched for.
LEMMA AnswerStep == LadderTypeOK /\ StepOK /\ AnswerInv /\ [LadderNext]_(ladderVars) => AnswerInv'
<1> SUFFICES ASSUME LadderTypeOK, StepOK, AnswerInv, [LadderNext]_(ladderVars) PROVE AnswerInv' OBVIOUS
<1>1. ASSUME NEW r \in Runs, Connect(r) \/ Ladder(r) PROVE AnswerInv' BY <1>1, AnswerLadder
<1>2. ASSUME NEW m \in signals, Deliver(m) PROVE AnswerInv' BY <1>2, AnswerDeliver
<1>3. ASSUME NEW th \in threads, Respond(th) PROVE AnswerInv' BY <1>3, AnswerRespond
<1>4. ASSUME UNCHANGED <<rung, step, threads, begun, signals>>,
             handing' \cup inbox' \subseteq handing \cup inbox, inbox \subseteq inbox'
      PROVE  AnswerInv'
  BY <1>4 DEF AnswerInv, MessageOK, ThreadOK, Driving, Answer, Mine
<1>5. ASSUME NEW s \in handing, HandOver(s) PROVE AnswerInv'
  BY <1>4, <1>5 DEF HandOver, ladder
<1>6. ASSUME NEW d \in Devices, LinkLost(d) \/ \E s \in Sids : LinkUp(d, s) PROVE AnswerInv'
  BY <1>4, <1>6 DEF LinkLost, LinkUp, ladder
<1>7. CASE UNCHANGED ladderVars BY <1>4, <1>7 DEF ladderVars
<1> QED BY <1>1, <1>2, <1>3, <1>5, <1>6, <1>7 DEF LadderNext

\* A ladder proceeds only on the answer to its own offer, for any number of
\* concurrent ladders on both devices and any loss, delay or repetition.
THEOREM OffersAnswered == LadderSpec => []AnsweredOffer
<1>1. AnswerInv => AnsweredOffer BY DEF AnswerInv, AnsweredOffer, Driving, Answer
<1>2. LadderSpec => []AnswerInv BY AnswerInit, AnswerStep, TypeInvariant, PTL DEF LadderSpec
<1> QED BY <1>1, <1>2, PTL

\* The ladders, waiters, signals and responder threads keep their types, and
\* a ladder is only ever at a step its rung has, for any number of ladders.
THEOREM LadderTypes == LadderSpec => []LadderTypeOK
<1>1. LadderTypeOK /\ StepOK => LadderTypeOK OBVIOUS
<1> QED BY <1>1, TypeInvariant, PTL
=============================================================================
