--------------------------- MODULE ConnectLadder ---------------------------
(***************************************************************************)
(* The connection ladder (engine.rs, run_connect_ladder) of two devices    *)
(* that may each call connect() on the other, and on_signal, which plays   *)
(* the responder and hands answers to the ladder threads that wait.        *)
(*                                                                         *)
(* UDP pings and signals relayed by the push service may be lost, arrive   *)
(* late, out of order or more than once: a message stays in `signals` once *)
(* sent and may be delivered at any later time, any number of times, or    *)
(* never.  Links are opaque here (see LiveLinks): once both ends of a link *)
(* run, either may see the other live, lose it and see it again.           *)
(***************************************************************************)
EXTENDS Integers

CONSTANTS RunsA, RunsB,    \* bound: the connect() calls made on each device
          Usable           \* bound: the rungs whose preconditions may be met

ASSUME RunsAssumption == RunsA \cap RunsB = {}

Devices == {"a", "b"}
PeerOf(d) == IF d = "a" THEN "b" ELSE "a"
Runs  == RunsA \cup RunsB
At(r) == IF r \in RunsA THEN "a" ELSE "b"

Rungs == {"udp", "ws", "sig", "punch", "rtc"}
Above(k) == CASE k = "udp" -> "ws"   [] k = "ws"    -> "sig"
              [] k = "sig" -> "punch" [] k = "punch" -> "rtc"
              [] k = "rtc" -> "failed"

\* A fresh uuid for each negotiation: the ladder thread and its rung.
Sids == [run : Runs, rung : Rungs]
Sid(r, k) == [run |-> r, rung |-> k]
Owner(s) == At(s.run)

Messages == [kind : {"ping", "pong", "start_ws", "ws_ready", "offer", "answer"},
             to : Devices, sid : Sids]
Msg(k, d, s) == [kind |-> k, to |-> d, sid |-> s]

VARIABLES rung,     \* run -> "idle", "start", a rung, "connected" or "failed"
          step,     \* run -> where it is in its rung
          waiters,  \* sids in punch_waiters and rtc_waiters
          handing,  \* sids whose waiter on_signal has taken out of the map
          inbox,    \* sids whose channel holds the answer
          threads,  \* responder threads: [dev, sid, st]
          begun,    \* <<device, sid>> whose link thread has started
          signals,  \* messages sent
          live      \* device -> the other is in its p2p_conns

ladderVars == <<rung, step, waiters, handing, inbox, threads, begun, signals, live>>

ladder == <<rung, step>>

Thread(d, s, st) == [dev |-> d, sid |-> s, st |-> st]

ClimbTo(r, k, st) == /\ rung' = [rung EXCEPT ![r] = k]
                     /\ step' = [step EXCEPT ![r] = st]
Escalate(r) == ClimbTo(r, Above(rung[r]), "try")
On(r, k, st) == rung[r] = k /\ step[r] = st
Mine(r) == Sid(r, rung[r])

\* The link threads of negotiation s start on the devices D.
StartLink(D, s) == begun' = begun \cup {<<d, s>> : d \in D}

-----------------------------------------------------------------------------
\* connect: the peer is known, a ladder thread starts.
Connect(r) ==
    /\ rung[r] = "idle"
    /\ ClimbTo(r, "start", "try")
    /\ UNCHANGED <<waiters, handing, inbox, threads, begun, signals, live>>

\* Connected already, or the peer has been removed since, or up the ladder.
Start(r) ==
    /\ rung[r] = "start"
    /\ IF live[At(r)] THEN ClimbTo(r, "connected", "try")
       ELSE \E k \in {"udp", "failed"} : ClimbTo(r, k, "try")
    /\ UNCHANGED <<waiters, handing, inbox, threads, begun, signals, live>>

\* The rung does not apply (not the same LAN; no open, reachable WS server)
\* or cannot be tried (no payload key, dial refused, signal not sent, no
\* candidates): on to the next.
Skip(r) ==
    /\ rung[r] \in Rungs /\ step[r] = "try"
    /\ Escalate(r)
    /\ UNCHANGED <<waiters, handing, inbox, threads, begun, signals, live>>

\* Rung 1: one UDP ping.
Ping(r) ==
    /\ On(r, "udp", "try") /\ rung[r] \in Usable
    /\ signals' = signals \cup {Msg("ping", PeerOf(At(r)), Mine(r))}
    /\ ClimbTo(r, "udp", "wait")
    /\ UNCHANGED <<waiters, handing, inbox, threads, begun, live>>

\* Rung 2: dial; both devices get a socket thread.
Dial(r) ==
    /\ On(r, "ws", "try") /\ rung[r] \in Usable
    /\ StartLink(Devices, Mine(r))
    /\ ClimbTo(r, "ws", "wait")
    /\ UNCHANGED <<waiters, handing, inbox, threads, signals, live>>

\* Rung 3: ask the peer to open its WS server.
StartWs(r) ==
    /\ On(r, "sig", "try") /\ rung[r] \in Usable
    /\ signals' = signals \cup {Msg("start_ws", PeerOf(At(r)), Mine(r))}
    /\ ClimbTo(r, "sig", "wait")
    /\ UNCHANGED <<waiters, handing, inbox, threads, begun, live>>

\* Rungs 4 and 5: candidates or an SDP offer are ready; leave a waiter ...
Prepare(r) ==
    /\ rung[r] \in {"punch", "rtc"} /\ step[r] = "try" /\ rung[r] \in Usable
    /\ waiters' = waiters \cup {Mine(r)}
    /\ ClimbTo(r, rung[r], "offer")
    /\ UNCHANGED <<handing, inbox, threads, begun, signals, live>>

\* ... send the offer, or fail to ...
Offer(r) ==
    /\ step[r] = "offer"
    /\ \/ /\ signals' = signals \cup {Msg("offer", PeerOf(At(r)), Mine(r))}
          /\ ClimbTo(r, rung[r], "recv")
       \/ /\ ClimbTo(r, rung[r], "none")
          /\ UNCHANGED signals
    /\ UNCHANGED <<waiters, handing, inbox, threads, begun, live>>

\* Mutant: recv without a timeout.
RecvForever(r) ==
    /\ step[r] = "recv" /\ Mine(r) \in inbox
    /\ ClimbTo(r, rung[r], "got")
    /\ UNCHANGED <<waiters, handing, inbox, threads, begun, signals, live>>

\* ... and wait for the answer, with a timeout.
Recv(r) ==
    /\ step[r] = "recv"
    /\ ClimbTo(r, rung[r], IF Mine(r) \in inbox THEN "got" ELSE "none")
    /\ UNCHANGED <<waiters, handing, inbox, threads, begun, signals, live>>

\* Mutant: the waiter of an offer that failed stays in the map.
AbandonNoRemove(r) ==
    /\ step[r] = "none"
    /\ Escalate(r)
    /\ UNCHANGED <<waiters, handing, inbox, threads, begun, signals, live>>

\* No answer: take the waiter back.
Abandon(r) ==
    /\ step[r] = "none"
    /\ waiters' = waiters \ {Mine(r)}
    /\ Escalate(r)
    /\ UNCHANGED <<handing, inbox, threads, begun, signals, live>>

\* The answer is in: punch, or apply the SDP, which may be refused.
Proceed(r) ==
    /\ step[r] = "got"
    /\ waiters' = waiters \ {Mine(r)}
    /\ \/ /\ StartLink({At(r)}, Mine(r))
          /\ ClimbTo(r, rung[r], "wait")
       \/ /\ rung[r] = "rtc"
          /\ Escalate(r)
          /\ UNCHANGED begun
    /\ UNCHANGED <<handing, inbox, threads, signals, live>>

\* wait_live: somebody brought the peer live, or the time is up.
WaitLive(r) ==
    /\ step[r] = "wait"
    /\ IF live[At(r)] THEN ClimbTo(r, "connected", "try") ELSE Escalate(r)
    /\ UNCHANGED <<waiters, handing, inbox, threads, begun, signals, live>>

-----------------------------------------------------------------------------
\* Deliveries.

\* P2pPingHandler: the sender is live, and gets a pong.
OnPing(m) ==
    /\ m.kind \in {"ping", "pong"}
    /\ live' = [live EXCEPT ![m.to] = TRUE]
    /\ signals' = IF m.kind = "ping" THEN signals \cup {Msg("pong", PeerOf(m.to), m.sid)}
                  ELSE signals
    /\ UNCHANGED <<ladder, waiters, handing, inbox, threads, begun>>

\* StartWs: our server is listening; say where (unless the relay fails).
OnStartWs(m) ==
    /\ m.kind = "start_ws"
    /\ signals' = signals \cup {Msg("ws_ready", PeerOf(m.to), m.sid)}
    /\ UNCHANGED <<ladder, waiters, handing, inbox, threads, begun, live>>

\* WsReady: dial, whoever asked and however long ago.
OnWsReady(m) ==
    /\ m.kind = "ws_ready"
    /\ StartLink(Devices, m.sid)
    /\ UNCHANGED <<ladder, waiters, handing, inbox, threads, signals, live>>

\* PunchOffer and SdpOffer: a thread of their own gathers candidates.
OnOffer(m) ==
    /\ m.kind = "offer"
    /\ threads' = threads \cup {Thread(m.to, m.sid, "gather")}
    /\ UNCHANGED <<ladder, waiters, handing, inbox, begun, signals, live>>

\* Mutant: the answer goes to some waiter, not to the one of its sid.
OnAnswerAny(m) ==
    /\ m.kind = "answer"
    /\ \E s \in waiters : waiters' = waiters \ {s} /\ handing' = handing \cup {s}
    /\ UNCHANGED <<ladder, inbox, threads, begun, signals, live>>

\* PunchAnswer and SdpAnswer: take the waiter out, if there is one ...
OnAnswer(m) ==
    /\ m.kind = "answer" /\ m.sid \in waiters
    /\ waiters' = waiters \ {m.sid}
    /\ handing' = handing \cup {m.sid}
    /\ UNCHANGED <<ladder, inbox, threads, begun, signals, live>>

\* ... and send it the answer, unless its ladder has hung up.
HandOver(s) ==
    /\ s \in handing
    /\ handing' = handing \ {s}
    /\ inbox' = IF rung[s.run] = s.rung /\ step[s.run] \in {"offer", "recv"}
                THEN inbox \cup {s} ELSE inbox
    /\ UNCHANGED <<ladder, waiters, threads, begun, signals, live>>

-----------------------------------------------------------------------------
\* Responder and link threads.

Replace(th, new) == threads' = (threads \ {th}) \cup new

\* A punch responder sends its answer and then punches.
PunchAnswer(th) ==
    /\ th.st = "gather" /\ th.sid.rung = "punch"
    /\ signals' \in {signals, signals \cup {Msg("answer", PeerOf(th.dev), th.sid)}}
    /\ Replace(th, {Thread(th.dev, th.sid, "punch")})
    /\ UNCHANGED <<ladder, waiters, handing, inbox, begun, live>>

PunchRespond(th) ==
    /\ th.st = "punch"
    /\ Replace(th, {})
    /\ StartLink({th.dev}, th.sid)
    /\ UNCHANGED <<ladder, waiters, handing, inbox, signals, live>>

\* A WebRTC responder starts its driver and then answers.
RtcRespond(th) ==
    /\ th.st = "gather" /\ th.sid.rung = "rtc"
    /\ Replace(th, {Thread(th.dev, th.sid, "reply")})
    /\ StartLink({th.dev}, th.sid)
    /\ UNCHANGED <<ladder, waiters, handing, inbox, signals, live>>

RtcAnswer(th) ==
    /\ th.st = "reply"
    /\ signals' \in {signals, signals \cup {Msg("answer", PeerOf(th.dev), th.sid)}}
    /\ Replace(th, {})
    /\ UNCHANGED <<ladder, waiters, handing, inbox, begun, live>>

\* No candidates, or an offer str0m refuses.
Fizzle(th) ==
    /\ th.st = "gather"
    /\ Replace(th, {})
    /\ UNCHANGED <<ladder, waiters, handing, inbox, begun, signals, live>>

\* A link comes up, which takes both ends; whether it does is the network's
\* and LiveLinks' affair.
LinkUp(d, s) ==
    /\ <<d, s>> \in begun /\ <<PeerOf(d), s>> \in begun
    /\ live' = [live EXCEPT ![d] = TRUE]
    /\ UNCHANGED <<ladder, waiters, handing, inbox, threads, begun, signals>>

\* A link goes: closed, evicted, Bye.
LinkLost(d) ==
    /\ live[d]
    /\ live' = [live EXCEPT ![d] = FALSE]
    /\ UNCHANGED <<ladder, waiters, handing, inbox, threads, begun, signals>>

-----------------------------------------------------------------------------
LadderInit ==
    /\ rung = [r \in Runs |-> "idle"] /\ step = [r \in Runs |-> "try"]
    /\ waiters = {} /\ handing = {} /\ inbox = {}
    /\ threads = {} /\ begun = {} /\ signals = {}
    /\ live = [d \in Devices |-> FALSE]

\* What the ladder's own thread does.
Ladder(r) == \/ Start(r) \/ Skip(r) \/ Ping(r) \/ Dial(r) \/ StartWs(r) \/ Prepare(r)
             \/ Offer(r) \/ Recv(r) \/ Abandon(r) \/ Proceed(r) \/ WaitLive(r)

Deliver(m) == OnPing(m) \/ OnStartWs(m) \/ OnWsReady(m) \/ OnOffer(m) \/ OnAnswer(m)

Respond(th) == \/ PunchAnswer(th) \/ PunchRespond(th) \/ RtcRespond(th) \/ RtcAnswer(th)
               \/ Fizzle(th)

LadderNext == \/ \E r \in Runs : Connect(r) \/ Ladder(r)
              \/ \E m \in signals : Deliver(m)
              \/ \E s \in handing : HandOver(s)
              \/ \E th \in threads : Respond(th)
              \/ \E d \in Devices : LinkLost(d) \/ \E s \in Sids : LinkUp(d, s)

LadderSpec == LadderInit /\ [][LadderNext]_ladderVars

\* A ladder thread runs: all it waits for has a timeout.
FairLadder == LadderSpec /\ \A r \in Runs : WF_ladderVars(Ladder(r))

-----------------------------------------------------------------------------
\* Properties.

Steps == {"try", "offer", "recv", "got", "none", "wait"}

\* Types: the ladder has no rung but the five, waiters are its own negotiations'.
LadderTypeOK ==
    /\ rung \in [Runs -> Rungs \cup {"idle", "start", "connected", "failed"}]
    /\ step \in [Runs -> Steps]
    /\ waiters \subseteq Sids /\ handing \subseteq Sids /\ inbox \subseteq Sids
    /\ threads \subseteq [dev : Devices, sid : Sids,
                          st : {"gather", "punch", "reply"}]
    /\ begun \subseteq Devices \X Sids
    /\ signals \subseteq Messages
    /\ live \in [Devices -> BOOLEAN]

\* A waiter in the maps has its ladder thread, in that very negotiation: none
\* is left behind whatever order timeout, answer and failure come in.
NoStrayWaiter ==
    \A s \in waiters : /\ rung[s.run] = s.rung
                       /\ step[s.run] \in {"offer", "recv", "got", "none"}

\* A ladder acts on the answer to its own offer: the peer answered it, and in
\* WebRTC's case has its end of the link running.
AnsweredOffer ==
    \A s \in Sids :
        /\ s \in inbox => Msg("answer", Owner(s), s) \in signals
        /\ s.rung = "rtc" /\ <<Owner(s), s>> \in begun => <<PeerOf(Owner(s)), s>> \in begun

\* Every ladder comes to an end and reports it: no lost answer blocks it.
LadderEnds == \A r \in Runs : rung[r] = "start" ~> rung[r] \in {"connected", "failed"}

\* "no reachable path" is reported only when the peer is not connected.
FailedMeansDown ==
    [][\A r \in Runs : rung[r] = "rtc" /\ rung'[r] = "failed" => ~live[At(r)]]_ladderVars
=============================================================================
