--------------------------- MODULE PunchHandshake ---------------------------
(***************************************************************************)
(* Two devices bring up a punched link: hole_punch (nat/punch.rs), then    *)
(* confirm_round_trip, then the driver loop (transport/punch.rs), over UDP *)
(* paths (address pairs) some of which carry packets one way only.         *)
(* Packets are lost, reordered and may arrive arbitrarily late.            *)
(***************************************************************************)
EXTENDS Integers

CONSTANTS Paths,     \* candidate paths between the two devices
          OneWay,    \* bound: the ones that never carry packets of "b"
          None,
          TIMEOUT    \* heartbeat staleness limit, in clock ticks

ASSUME PathAssumption == None \notin Paths /\ OneWay \subseteq Paths
ASSUME SilenceAssumption == TIMEOUT \in Nat

Ends == {"a", "b"}
Other(x) == IF x = "a" THEN "b" ELSE "a"

\* PUNCH_PING is the punch magic itself; data stands for a whole frame.
Packets == [to : Ends, kind : {"ping", "pong", "data"}, path : Paths]

VARIABLES open,     \* end -> paths on which its packets reach the other end
          pc,       \* end -> "punch", "confirm", "up" (driver loop), "gone"
          addr,     \* end -> peer_addr
          net,      \* packets in flight
          silent    \* end -> ticks since touch_live last ran

vars == <<open, pc, addr, net, silent>>

TwoWay == open["a"] \cap open["b"]
SilentCap == TIMEOUT + 1

\* The packets in flight once x has sent one of kind k on each path of P: the
\* ones on blocked paths go nowhere.
Sent(x, k, P) == {[to |-> Other(x), kind |-> k, path |-> q] : q \in P \cap open[x]}

Goto(x, l) == pc' = [pc EXCEPT ![x] = l]
Lock(x, q) == addr' = [addr EXCEPT ![x] = q]

-----------------------------------------------------------------------------
\* hole_punch: probe every candidate ...
Probe(x) ==
    /\ pc[x] = "punch"
    /\ net' = net \cup Sent(x, "ping", Paths)
    /\ UNCHANGED <<open, pc, addr, silent>>

\* ... until a probe comes in: acknowledge it and settle on where it came
\* from.  Anything else is read and ignored.
PunchReceive(x, m) ==
    /\ pc[x] = "punch"
    /\ IF m.kind = "ping"
       THEN /\ net' = (net \ {m}) \cup Sent(x, "ping", {m.path})
            /\ Lock(x, m.path)
            /\ Goto(x, "confirm")
       ELSE /\ net' = net \ {m}
            /\ UNCHANGED <<addr, pc>>
    /\ UNCHANGED <<open, silent>>

-----------------------------------------------------------------------------
\* confirm_round_trip: ping the address settled on ...
ConfirmPing(x) ==
    /\ pc[x] = "confirm"
    /\ net' = net \cup Sent(x, "ping", {addr[x]})
    /\ UNCHANGED <<open, pc, addr, silent>>

\* Mutant: the confirmed link keeps the address it was pinging.
ConfirmReceiveStay(x, m) ==
    /\ pc[x] = "confirm"
    /\ net' = (net \ {m}) \cup IF m.kind = "ping" THEN Sent(x, "pong", {m.path}) ELSE {}
    /\ IF m.kind = "pong" THEN Goto(x, "up") /\ silent' = [silent EXCEPT ![x] = 0]
       ELSE UNCHANGED <<pc, silent>>
    /\ UNCHANGED <<open, addr>>

\* ... a pong proves the round trip and its source (then run_punch_conn
\* registers, or returns because the peer has a link already), a ping is
\* answered and its source becomes the address to ping.
ConfirmReceive(x, m) ==
    /\ pc[x] = "confirm"
    /\ UNCHANGED open
    /\ \/ /\ m.kind = "pong"
          /\ net' = net \ {m}
          /\ Lock(x, m.path)
          /\ Goto(x, "up") \/ Goto(x, "gone")
          /\ silent' = [silent EXCEPT ![x] = 0]
       \/ /\ m.kind = "ping"
          /\ net' = (net \ {m}) \cup Sent(x, "pong", {m.path})
          /\ Lock(x, m.path)
          /\ UNCHANGED <<pc, silent>>
       \/ /\ m.kind = "data"
          /\ net' = net \ {m}
          /\ UNCHANGED <<addr, pc, silent>>

\* Eight seconds of punching, or three of confirming, without success.
Expire(x) ==
    /\ pc[x] \in {"punch", "confirm"}
    /\ Goto(x, "gone")
    /\ UNCHANGED <<open, addr, net, silent>>

-----------------------------------------------------------------------------
\* The driver's keepalive ...
Keepalive(x) ==
    /\ pc[x] = "up"
    /\ net' = net \cup Sent(x, "ping", {addr[x]})
    /\ UNCHANGED <<open, pc, addr, silent>>

\* ... and a frame from its queue go to the peer's current address.
SendFrame(x) ==
    /\ pc[x] = "up"
    /\ net' = net \cup Sent(x, "data", {addr[x]})
    /\ UNCHANGED <<open, pc, addr, silent>>

\* Mutant: the driver no longer answers pings.
DriverReceiveMute(x, m) ==
    /\ pc[x] = "up"
    /\ net' = net \ {m}
    /\ Lock(x, m.path)
    /\ silent' = [silent EXCEPT ![x] = 0]
    /\ UNCHANGED <<open, pc>>

\* Whatever comes in refreshes the link and moves the peer's address.
DriverReceive(x, m) ==
    /\ pc[x] = "up"
    /\ net' = (net \ {m}) \cup IF m.kind = "ping" THEN Sent(x, "pong", {m.path}) ELSE {}
    /\ Lock(x, m.path)
    /\ silent' = [silent EXCEPT ![x] = 0]
    /\ UNCHANGED <<open, pc>>

\* Mutant: the driver does not look whether it was evicted.
EvictNever(x) == FALSE /\ UNCHANGED vars

\* The heartbeat evicts the silent link and the driver leaves.
Evict(x) ==
    /\ pc[x] = "up" /\ silent[x] > TIMEOUT
    /\ Goto(x, "gone")
    /\ UNCHANGED <<open, addr, net, silent>>

\* The driver leaves for another reason: replaced, Bye, a failed send.
Leave(x) ==
    /\ pc[x] = "up"
    /\ Goto(x, "gone")
    /\ UNCHANGED <<open, addr, net, silent>>

\* Time passes for the links that are up.
Tick ==
    /\ \E x \in Ends : pc[x] = "up" /\ silent[x] < SilentCap
    /\ silent' = [x \in Ends |-> IF pc[x] = "up" /\ silent[x] < SilentCap
                                 THEN silent[x] + 1 ELSE silent[x]]
    /\ UNCHANGED <<open, pc, addr, net>>

Lose(m) == net' = net \ {m} /\ UNCHANGED <<open, pc, addr, silent>>

-----------------------------------------------------------------------------
Init ==
    /\ open \in [Ends -> SUBSET Paths] /\ open["b"] \cap OneWay = {}
    /\ pc = [x \in Ends |-> "punch"]
    /\ addr = [x \in Ends |-> None]
    /\ net = {}
    /\ silent = [x \in Ends |-> 0]

Receive(m) == PunchReceive(m.to, m) \/ ConfirmReceive(m.to, m) \/ DriverReceive(m.to, m)

Next ==
    \/ \E x \in Ends : \/ Probe(x) \/ ConfirmPing(x) \/ Expire(x) \/ Keepalive(x)
                       \/ SendFrame(x) \/ Evict(x) \/ Leave(x)
    \/ \E m \in net : Receive(m) \/ Lose(m)
    \/ Tick

Spec == Init /\ [][Next]_vars

\* The loops run and time passes; a probe sent again and again on an open
\* path is received at last.
Fairness ==
    /\ \A x \in Ends : /\ WF_vars(Probe(x)) /\ WF_vars(ConfirmPing(x))
                       /\ WF_vars(Keepalive(x)) /\ WF_vars(Evict(x))
    /\ \A m \in Packets : m.kind # "data" => SF_vars(m \in net /\ Receive(m))
    /\ WF_vars(Tick)

FairSpec == Spec /\ Fairness

-----------------------------------------------------------------------------
\* Properties.

\* Types; a device past hole_punch has an address to send to.
TypeOK ==
    /\ open \in [Ends -> SUBSET Paths]
    /\ pc \in [Ends -> {"punch", "confirm", "up", "gone"}]
    /\ addr \in [Ends -> Paths \cup {None}]
    /\ \A x \in Ends : pc[x] \in {"confirm", "up"} => addr[x] \in Paths
    /\ net \subseteq Packets
    /\ silent \in [Ends -> 0 .. SilentCap]

\* "so we never declare a one-way path connected": a device that brought its
\* link up has a path that carries packets both ways.
NoOneWayLink == \A x \in Ends : pc[x] = "up" => TwoWay # {}

\* And it comes up on such a path, not just any it has heard from.
UpOnProvenPath ==
    [][\A x \in Ends : pc[x] # "up" /\ pc'[x] = "up" => addr'[x] \in TwoWay]_vars

\* A link whose other end has gone is noticed: the half that is left ends.
HalfOpenDies ==
    \A x \in Ends : (pc[x] = "up" /\ pc[Other(x)] = "gone") ~> pc[x] = "gone"

\* Devices that can reach each other do not both settle on addresses they
\* cannot send to: with nothing left in flight neither would ever hear from
\* the other again, and confirm_round_trip would report an asymmetric NAT.
NeverBothMislocked ==
    TwoWay # {} =>
        \/ net # {}
        \/ \E x \in Ends : pc[x] \notin {"confirm", "up"} \/ addr[x] \in open[x]

\* When some path works, none of them one way only, and neither device runs
\* out of time or finds another link in place, both ends find out.
BothComeUp ==
    /\ [](\A x \in Ends : pc[x] # "gone")
    /\ open["a"] = open["b"] /\ TwoWay # {}
    => <>(\A x \in Ends : pc[x] = "up")
=============================================================================
