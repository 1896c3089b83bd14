------------------------ MODULE MCAppSubscriptions ------------------------
(* AppSubscriptions for a producer p, a consumer c and a bystander q, in     *)
(* scenarios that each bring some of the devices, links and calls together.  *)
EXTENDS AppSubscriptions

CONSTANTS p, c, q, w1, h1, r1, c1, c2

MCPair == [l \in Links |-> {p, c}]
MCKind == w1 :> "ws" @@ h1 :> "punch" @@ r1 :> "webrtc"
MCKnown == p :> {c, q} @@ c :> {p} @@ q :> {}

Scenario(devices, ls, calls, max, copies) ==
    [devices |-> devices, links |-> ls, calls |-> calls,
     changers |-> {p}, changes |-> max, repeats |-> copies]

MCScenarios == {
    Scenario({p, c}, {w1}, {c1, c2}, 0, 0),     \* two messages over a WebSocket
    Scenario({p, c}, {h1}, {c1, c2}, 0, 0),     \* over a punched link
    Scenario({p, c}, {}, {c1, c2}, 1, 0),       \* by TCP and UDP, a setting changed
    Scenario({p, c}, {w1}, {c1}, 1, 0),         \* the same with a WebSocket
    Scenario({p, c}, {}, {c1, c2}, 0, 1),       \* two by UDP, a datagram repeated
    Scenario({p, c}, {h1}, {c1}, 0, 2),         \* one punched, repeated twice
    Scenario({p, c}, {w1, r1}, {c1}, 0, 0),     \* WebRTC pre-empts a WebSocket
    Scenario({p, c, q}, {w1}, {c1}, 0, 0)}      \* a broadcast to two

\* A request while the producer drops its key and sets it again; two
\* subscriptions by UDP.
MCRekeyed == {Scenario({p, c}, {}, {c1}, 2, 0)}
MCDatagrams == {Scenario({p, c}, {}, {c1, c2}, 0, 0)}
===========================================================================
