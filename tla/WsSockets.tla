----------------------------- MODULE WsSockets -----------------------------
(***************************************************************************)
(* Both ends of the WebSocket transport (transport/ws.rs) between two      *)
(* devices: either may dial, each runs handle_ws_conn on its end of every  *)
(* socket, introduces itself with a Hello, and keeps one socket per peer   *)
(* in ws_conns, dropping the others.  TCP delivers in order: the Hello,    *)
(* then the end of the stream once the far end has left.                   *)
(***************************************************************************)
EXTENDS Integers

CONSTANTS Sockets,     \* bound: sockets in use at the same time
          None,
          MaxFail,     \* bound: how many sockets break
          MaxVanish    \* bound: how often a device drops off the network

Devices == {"a", "b"}
Other(d) == IF d = "a" THEN "b" ELSE "a"

ASSUME SocketAssumption == None \notin Sockets
ASSUME FaultAssumption == MaxFail \in Nat /\ MaxVanish \in Nat

VARIABLES end,      \* socket -> device -> its handler: "over" (or not begun),
                    \* "open", "reg"
          hello,    \* socket -> device -> a Hello is there to be read
          fin,      \* socket -> device -> the end of the stream is there
          slot,     \* device -> its ws_conns entry for the other device
          failed,   \* how many sockets have broken
          vanished  \* how often a device has dropped off the network

vars == <<end, hello, fin, slot, failed, vanished>>

Both(v) == [d \in Devices |-> v]
Idle(s) == \A d \in Devices : end[s][d] = "over" /\ ~hello[s][d] /\ ~fin[s][d]

-----------------------------------------------------------------------------
\* ws_connect and the accept at the other side: two handlers, two Hellos.
\* Nothing keeps a device from dialling when it has a link, or twice.
Dial(d, s) ==
    /\ Idle(s)
    /\ end' = [end EXCEPT ![s] = Both("open")]
    /\ hello' = [hello EXCEPT ![s] = Both(TRUE)]
    /\ UNCHANGED <<fin, slot, failed, vanished>>

\* Hello: take the slot, or leave because the peer has one already; leaving
\* closes the socket.
ReadHello(d, s) ==
    /\ end[s][d] = "open" /\ hello[s][d]
    /\ hello' = [hello EXCEPT ![s][d] = FALSE]
    /\ IF slot[d] = None
       THEN /\ slot' = [slot EXCEPT ![d] = s]
            /\ end' = [end EXCEPT ![s][d] = "reg"]
            /\ UNCHANGED fin
       ELSE /\ end' = [end EXCEPT ![s][d] = "over"]
            /\ fin' = [fin EXCEPT ![s] = [x \in Devices |-> x = Other(d) /\ end[s][x] # "over"]]
            /\ UNCHANGED slot
    /\ UNCHANGED <<failed, vanished>>

\* Mutant: the socket is left half closed.
LeaveQuietly(d, s) ==
    /\ end' = [end EXCEPT ![s][d] = "over"]
    /\ slot' = IF slot[d] = s THEN [slot EXCEPT ![d] = None] ELSE slot
    /\ fin' = [fin EXCEPT ![s][d] = FALSE]
    /\ hello' = [hello EXCEPT ![s][d] = FALSE]

\* The loop ends: the socket is closed and the slot freed if it is ours.
Leave(d, s) ==
    /\ end' = [end EXCEPT ![s][d] = "over"]
    /\ slot' = IF slot[d] = s THEN [slot EXCEPT ![d] = None] ELSE slot
    /\ fin' = [fin EXCEPT ![s] = [x \in Devices |-> x = Other(d) /\ end[s][x] # "over"]]
    /\ hello' = [hello EXCEPT ![s][d] = FALSE]

\* Close frame or end of stream, after what was sent before it.
ReadEnd(d, s) ==
    /\ fin[s][d] /\ ~hello[s][d] /\ end[s][d] # "over"
    /\ Leave(d, s)
    /\ UNCHANGED <<failed, vanished>>

\* A read or a write fails.
Fail(d, s) ==
    /\ failed < MaxFail /\ failed' = failed + 1
    /\ end[s][d] # "over"
    /\ Leave(d, s)
    /\ UNCHANGED vanished

\* The device drops off the network (power, radio): its handlers are gone and
\* nothing tells the other side.
Vanish(d) ==
    /\ vanished < MaxVanish
    /\ vanished' = vanished + 1
    /\ end' = [s \in Sockets |-> [end[s] EXCEPT ![d] = "over"]]
    /\ hello' = [s \in Sockets |-> [hello[s] EXCEPT ![d] = FALSE]]
    /\ fin' = [s \in Sockets |-> [fin[s] EXCEPT ![d] = FALSE]]
    /\ slot' = [slot EXCEPT ![d] = None]
    /\ UNCHANGED failed

-----------------------------------------------------------------------------
Init ==
    /\ end = [s \in Sockets |-> Both("over")]
    /\ hello = [s \in Sockets |-> Both(FALSE)]
    /\ fin = [s \in Sockets |-> Both(FALSE)]
    /\ slot = Both(None)
    /\ failed = 0 /\ vanished = 0

Handler(d, s) == ReadHello(d, s) \/ ReadEnd(d, s)

Next == \E d \in Devices :
            \/ \E s \in Sockets : Dial(d, s) \/ Handler(d, s) \/ Fail(d, s)
            \/ Vanish(d)

Spec == Init /\ [][Next]_vars

\* Handlers keep reading, and a device without any socket keeps trying.
Fairness == \A d \in Devices :
    /\ \A s \in Sockets : WF_vars(Handler(d, s))
    /\ WF_vars(/\ \A z \in Sockets : end[z][d] = "over"
               /\ \E s \in Sockets : Dial(d, s))

FairSpec == Spec /\ Fairness

-----------------------------------------------------------------------------
\* Properties.

\* Types: a slot holds a socket of this pair of devices, or nothing.
TypeOK ==
    /\ end \in [Sockets -> [Devices -> {"over", "open", "reg"}]]
    /\ hello \in [Sockets -> [Devices -> BOOLEAN]]
    /\ fin \in [Sockets -> [Devices -> BOOLEAN]]
    /\ slot \in [Devices -> Sockets \cup {None}]
    /\ failed \in 0 .. MaxFail /\ vanished \in 0 .. MaxVanish

\* On each device the registered socket is the one in ws_conns, and no other.
OneRegistered ==
    \A d \in Devices, s \in Sockets : end[s][d] = "reg" <=> slot[d] = s

\* A socket with one end gone is known to be over at the other end too, or
\* will be as soon as that end reads: links are never half open, unless a
\* device vanished.
NeverHalfOpen ==
    vanished = 0 =>
        \A d \in Devices, s \in Sockets :
            end[s][d] # "over" /\ end[s][Other(d)] = "over" => fin[s][d]

\* Both sides agree on a link.
Linked == slot["a"] # None /\ slot["a"] = slot["b"]

\* One device is on one socket at a time: nobody dials while it has one.
OneAtATime(d) == \A s, z \in Sockets : end[s][d] # "over" /\ end[z][d] # "over" => s = z

\* Unless dials cross or a device vanishes, the devices get back to a common
\* link, again and again, however sockets break.
Reconnects ==
    \A d \in Devices : [](OneAtATime(d) /\ vanished = 0) => []<>Linked

\* A device that comes back after it dropped off the network is connected
\* again: "a newer connection may have replaced" the dead one.
ReconnectsAfterLoss == \A d \in Devices : []OneAtATime(d) => []<>Linked

\* "One connection per peer (duplicates are dropped)": when everything has
\* been read, one of the connections that were made is left.
OneSurvives ==
    [][(\A s \in Sockets : Idle(s))' /\ (\E s \in Sockets : ~Idle(s))
         => failed' > 0 \/ vanished' > 0]_vars
=============================================================================
