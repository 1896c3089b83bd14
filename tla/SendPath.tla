------------------------------ MODULE SendPath ------------------------------
(***************************************************************************)
(* How a message gets from one device to another (transport/mod.rs,        *)
(* engine.rs): the transport is chosen by a look at ws_conns, the text     *)
(* sealed with the key of the moment, and the frame queued on the channel  *)
(* of the driver that holds the slot, or sent directly over TCP or UDP.    *)
(* The receiving thread opens it with its own key and hands it on.  Links  *)
(* come and go as LinkSlots says, on each device by itself.                *)
(***************************************************************************)
EXTENDS Integers, Sequences, SequencesExt, FiniteSets

CONSTANTS Devices,
          Links,       \* persistent channels: WebSocket, punched, WebRTC
          Pair,        \* link -> the two devices it joins
          Kind,        \* link -> its TransportKind
          Calls,       \* calls of the application, a thread each
          Known,       \* device -> the devices in its peer map
          TcpThreads,  \* bound: the threads of tcp_recv_loop, one per stream
          Keys, None,
          Scenarios    \* bounds: which devices, links and calls there are, how
                       \* often and on which devices a setting is changed, how
                       \* often the network repeats a datagram

ASSUME SendAssumption ==
    /\ Pair \in [Links -> SUBSET Devices] /\ Known \in [Devices -> SUBSET Devices]
    /\ \A l \in Links : \E d, e \in Devices : d # e /\ Pair[l] = {d, e}
    /\ Kind \in [Links -> {"ws", "punch", "webrtc"}]
    /\ None \notin Links \cup Keys \cup Devices
    /\ {"UDP", "TCP", "WS"} \cap Links = {} /\ TcpThreads \cap (Links \cup {"UDP"}) = {}
    /\ Calls \cap (Devices \X (Links \cup {"UDP"} \cup TcpThreads)) = {}
    /\ Scenarios \subseteq [devices : SUBSET Devices, links : SUBSET Links,
                            calls : SUBSET Calls, changers : SUBSET Devices, changes : Nat,
                            repeats : Nat]

Other(l, d) == CHOOSE e \in Pair[l] : e # d
Ends == {x \in Devices \X Links : x[1] \in Pair[x[2]]}
Receivers == Ends \cup (Devices \X ({"UDP"} \cup TcpThreads))
Threads == Calls \cup Receivers

VARIABLES slot,      \* device -> peer -> the link in its ws_conns
          stage,     \* device -> link -> its driver there, as in LinkSlots
          queue,     \* device -> link -> frames on the driver's channel
          wire,      \* device -> link -> frames written to it, not yet read
          air,       \* frames sent by TCP or UDP; a lost one stays there
          key,       \* device -> the encryption key, or None
          directed,  \* device -> directed_transport
          job,       \* thread -> what it is doing
          sent,      \* every send_payload, with its outcome; frames are
                     \* numbered by their place in it
          got,       \* device -> frames handled and as what, in order
          used,      \* the scenario
          changes,   \* how often a setting was changed
          again,     \* history: the frames the network has delivered again
          repeats    \* how often it did

links == <<slot, stage, queue, wire>>
settings == <<key, directed, changes>>
fate == <<again, repeats>>
sendVars == <<links, air, settings, job, sent, got, used, fate>>

Idle == [pc |-> "idle", dev |-> None, todo |-> {}, to |-> None, text |-> None,
         via |-> None, key |-> None, frame |-> 0, ended |-> {}]
Ended(d) == {l \in Links : stage[d][l] \in {"left", "gone"}}

-----------------------------------------------------------------------------
\* Sending.

\* Mutant: WebSocket whenever the peer has ever been linked.
BestProtoStale(d, e) ==
    IF slot[d][e] # None \/ Ended(d) # {} THEN "WS" ELSE directed[d]

best_proto(d, e) == IF slot[d][e] # None THEN "WS" ELSE directed[d]

\* Thread t of device d goes on to send text to the devices todo, in any order
\* (a HashMap has none), and chooses the transport to the first of them
\* (proto_for, clip_proto); with none left a call is over and a receiver reads
\* on.
Jobs(t, d, todo, text) ==
    IF todo = {} THEN {[Idle EXCEPT !.pc = IF t \in Calls THEN "done" ELSE "idle"]}
    ELSE {[Idle EXCEPT !.pc = "send", !.dev = d, !.to = e, !.todo = todo \ {e}, !.text = text,
                       !.via = best_proto(d, e), !.ended = Ended(d)] : e \in todo}

\* send_payload returns; a broadcast goes on with the next peer whatever it was.
Return(t, via, k, res) ==
    /\ sent' = Append(sent, [from |-> job[t].dev, to |-> job[t].to,
                             text |-> job[t].text, via |-> via, key |-> k, res |-> res,
                             ended |-> res # "ok" /\ Ended(job[t].dev) # job[t].ended])
    /\ \E j \in Jobs(t, job[t].dev, job[t].todo, job[t].text) : job' = [job EXCEPT ![t] = j]

\* send_payload up to the look-up of the slot, or to its end for TCP and UDP.
SendPayload(t) ==
    LET d == job[t].dev
        e == job[t].to IN
    /\ job[t].pc = "send"
    /\ \/ key[d] = None /\ Return(t, None, None, "no key") /\ UNCHANGED air
       \/ /\ key[d] # None /\ job[t].via = "WS" /\ slot[d][e] = None
          /\ Return(t, None, key[d], "no link") /\ UNCHANGED air
       \/ /\ key[d] # None /\ job[t].via = "WS" /\ slot[d][e] # None
          /\ job' = [job EXCEPT ![t].pc = "queue", ![t].via = slot[d][e], ![t].key = key[d]]
          /\ UNCHANGED <<sent, air>>
       \/ /\ key[d] # None /\ job[t].via # "WS" /\ e \notin Known[d]
          /\ Return(t, None, key[d], "no peer") /\ UNCHANGED air
       \/ /\ key[d] # None /\ job[t].via # "WS" /\ e \in Known[d]
          /\ \/ Return(t, None, key[d], "failed") /\ UNCHANGED air
             \/ /\ Return(t, job[t].via, key[d], "ok")
                /\ air' = air \cup {Len(sent) + 1}
    /\ UNCHANGED <<links, settings, got>>

\* sender.send: it fails only if the driver has returned and dropped rx.
Enqueue(t) ==
    LET d == job[t].dev
        l == job[t].via IN
    /\ job[t].pc = "queue"
    /\ IF stage[d][l] = "gone"
       THEN Return(t, None, job[t].key, "closed") /\ UNCHANGED queue
       ELSE /\ Return(t, l, job[t].key, "ok")
            /\ queue' = [queue EXCEPT ![d][l] = Append(@, Len(sent) + 1)]
    /\ UNCHANGED <<slot, stage, wire, air, settings, got>>

-----------------------------------------------------------------------------
\* The drivers, which are also the threads that handle what a link brings.
Running(d, l) == <<d, l>> \in Ends /\ stage[d][l] = "up" /\ job[<<d, l>>].pc = "idle"

\* Mutant: the slot is taken without a look at who holds it.
RegisterOver(d, l) ==
    /\ <<d, l>> \in Ends /\ stage[d][l] = "new" /\ l \in used.links
    /\ stage' = [stage EXCEPT ![d][l] = "up"]
    /\ slot' = [slot EXCEPT ![d][Other(l, d)] = l]
    /\ UNCHANGED <<queue, wire, air, settings, job, sent, got>>

\* The link comes up at d: it takes the slot, or gives up as a duplicate;
\* WebRTC takes a slot that is in use.
Register(d, l) ==
    LET e == Other(l, d)
        free == slot[d][e] = None \/ Kind[l] = "webrtc" IN
    /\ <<d, l>> \in Ends /\ stage[d][l] = "new" /\ l \in used.links
    /\ stage' = [stage EXCEPT ![d][l] = IF free THEN "up" ELSE "gone"]
    /\ slot' = IF free THEN [slot EXCEPT ![d][e] = l] ELSE slot
    /\ UNCHANGED <<queue, wire, air, settings, job, sent, got>>

\* Mutant: a frame that cannot be written is skipped on any link.
FlushOn(d, l) ==
    /\ Running(d, l) /\ queue[d][l] # <<>>
    /\ queue' = [queue EXCEPT ![d][l] = Tail(@)]
    /\ \/ wire' = [wire EXCEPT ![d][l] = Append(@, Head(queue[d][l]))]
       \/ UNCHANGED wire
    /\ UNCHANGED <<slot, stage, air, settings, job, sent, got>>

\* One frame of the flush loop; what a data channel refuses is dropped, and
\* the loop goes on (the result of its write is ignored).
Flush(d, l) ==
    /\ Running(d, l) /\ queue[d][l] # <<>>
    /\ queue' = [queue EXCEPT ![d][l] = Tail(@)]
    /\ \/ wire' = [wire EXCEPT ![d][l] = Append(@, Head(queue[d][l]))]
       \/ Kind[l] = "webrtc" /\ UNCHANGED wire
    /\ UNCHANGED <<slot, stage, air, settings, job, sent, got>>

\* The driver leaves its loop: end of stream, a failed read or write, eviction.
\* The frame it could not write is lost with those behind it.
Close(d, l) ==
    /\ Running(d, l)
    /\ stage' = [stage EXCEPT ![d][l] = "closing"]
    /\ UNCHANGED <<slot, queue, wire, air, settings, job, sent, got>>

\* It frees the slot if it is still its own.
Release(d, l) ==
    /\ stage[d][l] = "closing"
    /\ stage' = [stage EXCEPT ![d][l] = "left"]
    /\ slot' = [slot EXCEPT ![d] = [e \in Devices |-> IF @[e] = l THEN None ELSE @[e]]]
    /\ UNCHANGED <<queue, wire, air, settings, job, sent, got>>

\* It returns, and rx is dropped with what is still queued on it.
DropRx(d, l) ==
    /\ stage[d][l] = "left"
    /\ stage' = [stage EXCEPT ![d][l] = "gone"]
    /\ queue' = [queue EXCEPT ![d][l] = <<>>]
    /\ UNCHANGED <<slot, wire, air, settings, job, sent, got>>

-----------------------------------------------------------------------------
\* Receiving: thread r takes frame n, off its link or its socket.

\* Mutant: frames of a WebSocket are handed on in any order.
ReadAny(r, n) ==
    LET l == r[2]
        e == Other(l, r[1]) IN
    /\ r \in Ends /\ Running(r[1], l)
    /\ n \in Range(wire[e][l])
    /\ wire' = [wire EXCEPT ![e][l] = SelectSeq(@, LAMBDA m : m # n)]
    /\ UNCHANGED <<slot, stage, queue, air, fate>>

\* The network delivers datagram n and has another copy of it on the way;
\* neither udp_recv_loop nor Reassembly knows what it has handled already.
Repeat(n) ==
    /\ repeats < used.repeats
    /\ repeats' = repeats + 1 /\ again' = again \cup {n}

\* A driver reads what its peer wrote; over a punched link frames overtake
\* each other, get lost and come again.
Read(r, n) ==
    LET l == r[2]
        e == Other(l, r[1]) IN
    /\ r \in Ends /\ Running(r[1], l)
    /\ \E i \in DOMAIN wire[e][l] :
          /\ i = 1 \/ Kind[l] = "punch"
          /\ n = wire[e][l][i]
          /\ \/ wire' = [wire EXCEPT ![e][l] = RemoveAt(@, i)] /\ UNCHANGED fate
             \/ Kind[l] = "punch" /\ Repeat(n) /\ UNCHANGED wire
    /\ UNCHANGED <<slot, stage, queue, air>>

\* tcp_recv_loop, which handles each stream on a thread of its own (any that
\* is free), and udp_recv_loop, which handles datagrams itself.
RecvLoop(r, n) ==
    LET free == {t \in TcpThreads : job[<<r[1], t>>].pc = "idle"} IN
    /\ r[2] \in {"UDP"} \cup TcpThreads /\ job[r].pc = "idle"
    /\ IF sent[n].via = "TCP" THEN r[2] = CHOOSE t \in free : TRUE
       ELSE r[2] = "UDP" /\ sent[n].via = "UDP"
    /\ n \in air /\ sent[n].to = r[1]
    /\ \/ air' = air \ {n} /\ UNCHANGED fate
       \/ sent[n].via = "UDP" /\ Repeat(n) /\ UNCHANGED air
    /\ UNCHANGED links

\* The frame is done with: shown as a chat or as locked, or handled in-band.
Done(r, n, as) == got' = [got EXCEPT ![r[1]] = Append(@, [frame |-> n, as |-> as])]

\* Mutant: what cannot be opened is dropped.
EnvelopeDropped(r) ==
    /\ job[r].pc = "garbled"
    /\ job' = [job EXCEPT ![r] = Idle]
    /\ UNCHANGED <<links, air, settings, sent, got>>

\* envelope_to_message, which takes the key lock a second time.
EnvelopeToMessage(r) ==
    /\ job[r].pc = "garbled"
    /\ Done(r, job[r].frame, IF key[r[1]] = sent[job[r].frame].key THEN "chat" ELSE "locked")
    /\ job' = [job EXCEPT ![r] = Idle]
    /\ UNCHANGED <<links, air, settings, sent>>

-----------------------------------------------------------------------------
\* A setting is changed by the application.
Change(d) ==
    /\ d \in used.changers /\ changes < used.changes
    /\ changes' = changes + 1

\* set_encryption_key, logout.
SetKey(d, k) ==
    /\ Change(d) /\ key[d] # k
    /\ key' = [key EXCEPT ![d] = k]
    /\ UNCHANGED <<links, air, directed, job, sent, got>>

\* Mutant: stored as given.
SetDirectedRaw(d, v) ==
    /\ Change(d) /\ directed[d] # v
    /\ directed' = [directed EXCEPT ![d] = IF v = "TCP" THEN "tcp" ELSE v]
    /\ UNCHANGED <<links, air, key, job, sent, got>>

set_directed_transport(d, v) ==
    /\ Change(d) /\ directed[d] # v
    /\ directed' = [directed EXCEPT ![d] = v]
    /\ UNCHANGED <<links, air, key, job, sent, got>>

\* Every device has been started and its user has set a key.
SendInit ==
    /\ used \in Scenarios
    /\ slot = [d \in Devices |-> [e \in Devices |-> None]]
    /\ stage = [d \in Devices |-> [l \in Links |-> "new"]]
    /\ queue = [d \in Devices |-> [l \in Links |-> <<>>]] /\ wire = queue
    /\ air = {} /\ sent = <<>> /\ got = [d \in Devices |-> <<>>]
    /\ key \in [Devices -> Keys] /\ changes = 0 /\ again = {} /\ repeats = 0
    /\ directed = [d \in Devices |-> "UDP"]
    /\ job = [t \in Threads |-> Idle]

\* Every step but the calls and the handling of a frame.
SendNext ==
    \/ \E t \in Threads : SendPayload(t) \/ Enqueue(t)
    \/ \E d \in Devices, l \in Links :
          Register(d, l) \/ Flush(d, l) \/ Close(d, l) \/ Release(d, l) \/ DropRx(d, l)
    \/ \E r \in Receivers : EnvelopeToMessage(r)
    \/ \E d \in Devices :
          \/ \E v \in {"UDP", "TCP"} : set_directed_transport(d, v)
          \/ \E k \in Keys \cup {None} : SetKey(d, k)

-----------------------------------------------------------------------------
\* Properties of what is sent and handled, whatever the messages are about.

Frames == DOMAIN sent
Ok(n) == sent[n].res = "ok"
TimesHandled(n) == Cardinality({x \in UNION {{d} \X DOMAIN got[d] : d \in Devices} :
                                  got[x[1]][x[2]].frame = n})
HandledAs(n, as) == \E d \in Devices : [frame |-> n, as |-> as] \in Range(got[d])
UnderWay(n) ==
    \/ n \in air
    \/ \E d \in Devices, l \in Links : n \in Range(queue[d][l]) \cup Range(wire[d][l])
    \/ \E r \in Receivers : job[r].pc = "garbled" /\ job[r].frame = n
LinkEnded(n) ==
    /\ sent[n].via \in Links
    /\ \E d \in {sent[n].from, sent[n].to} : stage[d][sent[n].via] \in {"closing", "left", "gone"}

\* A message whose send reported success is handled once, or more often only
\* because the network repeated a datagram (of UDP or a punched link: TCP, a
\* WebSocket and a data channel hand nothing on twice), and until it has been
\* handled it is under way, unless its link has ended or its data channel
\* refused it: queueing on the channel of a driver that is about to leave is
\* the only other way to lose it.  What was refused is never handled.
Accounted ==
    \A n \in Frames :
        IF ~Ok(n) THEN TimesHandled(n) = 0
        ELSE \/ TimesHandled(n) = 1
             \/ /\ TimesHandled(n) > 1 /\ n \in again
                /\ sent[n].via = "UDP" \/ Kind[sent[n].via] = "punch"
             \/ /\ TimesHandled(n) = 0
                /\ UnderWay(n) \/ LinkEnded(n) \/ Kind[sent[n].via] = "webrtc"

\* Over a WebSocket a device handles what its peer sent in the order of the
\* sends and without gaps (a write that fails ends the link): what it has
\* handled before a frame is what was sent over the socket before it.
InOrder ==
    \A x \in Ends : Kind[x[2]] = "ws" =>
        LET handled == got[x[1]]
            over(n) == sent[n].via = x[2] /\ sent[n].to = x[1] IN
        \A i \in DOMAIN handled, n \in Frames :
            over(n) /\ over(handled[i].frame) =>
                (n < handled[i].frame <=> \E j \in 1 .. i - 1 : handled[j].frame = n)

\* best_proto falls back to TCP or UDP when there is no link, so a send is
\* refused for want of a link only if a link of this device ended between the
\* choice and the look-up.
RefusedOnlyIfEnded ==
    \A n \in Frames : sent[n].res \in {"no link", "closed"} => sent[n].ended
=============================================================================
