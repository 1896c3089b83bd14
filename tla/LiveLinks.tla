----------------------------- MODULE LiveLinks -----------------------------
(***************************************************************************)
(* The link registry of one device: the two maps every transport driver    *)
(* shares, and the threads that write them, one step per lock acquisition. *)
(*                                                                         *)
(*   ws_conns   node_id -> (conn id, sender)  where outgoing frames go     *)
(*   p2p_conns  node_id -> P2pConn            "who is connected, over what" *)
(*                                                                         *)
(* The maps have a mutex each and no lock covers both, and the events that *)
(* drive the UI dot are emitted after the lock is released.  The writers:  *)
(* one WebSocket thread per socket (transport/ws.rs), one thread per       *)
(* punched link (transport/punch.rs), one per WebRTC link                  *)
(* (transport/rtc.rs), the UDP/TCP receivers (a p2p_ping marks its sender  *)
(* live), the heartbeat thread and the signalling callback (Bye).          *)
(***************************************************************************)
EXTENDS Integers

CONSTANTS Peers,         \* node ids of the remote devices
          WsThreads,     \* handle_ws_conn threads
          PunchThreads,  \* run_punch_conn threads, round trip confirmed
          RtcThreads,    \* drive threads; {} in a build without `webrtc`
          Receivers,     \* udp_recv_loop and tcp_recv_loop threads
          None,
          TIMEOUT,       \* heartbeat staleness limit, in clock ticks
          MaxConns       \* bound: connection ids drawn from one sequence

Threads == WsThreads \cup PunchThreads \cup RtcThreads
Actors  == Threads \cup Receivers \cup {"hb", "sig"}

ASSUME NoneAssumption == None \notin Peers \cup Actors
ASSUME ThreadAssumption ==
    /\ WsThreads \cap PunchThreads = {}
    /\ WsThreads \cap RtcThreads = {}
    /\ PunchThreads \cap RtcThreads = {}
    /\ Receivers \cap Threads = {}
    /\ {"hb", "sig"} \cap (Threads \cup Receivers) = {}
ASSUME TimeoutAssumption == TIMEOUT \in Nat
\* The id sequences start a million apart: past this bound they would meet.
ASSUME MaxConnsAssumption == MaxConns \in Nat /\ MaxConns <= 999999

VARIABLES ws_conns,   \* peer -> [id, tx], tx the thread that owns the receiver
          p2p_conns,  \* peer -> [kind, age], age = now - last_seen
          seq,        \* WS_CONN_SEQ, PUNCH_CONN_SEQ, RTC_CONN_SEQ
          pc,         \* where each driver thread is
          peer,       \* the peer a driver thread serves
          conn_id,    \* its my_conn_id
          pending,    \* actor -> event it is about to emit
          hb_stale,   \* stale peers the heartbeat found in its snapshot
          ui          \* peer -> link the UI shows: a kind, or "off"

vars == <<ws_conns, p2p_conns, seq, pc, peer, conn_id, pending, hb_stale, ui>>

LinkKinds == {"ws", "punch", "webrtc"}
Kinds     == LinkKinds \cup {"udp"}

Kind(t) == CASE t \in WsThreads    -> "ws"
             [] t \in PunchThreads -> "punch"
             [] t \in RtcThreads   -> "webrtc"

\* Mutant: every sequence starts at 1.
IdBaseSame == [k \in LinkKinds |-> 1]

\* Where the three static sequences start.
IdBase == [k \in LinkKinds |-> CASE k = "ws"     -> 1
                                 [] k = "punch"  -> 1000000
                                 [] k = "webrtc" -> 2000000]

Free    == [id |-> 0, tx |-> None]        \* no ws_conns entry
Absent  == [kind |-> "off", age |-> 0]    \* no p2p_conns entry
NoEvent == [peer |-> None, kind |-> "off"]

\* Ages past the limit are not told apart.
AgeCap == TIMEOUT + 1

Registered == {"mark", "loop", "msg", "slot", "live", "exit"}
PCs == Registered \cup {"idle", "open", "drop", "done"}

-----------------------------------------------------------------------------
\* The registry operations of transport/mod.rs, as done by actor a.

IsLive(p) == p2p_conns[p].kind # "off"
Owns(t)   == ws_conns[peer[t]].id = conn_id[t]
\* An actor is held up between a map update and the event it must emit.
Ready(a)  == pending[a] = NoEvent

\* mark_live: insert, or refresh without touching the kind.
MarkLive(a, p, k) ==
    /\ p2p_conns' = [p2p_conns EXCEPT ![p] =
                        [kind |-> IF IsLive(p) THEN @.kind ELSE k, age |-> 0]]
    /\ pending' = IF IsLive(p) THEN pending
                  ELSE [pending EXCEPT ![a] = [peer |-> p, kind |-> k]]

\* touch_live: refresh an entry that is there.
TouchLive(p) ==
    p2p_conns' = [p2p_conns EXCEPT ![p] =
                     IF IsLive(p) THEN [kind |-> @.kind, age |-> 0] ELSE @]

\* Mutant: the UI is not told.
DropLiveQuiet(a, p) ==
    p2p_conns' = [p2p_conns EXCEPT ![p] = Absent] /\ UNCHANGED pending

\* drop_live: remove, and announce it when there was something to remove.
DropLive(a, p) ==
    /\ p2p_conns' = [p2p_conns EXCEPT ![p] = Absent]
    /\ pending' = IF IsLive(p)
                  THEN [pending EXCEPT ![a] = [peer |-> p, kind |-> "off"]]
                  ELSE pending

\* The event leaves: sink.emit, after the map's lock was released.
Emit(a) ==
    /\ ~Ready(a)
    /\ ui' = [ui EXCEPT ![pending[a].peer] = pending[a].kind]
    /\ pending' = [pending EXCEPT ![a] = NoEvent]
    /\ UNCHANGED <<ws_conns, p2p_conns, seq, pc, peer, conn_id, hb_stale>>

-----------------------------------------------------------------------------
\* Driver threads.

Goto(t, l) == pc' = [pc EXCEPT ![t] = l]

\* A socket was accepted or dialled, a round trip confirmed, or an SDP
\* exchange completed: the thread starts and draws its connection id.
Spawn(t, p) ==
    LET k == Kind(t) IN
    /\ pc[t] = "idle"
    /\ seq[k] < IdBase[k] + MaxConns
    /\ seq' = [seq EXCEPT ![k] = @ + 1]
    /\ conn_id' = [conn_id EXCEPT ![t] = seq[k]]
    /\ peer' = [peer EXCEPT ![t] = p]
    /\ Goto(t, "open")
    /\ UNCHANGED <<ws_conns, p2p_conns, pending, hb_stale, ui>>

\* The socket closes before its Hello, or the data channel never opens.  A
\* punched link registers without waiting for anything.
NeverOpens(t) ==
    /\ t \notin PunchThreads
    /\ pc[t] = "open"
    /\ Goto(t, "done")
    /\ UNCHANGED <<ws_conns, p2p_conns, seq, peer, conn_id, pending, hb_stale, ui>>

\* Mutant: the duplicate test is gone, the newest connection wins.
RegisterAlways(t) ==
    /\ pc[t] = "open"
    /\ ws_conns' = [ws_conns EXCEPT ![peer[t]] = [id |-> conn_id[t], tx |-> t]]
    /\ Goto(t, "mark")
    /\ UNCHANGED <<p2p_conns, seq, peer, conn_id, pending, hb_stale, ui>>

\* Hello (WS), registration (punch) and ChannelOpen (WebRTC): take the slot.
\* WS and punch give up when the peer already has one; WebRTC does not look.
Register(t) ==
    LET refused == t \notin RtcThreads /\ ws_conns[peer[t]] # Free IN
    /\ pc[t] = "open"
    /\ ws_conns' = IF refused THEN ws_conns
                   ELSE [ws_conns EXCEPT ![peer[t]] = [id |-> conn_id[t], tx |-> t]]
    /\ Goto(t, IF refused THEN "done" ELSE "mark")
    /\ UNCHANGED <<p2p_conns, seq, peer, conn_id, pending, hb_stale, ui>>

\* mark_live with the driver's own kind, after the slot's lock was released.
Mark(t) ==
    /\ pc[t] = "mark"
    /\ MarkLive(t, peer[t], Kind(t))
    /\ Goto(t, "loop")
    /\ UNCHANGED <<ws_conns, seq, peer, conn_id, hb_stale, ui>>

\* A punched link hears a probe, a reply or a whole frame ("msg" when the
\* frame is a p2p_ping or p2p_pong), then makes its end-of-round checks.
PunchReceive(t) ==
    /\ t \in PunchThreads
    /\ pc[t] = "loop" /\ Ready(t)
    /\ TouchLive(peer[t])
    /\ \E l \in {"slot", "msg"} : Goto(t, l)
    /\ UNCHANGED <<ws_conns, seq, peer, conn_id, pending, hb_stale, ui>>

\* P2pPingHandler run by a driver for a frame that came over its own link.
\* WS and WebRTC may go on to the next frame, a punched link ends its round.
HandlePing(t) ==
    /\ pc[t] = IF t \in PunchThreads THEN "msg" ELSE "loop"
    /\ Ready(t)
    /\ MarkLive(t, peer[t], "udp")
    /\ Goto(t, IF t \in PunchThreads THEN "slot" ELSE "loop")
    /\ UNCHANGED <<ws_conns, seq, peer, conn_id, hb_stale, ui>>

\* A round in which the punched or WebRTC link heard nothing of interest.
Quiet(t) ==
    /\ t \notin WsThreads
    /\ pc[t] = "loop" /\ Ready(t)
    /\ Goto(t, "slot")
    /\ UNCHANGED <<ws_conns, p2p_conns, seq, peer, conn_id, pending, hb_stale, ui>>

\* Close frame, read error, failed write, rtc no longer alive.
Close(t) ==
    /\ pc[t] = "loop" /\ Ready(t)
    /\ Goto(t, "exit")
    /\ UNCHANGED <<ws_conns, p2p_conns, seq, peer, conn_id, pending, hb_stale, ui>>

\* still_ours: has a newer link taken the slot?  (ws_conns' lock)
CheckSlot(t) ==
    /\ pc[t] = "slot" /\ Ready(t)
    /\ Goto(t, IF Owns(t) THEN "live" ELSE "exit")
    /\ UNCHANGED <<ws_conns, p2p_conns, seq, peer, conn_id, pending, hb_stale, ui>>

\* Mutant: the eviction test is forgotten.
CheckLiveNever(t) ==
    /\ pc[t] = "live"
    /\ Goto(t, "loop")
    /\ UNCHANGED <<ws_conns, p2p_conns, seq, peer, conn_id, pending, hb_stale, ui>>

\* Has the heartbeat evicted the peer?  (p2p_conns' lock)
CheckLive(t) ==
    /\ pc[t] = "live"
    /\ Goto(t, IF IsLive(peer[t]) THEN "loop" ELSE "exit")
    /\ UNCHANGED <<ws_conns, p2p_conns, seq, peer, conn_id, pending, hb_stale, ui>>

\* Mutant: a WS driver leaves without its drop_live.
UnregisterNoDrop(t) ==
    /\ pc[t] = "exit"
    /\ ws_conns' = IF Owns(t) THEN [ws_conns EXCEPT ![peer[t]] = Free] ELSE ws_conns
    /\ Goto(t, "done")
    /\ UNCHANGED <<p2p_conns, seq, peer, conn_id, pending, hb_stale, ui>>

\* Leaving: remove the slot if it is still ours.  A WS thread that lost its
\* slot stops here, the two others go on to drop_live whatever they found.
Unregister(t) ==
    /\ pc[t] = "exit"
    /\ ws_conns' = IF Owns(t) THEN [ws_conns EXCEPT ![peer[t]] = Free] ELSE ws_conns
    /\ Goto(t, IF Owns(t) \/ t \notin WsThreads THEN "drop" ELSE "done")
    /\ UNCHANGED <<p2p_conns, seq, peer, conn_id, pending, hb_stale, ui>>

\* ... and, with the slot's lock released, drop the live entry.
Drop(t) ==
    /\ pc[t] = "drop"
    /\ DropLive(t, peer[t])
    /\ Goto(t, "done")
    /\ UNCHANGED <<ws_conns, seq, peer, conn_id, hb_stale, ui>>

-----------------------------------------------------------------------------
\* The other writers.

\* A p2p_ping or p2p_pong of p arrives by plain UDP or TCP.
ReceivePing(r, p) ==
    /\ Ready(r)
    /\ MarkLive(r, p, "udp")
    /\ UNCHANGED <<ws_conns, seq, pc, peer, conn_id, hb_stale, ui>>

Stale(p) == IsLive(p) /\ p2p_conns[p].kind # "ws" /\ p2p_conns[p].age > TIMEOUT

\* Mutant: the staleness test never fires.
HbSnapshotNone ==
    /\ hb_stale = {} /\ Ready("hb")
    /\ hb_stale' = {}
    /\ UNCHANGED <<ws_conns, p2p_conns, seq, pc, peer, conn_id, pending, ui>>

\* The heartbeat wakes up and copies the map ...
HbSnapshot ==
    /\ hb_stale = {} /\ Ready("hb")
    /\ hb_stale' = {p \in Peers : Stale(p)}
    /\ UNCHANGED <<ws_conns, p2p_conns, seq, pc, peer, conn_id, pending, ui>>

\* ... and then drops the entries that were stale in its copy, one by one.
HbEvict(p) ==
    /\ p \in hb_stale /\ Ready("hb")
    /\ DropLive("hb", p)
    /\ hb_stale' = hb_stale \ {p}
    /\ UNCHANGED <<ws_conns, seq, pc, peer, conn_id, ui>>

\* The peer signals Bye.
Bye(p) ==
    /\ Ready("sig")
    /\ DropLive("sig", p)
    /\ UNCHANGED <<ws_conns, seq, pc, peer, conn_id, hb_stale, ui>>

\* A clock tick: every link gets older.
Tick ==
    /\ \E p \in Peers : IsLive(p) /\ p2p_conns[p].age < AgeCap
    /\ p2p_conns' = [p \in Peers |->
                        IF IsLive(p) /\ p2p_conns[p].age < AgeCap
                        THEN [p2p_conns[p] EXCEPT !.age = @ + 1]
                        ELSE p2p_conns[p]]
    /\ UNCHANGED <<ws_conns, seq, pc, peer, conn_id, pending, hb_stale, ui>>

-----------------------------------------------------------------------------
Init ==
    /\ ws_conns  = [p \in Peers |-> Free]
    /\ p2p_conns = [p \in Peers |-> Absent]
    /\ seq       = IdBase
    /\ pc        = [t \in Threads |-> "idle"]
    /\ peer      = [t \in Threads |-> None]
    /\ conn_id   = [t \in Threads |-> 0]
    /\ pending   = [a \in Actors |-> NoEvent]
    /\ hb_stale  = {}
    /\ ui        = [p \in Peers |-> "off"]

\* What a driver thread does by itself, as opposed to what befalls it.
Driver(t) == \/ Register(t) \/ Mark(t) \/ Quiet(t) \/ CheckSlot(t)
             \/ CheckLive(t) \/ Unregister(t) \/ Drop(t)

Befalls(t) == \/ NeverOpens(t) \/ PunchReceive(t) \/ HandlePing(t) \/ Close(t)
              \/ \E p \in Peers : Spawn(t, p)

Next == \/ \E t \in Threads : Driver(t) \/ Befalls(t)
        \/ \E a \in Actors : Emit(a)
        \/ \E p \in Peers : \/ \E r \in Receivers : ReceivePing(r, p)
                            \/ HbEvict(p)
                            \/ Bye(p)
        \/ HbSnapshot
        \/ Tick

Spec == Init /\ [][Next]_vars

\* Threads run: a registered driver keeps making rounds of its loop (its
\* reads have timeouts; a WebRTC driver drains finitely many events, hence
\* the strong fairness), an event whose update is done gets emitted, the
\* heartbeat wakes up every INTERVAL.  Nothing is assumed of the network,
\* the peers or the clock.
Fairness ==
    /\ \A t \in Threads :
          WF_vars(pc[t] # "open" /\ (Driver(t) \/ (pc[t] = "msg" /\ HandlePing(t))))
    /\ \A t \in RtcThreads : SF_vars(Quiet(t))
    /\ \A a \in Actors : WF_vars(Emit(a))
    /\ WF_vars(HbSnapshot)
    /\ WF_vars(\E p \in Peers : HbEvict(p))

FairSpec == Spec /\ Fairness

-----------------------------------------------------------------------------
\* Properties.

\* Types of the two maps, the drivers and the events; ages stay within the cap.
TypeOK ==
    /\ ws_conns \in [Peers -> [id : Nat, tx : Threads \cup {None}]]
    /\ p2p_conns \in [Peers -> [kind : Kinds \cup {"off"}, age : 0..AgeCap]]
    /\ seq \in [LinkKinds -> Nat]
    /\ pc \in [Threads -> PCs]
    /\ peer \in [Threads -> Peers \cup {None}]
    /\ conn_id \in [Threads -> Nat]
    /\ pending \in [Actors -> [peer : Peers, kind : Kinds \cup {"off"}] \cup {NoEvent}]
    /\ hb_stale \subseteq Peers
    /\ ui \in [Peers -> Kinds \cup {"off"}]

\* Every slot leads to a driver that still serves that peer and has not yet
\* cleaned up, so a queued frame has a reader.  It rests on the connection
\* ids being unique across the three sequences: ownership is tested by id.
SlotHasDriver ==
    \A p \in Peers : ws_conns[p] # Free =>
        LET t == ws_conns[p].tx IN
        /\ t \in Threads
        /\ pc[t] \in Registered
        /\ peer[t] = p
        /\ conn_id[t] = ws_conns[p].id

\* How far a driver has come, as LinkSlots sees it.
Stage(t) == CASE pc[t] \in {"idle", "open"} -> "new"
              [] pc[t] = "exit"             -> "closing"
              [] pc[t] \in {"drop", "done"} -> "gone"
              [] OTHER                      -> "up"

Slots == INSTANCE LinkSlots WITH
            Links      <- Threads,
            Preemptive <- RtcThreads,
            holder     <- [p \in Peers |-> ws_conns[p].tx],
            stage      <- [t \in Threads |-> Stage(t)]

\* The ws_conns discipline: a slot is taken when free or by WebRTC, and only
\* the driver that holds it frees it, although any thread may write the map.
SlotDiscipline == Slots!Spec

\* A punched or WebRTC driver that has lost its slot or its live entry does
\* not linger: it stops, or it gets them back.
LostLinkStops ==
    \A t \in Threads \ WsThreads :
        []<>(pc[t] \notin Registered \/ (Owns(t) /\ IsLive(peer[t])))

\* A connectionless link that stays silent past TIMEOUT is evicted (or
\* spoken for again): no peer is shown connected forever on a dead path.
StaleLinkEvicted == \A p \in Peers : []<>~Stale(p)

\* A WebSocket link in the registry has its socket thread: WS links are never
\* evicted by the heartbeat, so one without a thread would stay forever.
NoGhostLink ==
    \A p \in Peers : p2p_conns[p].kind = "ws" =>
        \E t \in WsThreads : peer[t] = p /\ pc[t] \in {"loop", "exit", "drop"}

\* Two drivers never serve the same peer at once, whatever their transport.
OneLinkPerPeer ==
    \A t, u \in Threads :
        pc[t] \in Registered /\ pc[u] \in Registered /\ peer[t] = peer[u] => t = u

\* "One socket per peer: drop a duplicate connection."
OneSocketPerPeer ==
    \A t, u \in WsThreads :
        pc[t] \in Registered /\ pc[u] \in Registered /\ peer[t] = peer[u] => t = u

\* A driver's clean-up never drops the live entry of another, running link.
CleanupSparesOthers ==
    [][\A t, u \in Threads :
          pc[t] = "drop" /\ pc'[t] = "done" /\ u # t /\ peer[u] = peer[t]
             => pc[u] \notin Registered \ {"mark", "exit"}]_vars

\* Once every event has been emitted the UI shows what the registry holds.
UiShowsRegistry ==
    (\A a \in Actors : Ready(a)) => \A p \in Peers : ui[p] = p2p_conns[p].kind

\* It does unless two actors have held events back at the same time, which
\* then may leave in the wrong order.
UiFollows ==
    [](\A a, b \in Actors : a # b => Ready(a) \/ Ready(b)) => []UiShowsRegistry

\* The heartbeat never drops a WebSocket link.
HeartbeatSkipsWs ==
    [][\A p \in hb_stale : p \notin hb_stale' => p2p_conns[p].kind # "ws"]_vars
=============================================================================
