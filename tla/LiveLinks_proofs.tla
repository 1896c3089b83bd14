-------------------------- MODULE LiveLinks_proofs --------------------------
(***************************************************************************)
(* Theorems about LiveLinks, for any sets of peers and threads.            *)
(***************************************************************************)
EXTENDS LiveLinks, TLAPS

\* Every driver thread serves one of the three kinds of link.
LEMMA KindType == \A t \in Threads : Kind(t) \in LinkKinds
  BY ThreadAssumption DEF Kind, Threads, LinkKinds

\* The connection-id counters start as numbers.
LEMMA IdBaseType == IdBase \in [LinkKinds -> Nat]
  BY SMT DEF IdBase, LinkKinds

\* The empty entries of the two maps and the empty event have their fields.
LEMMA RecordTypes ==
  /\ Free \in [id : Nat, tx : Threads \cup {None}]
  /\ Absent \in [kind : Kinds \cup {"off"}, age : 0..AgeCap]
  /\ AgeCap \in Nat
  BY TimeoutAssumption DEF Free, Absent, AgeCap

\* mark_live keeps the two maps it writes well typed.
LEMMA MarkLiveType ==
  ASSUME TypeOK, NEW a \in Actors, NEW p \in Peers, NEW k \in Kinds,
         MarkLive(a, p, k)
  PROVE  /\ p2p_conns' \in [Peers -> [kind : Kinds \cup {"off"}, age : 0..AgeCap]]
         /\ pending' \in [Actors -> [peer : Peers, kind : Kinds \cup {"off"}] \cup {NoEvent}]
  BY RecordTypes DEF TypeOK, MarkLive

\* So does drop_live.
LEMMA DropLiveType ==
  ASSUME TypeOK, NEW a \in Actors, NEW p \in Peers, DropLive(a, p)
  PROVE  /\ p2p_conns' \in [Peers -> [kind : Kinds \cup {"off"}, age : 0..AgeCap]]
         /\ pending' \in [Actors -> [peer : Peers, kind : Kinds \cup {"off"}] \cup {NoEvent}]
  BY RecordTypes DEF TypeOK, DropLive

\* A thread that has started serves some peer.
HasPeer == \A t \in Threads : pc[t] # "idle" => peer[t] \in Peers

\* Both maps start empty, and no thread serves a peer.
LEMMA TypeInit == Init => TypeOK /\ HasPeer
  BY RecordTypes, IdBaseType DEF Init, TypeOK, HasPeer, PCs

\* Every step keeps the types, and a running thread its peer.
LEMMA TypeStep == TypeOK /\ HasPeer /\ [Next]_vars => TypeOK' /\ HasPeer'
<1> SUFFICES ASSUME TypeOK, HasPeer, [Next]_vars PROVE TypeOK' /\ HasPeer'
  OBVIOUS
<1> USE RecordTypes
<1>1. ASSUME NEW t \in Threads, Driver(t) PROVE TypeOK' /\ HasPeer'
  <2>a. t \in Actors BY DEF Actors
  <2>1. CASE Register(t)
    BY <2>1 DEF Register, Goto, TypeOK, HasPeer, PCs, Registered
  <2>2. CASE Mark(t)
    <3>1. peer[t] \in Peers /\ Kind(t) \in Kinds
      BY <2>2, KindType DEF Mark, HasPeer, Kinds
    <3> QED BY <2>a, <2>2, <3>1, MarkLiveType DEF Mark, Goto, TypeOK, HasPeer, PCs, Registered
  <2>3. CASE Quiet(t)
    BY <2>3 DEF Quiet, Goto, TypeOK, HasPeer, PCs, Registered
  <2>4. CASE CheckSlot(t)
    BY <2>4 DEF CheckSlot, Goto, TypeOK, HasPeer, PCs, Registered
  <2>5. CASE CheckLive(t)
    BY <2>5 DEF CheckLive, Goto, TypeOK, HasPeer, PCs, Registered
  <2>6. CASE Unregister(t)
    BY <2>6 DEF Unregister, Goto, TypeOK, HasPeer, PCs, Registered
  <2>7. CASE Drop(t)
    <3>1. peer[t] \in Peers
      BY <2>7 DEF Drop, HasPeer
    <3> QED BY <2>a, <2>7, <3>1, DropLiveType DEF Drop, Goto, TypeOK, HasPeer, PCs, Registered
  <2> QED BY <1>1, <2>1, <2>2, <2>3, <2>4, <2>5, <2>6, <2>7 DEF Driver
<1>2. ASSUME NEW t \in Threads, Befalls(t) PROVE TypeOK' /\ HasPeer'
  <2>a. t \in Actors BY DEF Actors
  <2>1. CASE NeverOpens(t)
    BY <2>1 DEF NeverOpens, Goto, TypeOK, HasPeer, PCs, Registered
  <2>2. CASE PunchReceive(t)
    <3>0. peer[t] \in Peers
      BY <2>2 DEF PunchReceive, HasPeer
    <3>1. p2p_conns' \in [Peers -> [kind : Kinds \cup {"off"}, age : 0..AgeCap]]
      BY <2>2, <3>0 DEF PunchReceive, TouchLive, TypeOK
    <3> QED BY <2>2, <3>1 DEF PunchReceive, Goto, TypeOK, HasPeer, PCs, Registered
  <2>3. CASE HandlePing(t)
    <3>1. peer[t] \in Peers /\ "udp" \in Kinds
      BY <2>3 DEF HandlePing, HasPeer, Kinds
    <3> QED BY <2>a, <2>3, <3>1, MarkLiveType DEF HandlePing, Goto, TypeOK, HasPeer, PCs, Registered
  <2>4. CASE Close(t)
    BY <2>4 DEF Close, Goto, TypeOK, HasPeer, PCs, Registered
  <2>5. ASSUME NEW p \in Peers, Spawn(t, p) PROVE TypeOK' /\ HasPeer'
    BY <2>5, KindType DEF Spawn, Goto, TypeOK, HasPeer, PCs, Registered
  <2> QED BY <1>2, <2>1, <2>2, <2>3, <2>4, <2>5 DEF Befalls
<1>3. ASSUME NEW a \in Actors, Emit(a) PROVE TypeOK' /\ HasPeer'
  <2>1. pending[a] \in [peer : Peers, kind : Kinds \cup {"off"}]
    BY <1>3 DEF Emit, Ready, TypeOK
  <2> QED BY <1>3, <2>1 DEF Emit, TypeOK, HasPeer
<1>4. ASSUME NEW p \in Peers, NEW r \in Receivers, ReceivePing(r, p)
      PROVE  TypeOK' /\ HasPeer'
  <2>1. r \in Actors /\ "udp" \in Kinds BY DEF Actors, Kinds
  <2> QED BY <1>4, <2>1, MarkLiveType DEF ReceivePing, TypeOK, HasPeer
<1>5. ASSUME NEW p \in Peers, HbEvict(p) PROVE TypeOK' /\ HasPeer'
  <2>1. "hb" \in Actors BY DEF Actors
  <2> QED BY <1>5, <2>1, DropLiveType DEF HbEvict, TypeOK, HasPeer
<1>6. ASSUME NEW p \in Peers, Bye(p) PROVE TypeOK' /\ HasPeer'
  <2>1. "sig" \in Actors BY DEF Actors
  <2> QED BY <1>6, <2>1, DropLiveType DEF Bye, TypeOK, HasPeer
<1>7. CASE HbSnapshot
  BY <1>7 DEF HbSnapshot, TypeOK, HasPeer
<1>8. CASE Tick
  <2>0. ASSUME NEW p \in Peers, p2p_conns[p].age < AgeCap
        PROVE  [p2p_conns[p] EXCEPT !.age = @ + 1]
                  \in [kind : Kinds \cup {"off"}, age : 0..AgeCap]
    <3> DEFINE c == p2p_conns[p]
    <3>1. c \in [kind : Kinds \cup {"off"}, age : 0..AgeCap] BY DEF TypeOK
    <3> HIDE DEF c
    <3>2. c.age < AgeCap => c.age + 1 \in 0..AgeCap BY <3>1
    <3>3. c.age < AgeCap => [c EXCEPT !.age = @ + 1] \in [kind : Kinds \cup {"off"}, age : 0..AgeCap]
      BY <3>1, <3>2
    <3> QED BY <2>0, <3>3 DEF c
  <2>1. p2p_conns' \in [Peers -> [kind : Kinds \cup {"off"}, age : 0..AgeCap]]
    BY <1>8, <2>0 DEF Tick, TypeOK
  <2> QED BY <1>8, <2>1 DEF Tick, TypeOK, HasPeer
<1>9. CASE UNCHANGED vars
  BY <1>9 DEF vars, TypeOK, HasPeer
<1> QED BY <1>1, <1>2, <1>3, <1>4, <1>5, <1>6, <1>7, <1>8, <1>9 DEF Next

\* Every reachable state is well typed: in particular an event that is about
\* to be emitted always names a peer, and no index leaves its map's domain.
THEOREM TypeCorrect == Spec => []TypeOK
<1>1. Spec => [](TypeOK /\ HasPeer)
  BY TypeInit, TypeStep, PTL DEF Spec
<1> QED BY <1>1, PTL

-----------------------------------------------------------------------------
(***************************************************************************)
(* Only Spawn draws ids, only Register and Unregister write ws_conns.      *)
(* Whatever else happens, the ids stay and no thread enters or leaves the  *)
(* registered part of its life.                                            *)
(***************************************************************************)

Elsewhere ==
  /\ UNCHANGED <<ws_conns, seq, peer, conn_id>>
  /\ \A t \in Threads :
        /\ pc'[t] = "idle" <=> pc[t] = "idle"
        /\ pc'[t] \in Registered <=> pc[t] \in Registered

\* What any step may do to the slots, the counters and one thread.
LEMMA StepCases ==
  ASSUME TypeOK, [Next]_vars
  PROVE  \/ \E t \in Threads : Register(t) \/ Unregister(t)
         \/ \E t \in Threads, p \in Peers : Spawn(t, p)
         \/ Elsewhere
<1>1. ASSUME NEW t \in Threads, Driver(t), ~Register(t), ~Unregister(t) PROVE Elsewhere
  <2>1. CASE Mark(t)      BY <2>1 DEF Mark, Goto, TypeOK, Elsewhere, Registered
  <2>2. CASE Quiet(t)     BY <2>2 DEF Quiet, Goto, TypeOK, Elsewhere, Registered
  <2>3. CASE CheckSlot(t) BY <2>3 DEF CheckSlot, Goto, TypeOK, Elsewhere, Registered
  <2>4. CASE CheckLive(t) BY <2>4 DEF CheckLive, Goto, TypeOK, Elsewhere, Registered
  <2>5. CASE Drop(t)      BY <2>5 DEF Drop, Goto, TypeOK, Elsewhere, Registered
  <2> QED BY <1>1, <2>1, <2>2, <2>3, <2>4, <2>5 DEF Driver
<1>2. ASSUME NEW t \in Threads, Befalls(t), ~\E p \in Peers : Spawn(t, p) PROVE Elsewhere
  <2>1. CASE NeverOpens(t)   BY <2>1 DEF NeverOpens, Goto, TypeOK, Elsewhere, Registered
  <2>2. CASE PunchReceive(t) BY <2>2 DEF PunchReceive, Goto, TypeOK, Elsewhere, Registered
  <2>3. CASE HandlePing(t)   BY <2>3 DEF HandlePing, Goto, TypeOK, Elsewhere, Registered
  <2>4. CASE Close(t)        BY <2>4 DEF Close, Goto, TypeOK, Elsewhere, Registered
  <2> QED BY <1>2, <2>1, <2>2, <2>3, <2>4 DEF Befalls
<1>3. ASSUME NEW a \in Actors, Emit(a) PROVE Elsewhere
  BY <1>3 DEF Emit, Elsewhere
<1>4. ASSUME NEW p \in Peers, NEW r \in Receivers, ReceivePing(r, p) PROVE Elsewhere
  BY <1>4 DEF ReceivePing, Elsewhere
<1>5. ASSUME NEW p \in Peers, HbEvict(p) \/ Bye(p) PROVE Elsewhere
  BY <1>5 DEF HbEvict, Bye, Elsewhere
<1>6. CASE HbSnapshot \/ Tick \/ UNCHANGED vars
  BY <1>6 DEF HbSnapshot, Tick, vars, Elsewhere
<1> QED BY <1>1, <1>2, <1>3, <1>4, <1>5, <1>6 DEF Next

\* Ids come from the three ranges and are never drawn twice.
IdsInv ==
  /\ \A k \in LinkKinds : IdBase[k] <= seq[k] /\ seq[k] <= IdBase[k] + MaxConns
  /\ \A t \in Threads : pc[t] # "idle" =>
        IdBase[Kind(t)] <= conn_id[t] /\ conn_id[t] < seq[Kind(t)]
  /\ \A t, u \in Threads :
        pc[t] # "idle" /\ pc[u] # "idle" /\ conn_id[t] = conn_id[u] => t = u

\* The inductive invariant: ids, and SlotHasDriver itself.
SlotInv == TypeOK /\ HasPeer /\ IdsInv /\ SlotHasDriver

\* The id ranges of two kinds do not meet (this is where MaxConns counts).
LEMMA RangesDisjoint ==
  ASSUME NEW k \in LinkKinds, NEW l \in LinkKinds, NEW i \in Nat,
         IdBase[k] <= i, i < IdBase[k] + MaxConns,
         IdBase[l] <= i, i < IdBase[l] + MaxConns
  PROVE  k = l
<1>1. IdBase["ws"] = 1 /\ IdBase["punch"] = 1000000 /\ IdBase["webrtc"] = 2000000
  BY SMT DEF IdBase, LinkKinds
<1>2. /\ k = "ws" => i < 1000000
      /\ k = "punch" => 1000000 <= i /\ i < 2000000
      /\ k = "webrtc" => 2000000 <= i
  BY <1>1, MaxConnsAssumption, SMT
<1>3. /\ l = "ws" => i < 1000000
      /\ l = "punch" => 1000000 <= i /\ i < 2000000
      /\ l = "webrtc" => 2000000 <= i
  BY <1>1, MaxConnsAssumption, SMT
<1> QED BY <1>2, <1>3, SMT DEF LinkKinds

\* Every step keeps connection ids unique and within their kind's range.
LEMMA IdsStep ==
  ASSUME TypeOK, IdsInv, [Next]_vars
  PROVE  IdsInv'
<1>1. CASE \E t \in Threads : Register(t) \/ Unregister(t)
  <2> PICK t \in Threads : Register(t) \/ Unregister(t) BY <1>1
  <2>1. UNCHANGED <<seq, conn_id>> /\ \A u \in Threads : pc'[u] = "idle" <=> pc[u] = "idle"
    BY DEF Register, Unregister, Goto, TypeOK
  <2> QED BY <2>1 DEF IdsInv
<1>2. ASSUME NEW t \in Threads, NEW p \in Peers, Spawn(t, p) PROVE IdsInv'
  <2> DEFINE k == Kind(t)
  <2>0. k \in LinkKinds BY KindType
  <2>1. /\ pc[t] = "idle" /\ pc'[t] # "idle" /\ conn_id'[t] = seq[k]
        /\ seq[k] < IdBase[k] + MaxConns
        /\ seq'[k] = seq[k] + 1 /\ \A l \in LinkKinds \ {k} : seq'[l] = seq[l]
        /\ \A u \in Threads \ {t} : pc'[u] = pc[u] /\ conn_id'[u] = conn_id[u]
    BY <1>2, <2>0 DEF Spawn, Goto, TypeOK
  <2>2. seq \in [LinkKinds -> Nat] /\ conn_id \in [Threads -> Nat] BY DEF TypeOK
  <2>3. ASSUME NEW u \in Threads, u # t, pc[u] # "idle" PROVE conn_id[u] # seq[k]
    <3>1. CASE Kind(u) = k BY <2>0, <2>2, <2>3, <3>1 DEF IdsInv
    <3>2. CASE Kind(u) # k
      <4>1. Kind(u) \in LinkKinds BY KindType
      <4>2. /\ IdBase[Kind(u)] <= conn_id[u] /\ conn_id[u] < IdBase[Kind(u)] + MaxConns
            /\ IdBase[k] <= seq[k]
        BY <2>0, <2>2, <2>3, <4>1, IdBaseType, MaxConnsAssumption DEF IdsInv
      <4>3. seq[k] \in Nat /\ seq[k] < IdBase[k] + MaxConns BY <2>0, <2>1, <2>2
      <4>4. conn_id[u] = seq[k] => Kind(u) = k
        BY <2>0, <4>1, <4>2, <4>3, RangesDisjoint
      <4> QED BY <3>2, <4>4
    <3> QED BY <3>1, <3>2
  <2> HIDE DEF k
  <2>4. \A l \in LinkKinds : IdBase[l] <= seq'[l] /\ seq'[l] <= IdBase[l] + MaxConns
    BY <2>0, <2>1, <2>2, IdBaseType, MaxConnsAssumption DEF IdsInv
  <2>5. \A u \in Threads : pc'[u] # "idle" =>
          IdBase[Kind(u)] <= conn_id'[u] /\ conn_id'[u] < seq'[Kind(u)]
    <3> SUFFICES ASSUME NEW u \in Threads, pc'[u] # "idle"
                 PROVE  IdBase[Kind(u)] <= conn_id'[u] /\ conn_id'[u] < seq'[Kind(u)]
      OBVIOUS
    <3>1. CASE u = t BY <2>0, <2>1, <2>2, <3>1, IdBaseType DEF IdsInv, k
    <3>2. CASE u # t
      <4>1. Kind(u) \in LinkKinds BY KindType
      <4> QED BY <2>0, <2>1, <2>2, <3>2, <4>1, IdBaseType DEF IdsInv
    <3> QED BY <3>1, <3>2
  <2>6. \A u, v \in Threads :
          pc'[u] # "idle" /\ pc'[v] # "idle" /\ conn_id'[u] = conn_id'[v] => u = v
    BY <2>1, <2>3 DEF IdsInv
  <2> QED BY <2>4, <2>5, <2>6 DEF IdsInv
<1>3. CASE Elsewhere
  BY <1>3 DEF Elsewhere, IdsInv
<1> QED BY <1>1, <1>2, <1>3, StepCases

\* Every step keeps each slot with the registered thread whose id it has.
LEMMA SlotStep ==
  ASSUME SlotInv, [Next]_vars
  PROVE  SlotHasDriver'
<1> USE DEF SlotInv
<1>1. ASSUME NEW t \in Threads, Register(t) PROVE SlotHasDriver'
  BY <1>1 DEF Register, Goto, TypeOK, HasPeer, SlotHasDriver, Registered
<1>2. ASSUME NEW t \in Threads, Unregister(t) PROVE SlotHasDriver'
  <2>1. ASSUME NEW p \in Peers, ws_conns'[p] # Free PROVE ws_conns[p] = ws_conns'[p] /\ ws_conns[p].tx # t
    <3>1. ws_conns[p] = ws_conns'[p]
      BY <1>2, <2>1 DEF Unregister, TypeOK
    <3>2. ASSUME ws_conns[p].tx = t PROVE FALSE
      <4>1. peer[t] = p /\ conn_id[t] = ws_conns[p].id BY <2>1, <3>1, <3>2 DEF SlotHasDriver
      <4> QED BY <1>2, <2>1, <4>1 DEF Unregister, Owns, TypeOK
    <3> QED BY <3>1, <3>2
  <2> QED BY <1>2, <2>1 DEF Unregister, Goto, TypeOK, SlotHasDriver
<1>3. ASSUME NEW t \in Threads, NEW p \in Peers, Spawn(t, p) PROVE SlotHasDriver'
  BY <1>3 DEF Spawn, Goto, TypeOK, SlotHasDriver, Registered
<1>4. CASE Elsewhere
  BY <1>4 DEF Elsewhere, SlotHasDriver
<1> QED BY <1>1, <1>2, <1>3, <1>4, StepCases

\* Slots, ids and threads agree in every reachable state.
LEMMA SlotInvariant == Spec => []SlotInv
<1>1. Init => SlotInv
  BY TypeInit, IdBaseType, MaxConnsAssumption DEF Init, SlotInv, IdsInv, SlotHasDriver
<1>2. SlotInv /\ [Next]_vars => SlotInv'
  BY TypeStep, IdsStep, SlotStep DEF SlotInv
<1> QED BY <1>1, <1>2, PTL DEF Spec

\* A registered sender always leads to a driver that still reads its queue.
THEOREM SlotsHaveDrivers == Spec => []SlotHasDriver
<1>1. SlotInv => SlotHasDriver BY DEF SlotInv
<1> QED BY <1>1, SlotInvariant, PTL

-----------------------------------------------------------------------------
(***************************************************************************)
(* LiveLinks implements LinkSlots.                                         *)
(***************************************************************************)

\* Release frees what the thread holds: the id test finds the same slot.
LEMMA OwnsMeansHolds ==
  ASSUME SlotInv, NEW t \in Threads, pc[t] # "idle"
  PROVE  /\ Owns(t) <=> ws_conns[peer[t]].tx = t
         /\ \A p \in Peers : ws_conns[p].tx = t => p = peer[t]
<1> USE DEF SlotInv
<1>0. None \notin Threads BY NoneAssumption DEF Actors
<1>1. peer[t] \in Peers BY DEF HasPeer
<1>2. ASSUME Owns(t) PROVE ws_conns[peer[t]].tx = t
  <2>1. conn_id[t] \in Nat /\ conn_id[t] > 0
    <3>1. Kind(t) \in LinkKinds /\ IdBase[Kind(t)] <= conn_id[t] BY KindType DEF IdsInv
    <3>2. \A k \in LinkKinds : IdBase[k] \in Nat /\ IdBase[k] > 0 BY SMT DEF IdBase, LinkKinds
    <3>3. conn_id[t] \in Nat BY DEF TypeOK
    <3> QED BY <3>1, <3>2, <3>3
  <2>2. ws_conns[peer[t]] # Free BY <1>2, <2>1 DEF Owns, Free
  <2> DEFINE u == ws_conns[peer[t]].tx
  <2>3. u \in Threads /\ pc[u] # "idle" /\ conn_id[u] = conn_id[t]
    BY <1>1, <1>2, <2>2 DEF SlotHasDriver, Owns, Registered
  <2> QED BY <2>3 DEF IdsInv
<1>3. ASSUME NEW p \in Peers, ws_conns[p].tx = t
      PROVE  peer[t] = p /\ conn_id[t] = ws_conns[p].id
  BY <1>0, <1>3 DEF SlotHasDriver, Free
<1> QED BY <1>1, <1>2, <1>3 DEF Owns

\* A step that moves no thread between stages is a stutter of LinkSlots.
LEMMA StageStutter ==
  ASSUME UNCHANGED ws_conns, \A t \in Threads : Stage(t)' = Stage(t)
  PROVE  UNCHANGED Slots!vars
  BY DEF Slots!vars

\* A thread that moves from one stage to the next moves alone.
LEMMA StageMove ==
  ASSUME TypeOK, NEW t \in Threads, NEW l, pc' = [pc EXCEPT ![t] = l]
  PROVE  [u \in Threads |-> Stage(u)]' = [[u \in Threads |-> Stage(u)] EXCEPT ![t] = Stage(t)']
  BY DEF TypeOK, Stage

\* Registering takes the peer's slot or gives up.
LEMMA RegisterRefines ==
  ASSUME SlotInv, NEW t \in Threads, Register(t)
  PROVE  Slots!Next
<1> USE DEF SlotInv
<1>0. pc' = [pc EXCEPT ![t] = pc'[t]] /\ pc[t] = "open" /\ pc'[t] \in {"done", "mark"} /\ peer[t] \in Peers
  BY DEF Register, Goto, TypeOK, HasPeer
<1>1. CASE t \notin RtcThreads /\ ws_conns[peer[t]] # Free
  <2>1. UNCHANGED ws_conns /\ pc'[t] = "done"
    BY <1>1 DEF Register, Goto, TypeOK
  <2>2. Stage(t) = "new" /\ Stage(t)' = "gone" BY <1>0, <2>1 DEF Stage
  <2>3. Slots!GiveUp(t) BY <1>0, <2>1, <2>2, StageMove DEF Slots!GiveUp
  <2> QED BY <2>3 DEF Slots!Next
<1>2. CASE ~(t \notin RtcThreads /\ ws_conns[peer[t]] # Free)
  <2>1. /\ ws_conns' = [ws_conns EXCEPT ![peer[t]] = [id |-> conn_id[t], tx |-> t]]
        /\ pc'[t] = "mark"
    BY <1>2 DEF Register, Goto, TypeOK
  <2>2. Stage(t) = "new" /\ Stage(t)' = "up" BY <1>0, <2>1 DEF Stage
  <2>3. ws_conns[peer[t]].tx = None \/ t \in RtcThreads BY <1>2 DEF Free
  <2>4. [p \in Peers |-> ws_conns'[p].tx] = [[p \in Peers |-> ws_conns[p].tx] EXCEPT ![peer[t]] = t]
    BY <1>0, <2>1 DEF TypeOK
  <2>5. Slots!Acquire(peer[t], t)
    BY <1>0, <2>2, <2>3, <2>4, StageMove DEF Slots!Acquire
  <2> QED BY <1>0, <2>5 DEF Slots!Next
<1> QED BY <1>1, <1>2

\* Unregistering frees the thread's own slot and no other.
LEMMA UnregisterRefines ==
  ASSUME SlotInv, NEW t \in Threads, Unregister(t)
  PROVE  Slots!Next
<1> USE DEF SlotInv
<1>0. /\ pc' = [pc EXCEPT ![t] = pc'[t]] /\ pc[t] = "exit"
      /\ pc'[t] \in {"drop", "done"} /\ peer[t] \in Peers
  BY DEF Unregister, Goto, TypeOK, HasPeer
<1>1. Stage(t) = "closing" /\ Stage(t)' = "gone" BY <1>0 DEF Stage
<1>2. ASSUME NEW p \in Peers
      PROVE  ws_conns'[p].tx = IF ws_conns[p].tx = t THEN None ELSE ws_conns[p].tx
  <2>1. CASE ws_conns[p].tx = t
    <3>1. p = peer[t] /\ Owns(t) BY <1>0, <2>1, OwnsMeansHolds
    <3> QED BY <2>1, <3>1 DEF Unregister, TypeOK, Free
  <2>2. CASE ws_conns[p].tx # t
    <3>1. p = peer[t] => ~Owns(t) BY <1>0, <2>2, OwnsMeansHolds
    <3> QED BY <2>2, <3>1 DEF Unregister, TypeOK
  <2> QED BY <2>1, <2>2
<1>3. Slots!Release(t) BY <1>0, <1>1, <1>2, StageMove DEF Slots!Release
<1> QED BY <1>3 DEF Slots!Next

\* A driver that leaves its loop starts closing.
LEMMA CloseRefines ==
  ASSUME TypeOK, NEW t \in Threads, UNCHANGED ws_conns,
         pc' = [pc EXCEPT ![t] = "exit"], pc[t] \in {"loop", "slot", "live"}
  PROVE  Slots!Next
<1>1. Stage(t) = "up" /\ Stage(t)' = "closing" BY DEF Stage, TypeOK
<1>2. Slots!Close(t) BY <1>1, StageMove DEF Slots!Close
<1> QED BY <1>2 DEF Slots!Next

\* Every step of the registry is a step of the abstract slots or leaves them.
LEMMA StepRefines ==
  ASSUME SlotInv, [Next]_vars
  PROVE  [Slots!Next]_(Slots!vars)
<1> USE DEF SlotInv
<1>1. ASSUME NEW t \in Threads, Driver(t) PROVE [Slots!Next]_(Slots!vars)
  <2>1. CASE Register(t)   BY <2>1, RegisterRefines
  <2>2. CASE Unregister(t) BY <2>2, UnregisterRefines
  <2>3. CASE CheckSlot(t) \/ CheckLive(t)
    <3>1. CASE pc'[t] = "exit"
      <4>1. /\ UNCHANGED ws_conns /\ pc' = [pc EXCEPT ![t] = "exit"]
            /\ pc[t] \in {"slot", "live"}
        BY <2>3, <3>1 DEF CheckSlot, CheckLive, Goto, TypeOK
      <4> QED BY <4>1, CloseRefines
    <3>2. CASE pc'[t] # "exit"
      <4>1. UNCHANGED ws_conns /\ \A u \in Threads : Stage(u)' = Stage(u)
        BY <2>3, <3>2 DEF CheckSlot, CheckLive, Goto, TypeOK, Stage
      <4> QED BY <4>1, StageStutter
    <3> QED BY <3>1, <3>2
  <2>4. CASE Mark(t) \/ Quiet(t) \/ Drop(t)
    <3>1. UNCHANGED ws_conns /\ \A u \in Threads : Stage(u)' = Stage(u)
      BY <2>4 DEF Mark, Quiet, Drop, Goto, TypeOK, Stage
    <3> QED BY <3>1, StageStutter
  <2> QED BY <1>1, <2>1, <2>2, <2>3, <2>4 DEF Driver
<1>2. ASSUME NEW t \in Threads, Befalls(t) PROVE [Slots!Next]_(Slots!vars)
  <2>1. CASE Close(t)
    <3>1. UNCHANGED ws_conns /\ pc' = [pc EXCEPT ![t] = "exit"] /\ pc[t] = "loop"
      BY <2>1 DEF Close, Goto
    <3> QED BY <3>1, CloseRefines
  <2>2. CASE NeverOpens(t)
    <3>1. UNCHANGED ws_conns /\ pc' = [pc EXCEPT ![t] = "done"] /\ pc[t] = "open"
      BY <2>2 DEF NeverOpens, Goto
    <3>2. Stage(t) = "new" /\ Stage(t)' = "gone" BY <3>1 DEF Stage, TypeOK
    <3>3. Slots!GiveUp(t) BY <3>1, <3>2, StageMove DEF Slots!GiveUp
    <3> QED BY <3>3 DEF Slots!Next
  <2>3. CASE PunchReceive(t) \/ HandlePing(t) \/ \E p \in Peers : Spawn(t, p)
    <3>1. UNCHANGED ws_conns /\ \A u \in Threads : Stage(u)' = Stage(u)
      BY <2>3 DEF PunchReceive, HandlePing, Spawn, Goto, TypeOK, Stage
    <3> QED BY <3>1, StageStutter
  <2> QED BY <1>2, <2>1, <2>2, <2>3 DEF Befalls
<1>3. ASSUME UNCHANGED <<ws_conns, pc>> PROVE [Slots!Next]_(Slots!vars)
  <2>1. \A u \in Threads : Stage(u)' = Stage(u) BY <1>3 DEF Stage
  <2> QED BY <1>3, <2>1, StageStutter
<1> QED BY <1>1, <1>2, <1>3
        DEF Next, vars, Emit, ReceivePing, HbEvict, Bye, HbSnapshot, Tick

\* The three drivers, with their ids and no common lock, keep the ws_conns
\* discipline: slots are taken when free (or by WebRTC), freed by their holder.
THEOREM SlotsRefined == Spec => SlotDiscipline
<1>1. Init => Slots!Init
  BY DEF Init, Slots!Init, Free, Stage
<1> QED BY <1>1, StepRefines, SlotInvariant, PTL DEF Spec, SlotDiscipline, Slots!Spec

-----------------------------------------------------------------------------
(***************************************************************************)
(* The build without WebRTC.  Nothing pre-empts a slot, so a registered    *)
(* driver holds its slot until it removes it.                              *)
(***************************************************************************)

HoldsSlot == \A t \in Threads : pc[t] \in Registered => ws_conns[peer[t]].tx = t

MinimalInv == HoldsSlot /\ NoGhostLink

\* Without WebRTC, no step takes a slot from a registered thread.
LEMMA HoldsSlotStep ==
  ASSUME RtcThreads = {}, SlotInv, HoldsSlot, [Next]_vars
  PROVE  HoldsSlot'
<1> USE DEF SlotInv
<1>0. None \notin Threads BY NoneAssumption DEF Actors
<1>1. ASSUME NEW t \in Threads, Register(t) PROVE HoldsSlot'
  BY <1>0, <1>1 DEF Register, Goto, TypeOK, HasPeer, HoldsSlot, Registered, Free
<1>2. ASSUME NEW t \in Threads, Unregister(t) PROVE HoldsSlot'
  BY <1>2 DEF Unregister, Goto, TypeOK, HoldsSlot, Registered
<1>3. ASSUME NEW t \in Threads, NEW p \in Peers, Spawn(t, p) PROVE HoldsSlot'
  BY <1>3 DEF Spawn, Goto, TypeOK, HoldsSlot, Registered
<1>4. CASE Elsewhere
  BY <1>4 DEF Elsewhere, HoldsSlot
<1> QED BY <1>1, <1>2, <1>3, <1>4, StepCases

\* Without WebRTC, no step leaves a ws entry that nobody will drop.
LEMMA NoGhostStep ==
  ASSUME RtcThreads = {}, SlotInv, HoldsSlot, NoGhostLink, [Next]_vars
  PROVE  NoGhostLink'
<1> USE DEF SlotInv
<1> DEFINE Backed(p) == \E u \in WsThreads : peer[u] = p /\ pc[u] \in {"loop", "exit", "drop"}
<1>1. ASSUME NEW t \in Threads, Driver(t) PROVE NoGhostLink'
  <2>1. CASE Unregister(t)
    <3>1. Owns(t) BY <2>1, OwnsMeansHolds DEF Unregister, HoldsSlot, Registered
    <3> QED BY <2>1, <3>1 DEF Unregister, Goto, TypeOK, NoGhostLink
  <2>2. CASE Mark(t)
    <3>1. ASSUME NEW p \in Peers, p2p_conns'[p].kind = "ws" PROVE Backed(p)'
      <4>1. CASE p2p_conns[p].kind = "ws"
        BY <2>2, <4>1 DEF Mark, Goto, TypeOK, NoGhostLink
      <4>2. CASE p2p_conns[p].kind # "ws"
        <5>1. p = peer[t] /\ Kind(t) = "ws"
          BY <2>2, <3>1, <4>2 DEF Mark, MarkLive, TypeOK
        <5>2. t \in WsThreads BY <5>1 DEF Kind, Threads
        <5> QED BY <2>2, <5>1, <5>2 DEF Mark, Goto, TypeOK
      <4> QED BY <4>1, <4>2
    <3> QED BY <3>1 DEF NoGhostLink
  <2>3. CASE Drop(t)
    BY <2>3 DEF Drop, DropLive, Absent, Goto, TypeOK, NoGhostLink
  <2>4. CASE Register(t)
    BY <2>4 DEF Register, Goto, TypeOK, NoGhostLink
  <2>5. CASE Quiet(t) \/ CheckSlot(t) \/ CheckLive(t)
    <3>1. \A u \in WsThreads : pc[u] \in {"loop", "exit", "drop"}
                              => pc'[u] \in {"loop", "exit", "drop"}
      BY <2>5 DEF Quiet, CheckSlot, CheckLive, Goto, TypeOK, Threads
    <3>2. UNCHANGED <<p2p_conns, peer>>
      BY <2>5 DEF Quiet, CheckSlot, CheckLive
    <3> QED BY <3>1, <3>2 DEF NoGhostLink
  <2> QED BY <1>1, <2>1, <2>2, <2>3, <2>4, <2>5 DEF Driver
<1>2. ASSUME NEW t \in Threads, Befalls(t) PROVE NoGhostLink'
  <2>1. CASE NeverOpens(t) \/ Close(t)
    <3>1. \A u \in WsThreads : pc[u] \in {"loop", "exit", "drop"}
                              => pc'[u] \in {"loop", "exit", "drop"}
      BY <2>1 DEF NeverOpens, Close, Goto, TypeOK, Threads
    <3>2. UNCHANGED <<p2p_conns, peer>>
      BY <2>1 DEF NeverOpens, Close
    <3> QED BY <3>1, <3>2 DEF NoGhostLink
  <2>2. CASE PunchReceive(t)
    BY <2>2, ThreadAssumption DEF PunchReceive, TouchLive, Goto, TypeOK, NoGhostLink
  <2>3. CASE HandlePing(t)
    <3>1. \A p \in Peers : p2p_conns'[p].kind = "ws" => p2p_conns[p].kind = "ws"
      BY <2>3 DEF HandlePing, MarkLive, TypeOK
    <3> QED BY <2>3, <3>1, ThreadAssumption DEF HandlePing, Goto, TypeOK, NoGhostLink
  <2>4. ASSUME NEW p \in Peers, Spawn(t, p) PROVE NoGhostLink'
    BY <2>4 DEF Spawn, Goto, TypeOK, NoGhostLink
  <2> QED BY <1>2, <2>1, <2>2, <2>3, <2>4 DEF Befalls
<1>3. ASSUME NEW p \in Peers, NEW r \in Receivers, ReceivePing(r, p) PROVE NoGhostLink'
  <2>1. \A q \in Peers : p2p_conns'[q].kind = "ws" => p2p_conns[q].kind = "ws"
    BY <1>3 DEF ReceivePing, MarkLive, TypeOK
  <2> QED BY <1>3, <2>1 DEF ReceivePing, NoGhostLink
<1>4. ASSUME NEW p \in Peers, HbEvict(p) \/ Bye(p) PROVE NoGhostLink'
  BY <1>4 DEF HbEvict, Bye, DropLive, Absent, TypeOK, NoGhostLink
<1>5. CASE Tick
  <2>1. \A q \in Peers : p2p_conns'[q].kind = p2p_conns[q].kind
    BY <1>5 DEF Tick, TypeOK
  <2> QED BY <1>5, <2>1 DEF Tick, NoGhostLink
<1>6. ASSUME UNCHANGED <<p2p_conns, peer, pc>> PROVE NoGhostLink'
  BY <1>6 DEF NoGhostLink
<1> QED BY <1>1, <1>2, <1>3, <1>4, <1>5, <1>6 DEF Next, vars, Emit, HbSnapshot

\* Without WebRTC, both hold in every reachable state.
LEMMA MinimalInvariant ==
  ASSUME RtcThreads = {} PROVE Spec => []MinimalInv
<1>1. Init => MinimalInv
  BY DEF Init, MinimalInv, HoldsSlot, NoGhostLink, Registered, Absent
<1>2. SlotInv /\ MinimalInv /\ [Next]_vars => MinimalInv'
  BY HoldsSlotStep, NoGhostStep DEF MinimalInv
<1> QED BY <1>1, <1>2, SlotInvariant, PTL DEF Spec

\* Without WebRTC, a WebSocket entry of the registry (which the heartbeat
\* never evicts) always has a socket thread that will remove it.
THEOREM MinimalNoGhost ==
  ASSUME RtcThreads = {} PROVE Spec => []NoGhostLink
<1>1. MinimalInv => NoGhostLink BY DEF MinimalInv
<1> QED BY <1>1, MinimalInvariant, PTL

\* Without WebRTC, no two drivers serve the same peer at once.
THEOREM MinimalOneLink ==
  ASSUME RtcThreads = {} PROVE Spec => []OneLinkPerPeer
<1>1. MinimalInv => OneLinkPerPeer BY DEF MinimalInv, HoldsSlot, OneLinkPerPeer
<1> QED BY <1>1, MinimalInvariant, PTL
=============================================================================
