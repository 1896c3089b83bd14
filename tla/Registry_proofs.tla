-------------------------- MODULE Registry_proofs ---------------------------
(***************************************************************************)
(* Theorems about the two parts of the engine that talk to the registry:   *)
(* PeerDirectory and Session.                                              *)
(***************************************************************************)
EXTENDS PeerDirectory, Session, TLAPS

-----------------------------------------------------------------------------
(***************************************************************************)
(* PeerDirectory, for any devices, calls and bounds, overlapping calls and *)
(* lost beacons included: the maps are well formed, and a peer leaves a    *)
(* map by remove_peer or with the registry's list only.                    *)
(***************************************************************************)

Addresses == 0 .. MaxMove
BeaconType == [from : Devices, to : Devices, src : Addresses, reply : BOOLEAN]

\* Threads run for a device; a receiver past its insertion has a beacon.
ThreadOK ==
    /\ answer \in [Devices -> BeaconType \cup {None}]
    /\ \A d \in Devices : dev[d] = d /\ (pc[d] # "idle" => answer[d] \in BeaconType)
    /\ \A c \in Calls : pc[c] # "idle" => dev[c] \in Devices

\* A device moves once per counted move; beacons carry their sender's address.
MoveOK ==
    /\ \A d \in Devices : where[d] <= moves
    /\ beacons \subseteq BeaconType

\* An entry counts as the registry's if the list applied last wrote it and
\* no beacon has since.
ListedOK ==
    \A d \in Devices, x \in Ids :
        peers[d][x] # Absent /\ peers[d][x].source = "registry" => x \in listed[d]

Inv == TypeOK /\ ThreadOK /\ MoveOK /\ ListedOK

\* An entry of the map is well formed, and is not the absence of one.
LEMMA EntryType ==
    ASSUME NEW s \in {"registry", "lan", "manual"}, NEW a \in Addresses
    PROVE  Entry(s, a) \in Entries /\ Entry(s, a) # Absent /\ Entry(s, a).source = s
BY DirectoryAssumption DEF Entry, Entries, Addresses

\* apply_registry_peers on a well-formed map and list gives a well-formed map;
\* it takes out registry entries only, and those in it afterwards are listed.
LEMMA FromRegistryType ==
    ASSUME NEW map \in [Ids -> Entries], NEW f \in [Devices -> Addresses \cup {None}]
    PROVE  /\ FromRegistry(map, f) \in [Ids -> Entries]
           /\ \A x \in Ids : FromRegistry(map, f)[x] = Absent /\ map[x] # Absent
                             => map[x].source = "registry" /\ ~(x \in Devices /\ f[x] # None)
           /\ \A x \in Ids :
                 FromRegistry(map, f)[x] # Absent /\ FromRegistry(map, f)[x].source = "registry"
                 => x \in Devices /\ f[x] # None
<1>1. \A x \in Devices : f[x] # None => f[x] \in Addresses
  OBVIOUS
<1>2. \A x \in Devices : f[x] # None =>
         Entry("registry", f[x]) \in Entries /\ Entry("registry", f[x]) # Absent
  BY <1>1, EntryType
<1>3. Absent \in Entries
  BY DEF Entries
<1> QED BY <1>2, <1>3 DEF FromRegistry, Ids

\* The initial states satisfy the inductive invariant.
LEMMA InitInv == Init => Inv
<1> SUFFICES ASSUME Init PROVE Inv
    OBVIOUS
<1> USE DirectoryAssumption DEF Init
<1>0. NoPeers \in [Ids -> Entries] /\ 0 \in 0 .. MaxMove
  BY SMT DEF NoPeers, Entries
<1>1. TypeOK
  <2>1. /\ where \in [Devices -> 0 .. MaxMove] /\ ip \in [Devices -> 0 .. MaxMove]
        /\ reg \in [Devices -> 0 .. MaxMove \cup {None}]
        /\ peers \in [Devices -> [Ids -> Entries]] /\ shown \in [Devices -> [Ids -> Entries]]
    BY <1>0
  <2>2. /\ pc \in [Threads -> PCs] /\ dev \in [Threads -> Devices \cup {None}]
    BY DEF PCs
  <2>3. /\ copy \in [Calls -> 0 .. MaxMove]
        /\ fetched \in [Calls -> [Devices -> 0 .. MaxMove \cup {None}]]
        /\ list \in [Threads -> [Ids -> Entries]]
    BY <1>0, <2>1 DEF Nobody
  <2>4. /\ rounds \in [Devices -> 0 .. Rounds]
        /\ scans \in 0 .. MaxScan /\ moves \in 0 .. MaxMove
        /\ listed \in [Devices -> SUBSET Devices]
    BY SMT
  <2> QED BY <2>1, <2>2, <2>3, <2>4 DEF TypeOK
<1>2. ThreadOK
  BY DEF ThreadOK, Threads
<1>3. MoveOK
  BY SMT DEF MoveOK
<1>4. ListedOK
  BY DEF ListedOK, NoPeers
<1> QED BY <1>1, <1>2, <1>3, <1>4 DEF Inv

\* Announcing the list to the UI preserves the inductive invariant.
LEMMA AnnounceInv ==
    ASSUME Inv, NEW t \in Threads, Snapshot(t) \/ Emit(t)
    PROVE  Inv'
<1> USE DirectoryAssumption DEF Inv, Threads
<1>1. dev[t] \in Devices
  BY DEF ThreadOK, Snapshot, Emit
<1>2. UNCHANGED <<addrs, reg, peers, listed, dev, calls, lanVars>>
  BY DEF Snapshot, Emit
<1>3. /\ pc' \in [Threads -> PCs] /\ pc[t] # "idle"
      /\ \A u \in Threads : u # t => pc'[u] = pc[u]
      /\ pc'[t] # "apply"
  <2>1. PICK l \in {"emit", "done", "reply"} : pc' = [pc EXCEPT ![t] = l]
    BY DEF Snapshot, Emit
  <2>2. pc[t] # "idle"
    BY DEF Snapshot, Emit
  <2> QED BY <2>1, <2>2 DEF TypeOK, PCs
<1>4. list' \in [Threads -> [Ids -> Entries]] /\ shown' \in [Devices -> [Ids -> Entries]]
  <2>1. \/ list' = list
        \/ list' = [list EXCEPT ![t] = peers[dev[t]]]
        \/ list' = [list EXCEPT ![t] = NoPeers]
    BY DEF Snapshot, Emit
  <2>2. \/ shown' = shown
        \/ shown' = [shown EXCEPT ![dev[t]] = list[t]]
    BY DEF Snapshot, Emit
  <2>3. peers[dev[t]] \in [Ids -> Entries] /\ list[t] \in [Ids -> Entries]
    BY <1>1 DEF TypeOK
  <2>4. NoPeers \in [Ids -> Entries]
    BY SMT DEF NoPeers, Entries
  <2>5. list' \in [Threads -> [Ids -> Entries]]
    BY <2>1, <2>3, <2>4 DEF TypeOK
  <2>6. shown' \in [Devices -> [Ids -> Entries]]
    BY <2>2, <2>3 DEF TypeOK
  <2> QED BY <2>5, <2>6
<1>5. TypeOK'
  BY <1>2, <1>3, <1>4 DEF TypeOK, addrs, calls, lanVars
<1>6. ThreadOK'
  BY <1>1, <1>2, <1>3 DEF ThreadOK, calls, lanVars
<1>7. MoveOK' /\ ListedOK'
  BY <1>2 DEF MoveOK, ListedOK, addrs, lanVars
<1> QED BY <1>5, <1>6, <1>7

\* The first steps of the calls preserve the inductive invariant.
LEMMA StartInv ==
    ASSUME Inv, NEW c \in Calls, NEW d \in Devices, Start(c, d)
    PROVE  Inv'
<1> USE DirectoryAssumption DEF Inv, Threads
<1>0. ASSUME NEW l \in PCs, l # "idle", Begin(c, d, l), answer' = answer
      PROVE  /\ pc' \in [Threads -> PCs] /\ dev' \in [Threads -> Devices \cup {None}]
             /\ ThreadOK'
  <2>1. pc' \in [Threads -> PCs] /\ dev' \in [Threads -> Devices \cup {None}]
    BY <1>0 DEF TypeOK, Begin
  <2>2. ThreadOK'
    BY <1>0 DEF ThreadOK, Begin, TypeOK
  <2> QED BY <2>1, <2>2
<1>1. ASSUME RefreshFromServer(c, d) PROVE Inv'
  <2>1. PICK l \in {"register", "done"} : Begin(c, d, l)
    BY <1>1 DEF RefreshFromServer
  <2>2. /\ pc' \in [Threads -> PCs] /\ dev' \in [Threads -> Devices \cup {None}]
        /\ ThreadOK'
    BY <1>0, <1>1, <2>1 DEF RefreshFromServer, PCs, lanVars
  <2>3. copy' \in [Calls -> 0 .. MaxMove]
    BY <1>1 DEF RefreshFromServer, TypeOK
  <2>4. TypeOK'
    BY <1>1, <2>2, <2>3 DEF RefreshFromServer, TypeOK, addrs, lanVars
  <2>5. MoveOK' /\ ListedOK'
    BY <1>1 DEF RefreshFromServer, MoveOK, ListedOK, addrs, lanVars
  <2> QED BY <2>2, <2>4, <2>5
<1>2. ASSUME NetworkChanged(c, d) PROVE Inv'
  <2>1. PICK l \in {"copy", "done"} : Begin(c, d, l)
    BY <1>2 DEF NetworkChanged
  <2>2. /\ pc' \in [Threads -> PCs] /\ dev' \in [Threads -> Devices \cup {None}]
        /\ ThreadOK'
    BY <1>0, <1>2, <2>1 DEF NetworkChanged, PCs, lanVars, calls
  <2>3. ip' \in [Devices -> 0 .. MaxMove]
    BY <1>2 DEF NetworkChanged, TypeOK
  <2>4. TypeOK'
    BY <1>2, <2>2, <2>3 DEF NetworkChanged, TypeOK, lanVars, calls
  <2>5. MoveOK' /\ ListedOK'
    BY <1>2 DEF NetworkChanged, MoveOK, ListedOK, lanVars
  <2> QED BY <2>2, <2>4, <2>5
<1>3. ASSUME NEW x \in Ids, NEW e \in Entries, Begin(c, d, "snapshot"),
             peers' = [peers EXCEPT ![d][x] = e],
             e = Absent \/ e.source = "manual",
             UNCHANGED <<addrs, reg, listed, shown, copy, fetched, list, lanVars>>
      PROVE  Inv'
  <2>1. /\ pc' \in [Threads -> PCs] /\ dev' \in [Threads -> Devices \cup {None}]
        /\ ThreadOK'
    BY <1>0, <1>3 DEF PCs, lanVars
  <2>2. peers' \in [Devices -> [Ids -> Entries]]
    BY <1>3 DEF TypeOK
  <2>3. TypeOK'
    BY <1>3, <2>1, <2>2 DEF TypeOK, addrs, lanVars
  <2>4. ListedOK'
    <3>1. \A a \in Devices, y \in Ids : peers'[a][y] = peers[a][y] \/ peers'[a][y] = e
      BY <1>3 DEF TypeOK
    <3> QED BY <1>3, <3>1 DEF ListedOK
  <2>5. MoveOK'
    BY <1>3 DEF MoveOK, addrs, lanVars
  <2> QED BY <2>1, <2>3, <2>4, <2>5
<1>4. ASSUME NEW x \in Manual, AddManualPeer(c, d, x) PROVE Inv'
  <2>1. 0 \in Addresses
    BY SMT DEF Addresses
  <2> QED BY <1>3, <1>4, <2>1, EntryType DEF AddManualPeer, Ids
<1>5. ASSUME NEW x \in Ids, RemovePeer(c, d, x) PROVE Inv'
  BY <1>3, <1>5 DEF RemovePeer, Entries
<1> QED BY <1>1, <1>2, <1>4, <1>5 DEF Start

\* The other steps of a refresh preserve the inductive invariant.
LEMMA CallInv ==
    ASSUME Inv, NEW c \in Calls, CallStep(c)
    PROVE  Inv'
<1> USE DirectoryAssumption DEF Inv, Threads
<1>0. /\ dev[c] \in Devices /\ UNCHANGED <<dev, list, shown, lanVars, where, ip, moves>>
      /\ pc' \in [Threads -> PCs] /\ pc[c] # "idle"
      /\ \A u \in Threads : u # c => pc'[u] = pc[u]
  <2>1. UNCHANGED <<dev, list, shown, lanVars, where, ip, moves>>
    BY DEF CallStep, CopyIdentity, Register, Fetch, Apply, addrs, calls
  <2>2. pc[c] # "idle"
    BY DEF CallStep, CopyIdentity, Register, Fetch, Apply
  <2>3. PICK l \in {"register", "fetch", "apply", "done", "snapshot"} : pc' = [pc EXCEPT ![c] = l]
    BY DEF CallStep, CopyIdentity, Register, Fetch, Apply
  <2>4. dev[c] \in Devices
    BY <2>2 DEF ThreadOK
  <2> QED BY <2>1, <2>2, <2>3, <2>4 DEF TypeOK, PCs
<1>1. ThreadOK' /\ MoveOK'
  BY <1>0 DEF ThreadOK, MoveOK, lanVars
<1>2. ASSUME CopyIdentity(c) PROVE Inv'
  <2>1. copy' \in [Calls -> 0 .. MaxMove]
    BY <1>0, <1>2 DEF CopyIdentity, TypeOK
  <2>2. TypeOK'
    BY <1>0, <1>2, <2>1 DEF CopyIdentity, TypeOK, addrs, lanVars
  <2>3. ListedOK'
    BY <1>2 DEF CopyIdentity, ListedOK
  <2> QED BY <1>1, <2>2, <2>3
<1>3. ASSUME Register(c) PROVE Inv'
  <2>1. reg' \in [Devices -> 0 .. MaxMove \cup {None}]
    <3>1. reg \in [Devices -> 0 .. MaxMove \cup {None}] /\ copy[c] \in 0 .. MaxMove
      BY DEF TypeOK
    <3>2. reg' = reg \/ reg' = [reg EXCEPT ![dev[c]] = copy[c]]
      BY <1>3 DEF Register
    <3> HIDE DEF Inv
    <3> QED BY <1>0, <3>1, <3>2
  <2>2. copy' \in [Calls -> 0 .. MaxMove]
    BY <1>3, SMT DEF Register, TypeOK
  <2>3. TypeOK'
    BY <1>0, <1>3, <2>1, <2>2 DEF Register, TypeOK, lanVars
  <2>4. ListedOK'
    BY <1>3 DEF Register, ListedOK
  <2> QED BY <1>1, <2>3, <2>4
<1>4. ASSUME Fetch(c) PROVE Inv'
  <2>1. \/ fetched' = [fetched EXCEPT ![c] = [reg EXCEPT ![dev[c]] = None]]
        \/ fetched' = fetched /\ pc'[c] = "done"
    BY <1>0, <1>4 DEF Fetch, TypeOK
  <2>2. fetched' \in [Calls -> [Devices -> 0 .. MaxMove \cup {None}]]
    <3>1. PICK f \in [Devices -> 0 .. MaxMove \cup {None}] : f = [reg EXCEPT ![dev[c]] = None]
      BY <1>0 DEF TypeOK
    <3>2. fetched' = [fetched EXCEPT ![c] = f] \/ fetched' = fetched
      BY <2>1, <3>1, Zenon
    <3>3. fetched \in [Calls -> [Devices -> 0 .. MaxMove \cup {None}]]
      BY DEF TypeOK
    <3> HIDE DEF Inv
    <3> QED BY <3>1, <3>2, <3>3, Zenon
  <2>3. TypeOK'
    BY <1>0, <1>4, <2>2 DEF Fetch, TypeOK, addrs, lanVars
  <2>5. ListedOK'
    BY <1>4 DEF Fetch, ListedOK
  <2> QED BY <1>1, <2>3, <2>5
<1>5. ASSUME Apply(c) PROVE Inv'
  <2>1. PICK d \in Devices : d = dev[c]
    BY <1>0
  <2>2. PICK map \in [Ids -> Entries] : map = FromRegistry(peers[d], fetched[c])
    BY <2>1, FromRegistryType DEF TypeOK, Addresses
  <2>3. peers' = [peers EXCEPT ![d] = map]
    BY <1>5, <2>1, <2>2 DEF Apply
  <2>4. peers' \in [Devices -> [Ids -> Entries]]
    BY <2>2, <2>3 DEF TypeOK
  <2>5. fetched' \in [Calls -> [Devices -> 0 .. MaxMove \cup {None}]]
    <3>1. PICK f \in [Devices -> 0 .. MaxMove \cup {None}] : f = Nobody
      BY DEF Nobody
    <3>2. fetched' = [fetched EXCEPT ![c] = f]
      BY <1>5, <3>1 DEF Apply
    <3> QED BY <3>1, <3>2 DEF TypeOK
  <2>6. PICK named \in SUBSET Devices : named = {x \in Devices : fetched[c][x] # None}
    OBVIOUS
  <2>7. listed' = [listed EXCEPT ![d] = named]
    BY <1>5, <2>1, <2>6 DEF Apply
  <2>8. listed' \in [Devices -> SUBSET Devices]
    BY <2>6, <2>7 DEF TypeOK
  <2>9. TypeOK'
    BY <1>0, <1>5, <2>4, <2>5, <2>8 DEF Apply, TypeOK, addrs, lanVars
  <2>10. \A x \in Ids : map[x] # Absent /\ map[x].source = "registry" => x \in named
    <3>1. /\ peers[d] \in [Ids -> Entries]
          /\ fetched[c] \in [Devices -> Addresses \cup {None}]
      BY DEF TypeOK, Addresses
    <3> QED BY <2>2, <2>6, <3>1, FromRegistryType
  <2>11. ListedOK'
    <3> SUFFICES ASSUME NEW a \in Devices, NEW x \in Ids,
                        peers'[a][x] # Absent, peers'[a][x].source = "registry"
                 PROVE  x \in listed'[a]
      BY DEF ListedOK
    <3>1. CASE a = d
      BY <2>3, <2>7, <2>10, <3>1 DEF TypeOK
    <3>2. CASE a # d
      BY <2>3, <2>7, <3>2 DEF TypeOK, ListedOK
    <3> QED BY <3>1, <3>2
  <2> QED BY <1>1, <2>9, <2>11
<1> QED BY <1>2, <1>3, <1>4, <1>5 DEF CallStep

\* Scans, beacons and address changes preserve the inductive invariant.
LEMMA LanInv ==
    ASSUME Inv,
           \/ \E d \in Devices : \/ ScanLan(d) \/ SendBeacon(d) \/ Reply(d) \/ Move(d) \/ WatchAddress(d)
                                 \/ RegistryForgets(d)
           \/ \E b \in beacons : ReceiveBeacon(b)
    PROVE  Inv'
<1> USE DirectoryAssumption DEF Inv, Threads
<1>0. \A d, e \in Devices, r \in BOOLEAN : Beacon(d, e, r) \in BeaconType
  BY DEF Beacon, BeaconType, TypeOK, Addresses
<1>1. ASSUME NEW d \in Devices, ScanLan(d) PROVE Inv'
  <2>1. rounds' \in [Devices -> 0 .. Rounds] /\ scans' \in 0 .. MaxScan
    BY <1>1, SMT DEF ScanLan, TypeOK
  <2>2. TypeOK'
    BY <1>1, <2>1 DEF ScanLan, TypeOK, addrs, calls
  <2> QED BY <1>1, <2>2 DEF ScanLan, ThreadOK, MoveOK, ListedOK, addrs, calls
<1>2. ASSUME NEW d \in Devices, SendBeacon(d) PROVE Inv'
  <2>1. rounds' \in [Devices -> 0 .. Rounds]
    BY <1>2, SMT DEF SendBeacon, TypeOK
  <2>2. TypeOK'
    BY <1>2, <2>1 DEF SendBeacon, TypeOK, addrs, calls
  <2>3. beacons' \subseteq BeaconType
    BY <1>0, <1>2 DEF SendBeacon, MoveOK
  <2> QED BY <1>2, <2>2, <2>3 DEF SendBeacon, ThreadOK, MoveOK, ListedOK, addrs, calls
<1>3. ASSUME NEW d \in Devices, Reply(d) PROVE Inv'
  <2>1. answer[d] \in BeaconType
    BY <1>3 DEF Reply, ThreadOK
  <2>2. beacons' \subseteq BeaconType
    BY <1>0, <1>3, <2>1 DEF Reply, MoveOK, BeaconType
  <2>3. /\ pc' = [pc EXCEPT ![d] = "idle"] /\ answer' = [answer EXCEPT ![d] = None]
        /\ UNCHANGED <<addrs, reg, peers, listed, shown, dev, calls, list, rounds, scans>>
    BY <1>3 DEF Reply
  <2>4. pc' \in [Threads -> PCs] /\ \A t \in Threads : t # d => pc'[t] = pc[t]
    BY <2>3 DEF TypeOK, PCs
  <2>5. TypeOK'
    BY <2>3, <2>4 DEF TypeOK, addrs, calls
  <2>6. \A e \in Devices : pc'[e] # "idle" => answer'[e] \in BeaconType
    <3> SUFFICES ASSUME NEW e \in Devices, pc'[e] # "idle" PROVE answer'[e] \in BeaconType
      OBVIOUS
    <3>1. e # d
      BY <2>3 DEF TypeOK
    <3>2. answer'[e] = answer[e]
      BY <2>3, <3>1
    <3> QED BY <2>4, <3>1, <3>2 DEF ThreadOK
  <2>7. ThreadOK'
    BY <2>3, <2>4, <2>6 DEF ThreadOK, calls
  <2> QED BY <2>2, <2>3, <2>5, <2>7 DEF MoveOK, ListedOK, addrs
<1>4. ASSUME NEW d \in Devices, Move(d) PROVE Inv'
  <2>1. /\ where' \in [Devices -> 0 .. MaxMove] /\ moves' \in 0 .. MaxMove
        /\ \A e \in Devices : where'[e] <= moves'
    BY <1>4, SMT DEF Move, TypeOK, MoveOK
  <2>2. TypeOK'
    BY <1>4, <2>1 DEF Move, TypeOK, calls, lanVars
  <2> QED BY <1>4, <2>1, <2>2 DEF Move, ThreadOK, MoveOK, ListedOK, calls, lanVars
<1>5. ASSUME NEW d \in Devices, WatchAddress(d) PROVE Inv'
  <2>1. ip' \in [Devices -> 0 .. MaxMove]
    BY <1>5 DEF WatchAddress, TypeOK
  <2>2. TypeOK'
    BY <1>5, <2>1 DEF WatchAddress, TypeOK, calls, lanVars
  <2> QED BY <1>5, <2>2 DEF WatchAddress, ThreadOK, MoveOK, ListedOK, calls, lanVars
<1>6. ASSUME NEW b \in beacons, ReceiveBeacon(b) PROVE Inv'
  <2>0. b \in BeaconType /\ b.to \in Devices /\ b.from \in Devices /\ b.src \in Addresses
    BY DEF MoveOK, BeaconType
  <2>1. CASE b.from = b.to
    <3>1. TypeOK' /\ beacons' \subseteq beacons
      BY <1>6, <2>1 DEF ReceiveBeacon, TypeOK, addrs, calls
    <3> QED BY <1>6, <2>1, <3>1
            DEF ReceiveBeacon, ThreadOK, MoveOK, ListedOK, addrs, calls
  <2>2. CASE b.from # b.to
    <3>1. PICK e \in Entries : e = Entry("lan", b.src)
      BY <2>0, EntryType
    <3>2. /\ peers' = [peers EXCEPT ![b.to][b.from] = e]
          /\ pc' = [pc EXCEPT ![b.to] = "snapshot"] /\ answer' = [answer EXCEPT ![b.to] = b]
          /\ beacons' \subseteq beacons
          /\ UNCHANGED <<addrs, reg, listed, shown, dev, calls, list, rounds, scans>>
      BY <1>6, <2>2, <3>1 DEF ReceiveBeacon
    <3>3. peers' \in [Devices -> [Ids -> Entries]]
      BY <2>0, <3>2 DEF TypeOK, Ids
    <3>4. pc' \in [Threads -> PCs] /\ \A t \in Threads : t # b.to => pc'[t] = pc[t]
      BY <2>0, <3>2 DEF TypeOK, PCs
    <3>5. TypeOK'
      BY <3>2, <3>3, <3>4 DEF TypeOK, addrs, calls
    <3>6. \A d \in Devices : pc'[d] # "idle" => answer'[d] \in BeaconType
      <4> SUFFICES ASSUME NEW d \in Devices, pc'[d] # "idle" PROVE answer'[d] \in BeaconType
        OBVIOUS
      <4>2. CASE d = b.to
        BY <2>0, <3>2, <4>2 DEF ThreadOK
      <4>3. CASE d # b.to
        BY <3>2, <3>4, <4>3 DEF ThreadOK
      <4> QED BY <4>2, <4>3
    <3>7. ThreadOK'
      BY <2>0, <3>2, <3>4, <3>6 DEF ThreadOK, calls
    <3>8. ListedOK'
      <4>1. e.source = "lan"
        BY <2>0, <3>1, EntryType
      <4>2. PICK d \in Devices, y \in Ids : d = b.to /\ y = b.from
        BY <2>0 DEF Ids
      <4>3. peers' = [peers EXCEPT ![d][y] = e]
        BY <3>2, <4>2
      <4>4. \A a \in Devices, x \in Ids : peers'[a][x] = peers[a][x] \/ peers'[a][x] = e
        BY <4>3 DEF TypeOK
      <4> QED BY <3>2, <4>1, <4>4 DEF ListedOK
    <3> QED BY <3>2, <3>5, <3>7, <3>8 DEF MoveOK, addrs
  <2> QED BY <2>1, <2>2
<1>7. ASSUME NEW d \in Devices, RegistryForgets(d) PROVE Inv'
  <2>1. reg' \in [Devices -> 0 .. MaxMove \cup {None}]
    BY <1>7 DEF RegistryForgets, TypeOK
  <2>2. TypeOK'
    BY <1>7, <2>1 DEF RegistryForgets, TypeOK, addrs, calls, lanVars
  <2> QED BY <1>7, <2>2 DEF RegistryForgets, ThreadOK, MoveOK, ListedOK, addrs, lanVars
<1> QED BY <1>1, <1>2, <1>3, <1>4, <1>5, <1>6, <1>7

\* Every step, and a stutter, preserves the inductive invariant.
LEMMA StepInv == Inv /\ [Next]_vars => Inv'
<1> SUFFICES ASSUME Inv, [Next]_vars PROVE Inv'
    OBVIOUS
<1>1. CASE Next
  BY <1>1, DirectoryAssumption, AnnounceInv, StartInv, CallInv, LanInv DEF Next
<1>2. CASE UNCHANGED vars
  BY <1>2 DEF Inv, vars, addrs, calls, lanVars, TypeOK, ThreadOK, MoveOK, ListedOK
<1> QED BY <1>1, <1>2

\* The maps, lists and addresses keep their shape, whatever overlaps.
THEOREM DirectoryTypes == Spec => []TypeOK
<1>1. Spec => []Inv
  BY InitInv, StepInv, PTL DEF Spec
<1>2. Inv => TypeOK
  BY DEF Inv
<1> QED BY <1>1, <1>2, PTL

\* What one step may take out of a map.
KeepsPeers ==
    \A d \in Devices, x \in Ids :
        peers[d][x] # Absent /\ peers'[d][x] = Absent
        => x \in listed[d] \ listed'[d] \/ \E c \in Calls : RemovePeer(c, d, x)

\* Every step keeps the peers, but for remove_peer and a list without them.
LEMMA StepKeepsPeers == Inv /\ [Next]_vars => [KeepsPeers]_vars
<1> SUFFICES ASSUME Inv, Next PROVE KeepsPeers
    OBVIOUS
<1> USE DirectoryAssumption DEF Inv
<1>1. CASE peers' = peers
  BY <1>1 DEF KeepsPeers
<1>2. ASSUME NEW c \in Calls, Apply(c) PROVE KeepsPeers
  <2>1. PICK d \in Devices : d = dev[c]
    BY <1>2 DEF Apply, ThreadOK
  <2>2. /\ peers[d] \in [Ids -> Entries]
        /\ fetched[c] \in [Devices -> Addresses \cup {None}]
    BY DEF TypeOK, Addresses
  <2>3. peers' = [peers EXCEPT ![d] = FromRegistry(peers[d], fetched[c])]
    BY <1>2, <2>1 DEF Apply
  <2>4. \A e \in Devices : e # d => peers'[e] = peers[e]
    BY <2>3 DEF TypeOK
  <2>5. peers'[d] = FromRegistry(peers[d], fetched[c])
    BY <2>3 DEF TypeOK
  <2>6. listed'[d] = {x \in Devices : fetched[c][x] # None}
    BY <1>2, <2>1 DEF Apply, TypeOK
  <2>7. \A x \in Ids : peers[d][x] # Absent /\ peers'[d][x] = Absent
                      => x \in listed[d] \ listed'[d]
    BY <2>2, <2>5, <2>6, FromRegistryType DEF ListedOK
  <2> QED BY <2>4, <2>7 DEF KeepsPeers
<1>3. ASSUME NEW c \in Calls, NEW d \in Devices, NEW x \in Manual, AddManualPeer(c, d, x)
      PROVE  KeepsPeers
  <2>1. PICK e : e = Entry("manual", 0) /\ e # Absent
    BY EntryType, SMT DEF Addresses
  <2>2. peers' = [peers EXCEPT ![d][x] = e]
    BY <1>3, <2>1 DEF AddManualPeer
  <2> QED BY <2>1, <2>2 DEF KeepsPeers, TypeOK, Ids
<1>4. ASSUME NEW b \in beacons, ReceiveBeacon(b) PROVE KeepsPeers
  <2>1. b.to \in Devices /\ b.from \in Devices /\ b.src \in Addresses
    BY DEF MoveOK, BeaconType
  <2>2. PICK e : e = Entry("lan", b.src) /\ e # Absent
    BY <2>1, EntryType
  <2>3. peers' = peers \/ peers' = [peers EXCEPT ![b.to][b.from] = e]
    BY <1>4, <2>2 DEF ReceiveBeacon
  <2>4. \A d \in Devices, x \in Ids : peers'[d][x] = peers[d][x] \/ peers'[d][x] = e
    <3>1. CASE peers' = peers
      BY <3>1
    <3>2. CASE peers' = [peers EXCEPT ![b.to][b.from] = e]
      <4>1. PICK d \in Devices, x \in Ids : d = b.to /\ x = b.from
        BY <2>1 DEF Ids
      <4>2. peers' = [peers EXCEPT ![d][x] = e]
        BY <3>2, <4>1
      <4> QED BY <4>2 DEF TypeOK
    <3> QED BY <2>3, <3>1, <3>2
  <2> QED BY <2>2, <2>4 DEF KeepsPeers
<1>5. ASSUME NEW c \in Calls, NEW d \in Devices, NEW x \in Ids, RemovePeer(c, d, x)
      PROVE  KeepsPeers
  <2>2. peers' = [peers EXCEPT ![d][x] = Absent]
    BY <1>5 DEF RemovePeer
  <2>3. \A e \in Devices, y \in Ids : ~(e = d /\ y = x) => peers'[e][y] = peers[e][y]
    BY <2>2 DEF TypeOK
  <2> QED BY <1>5, <2>3 DEF KeepsPeers
<1> QED
  BY <1>1, <1>2, <1>3, <1>4, <1>5
  DEF Next, CallStep, Start, Snapshot, Emit, CopyIdentity, Register, Fetch, RefreshFromServer,
      NetworkChanged, ScanLan, SendBeacon, Reply, Move, WatchAddress, RegistryForgets

\* apply_registry_peers: refreshes, however they overlap and fail, and beacons
\* never lose a peer, found on the LAN or added by hand, that the list applied
\* before did not name.
THEOREM PeersStay == Spec => PeersKept
<1>1. Spec => []Inv
  BY InitInv, StepInv, PTL DEF Spec
<1>2. Spec => [][KeepsPeers]_vars
  BY <1>1, StepKeepsPeers, PTL DEF Spec
<1>3. PeersKept <=> [][KeepsPeers]_vars
  BY DEF PeersKept, KeepsPeers
<1> QED BY <1>2, <1>3

-----------------------------------------------------------------------------
(***************************************************************************)
(* Session, for any number of servers, users and calls.                    *)
(***************************************************************************)

Steps == {"idle", "auth", "url", "token", "username", "dev_username", "save_url", "save_user",
          "key", "verify", "drop_token", "drop_key", "read_token", "health", "probe", "send",
          "done"}
Records == [kind : {Unset, "login", "check", "report"}, server : Servers \cup {Unset},
            user : Users \cup {Unset}, phrase : Phrases \cup {Unset}, token : Tokens \cup {Unset}]

\* What a call has been given by the time it needs it.
CallOK(c) ==
    /\ step[c] \in {"auth", "url", "token", "username", "save_url", "save_user"} =>
          call[c].server \in Servers /\ call[c].user \in Users
    /\ step[c] \in {"url", "token"} => call[c].token = Token(call[c].server, call[c].user)
    /\ step[c] \in {"dev_username", "key", "verify"} =>
          call[c].user \in Users /\ call[c].phrase \in Phrases

CallsOK == /\ step \in [AppCalls -> Steps] /\ call \in [AppCalls -> Records]
           /\ \A c \in AppCalls : CallOK(c)

TypeInv == SessionTypeOK /\ CallsOK

\* What every start of a call does.
LEMMA BeginTypes ==
  ASSUME TypeInv, NEW c \in AppCalls, NEW a \in Records, NEW l \in Steps, BeginCall(c, a, l),
         orderly' \in BOOLEAN, inturn' \in BOOLEAN, crossed' \subseteq AppCalls,
         l \in {"idle", "done", "auth", "dev_username", "key", "verify", "drop_token",
                "read_token", "health"},
         l = "auth" => a.server \in Servers /\ a.user \in Users,
         l \in {"dev_username", "key", "verify"} => a.user \in Users /\ a.phrase \in Phrases
  PROVE  TypeInv'
<1>1. SessionTypeOK' BY DEF TypeInv, SessionTypeOK, BeginCall, state
<1>2. step' \in [AppCalls -> Steps] /\ call' \in [AppCalls -> Records]
  BY DEF TypeInv, CallsOK, BeginCall, GoTo
<1>3. ASSUME NEW x \in AppCalls PROVE CallOK(x)'
  <2>1. CASE x = c BY <2>1 DEF TypeInv, CallsOK, CallOK, BeginCall, GoTo
  <2>2. CASE x # c BY <2>2 DEF TypeInv, CallsOK, CallOK, BeginCall, GoTo
  <2> QED BY <2>1, <2>2
<1> QED BY <1>1, <1>2, <1>3 DEF TypeInv, CallsOK

\* The arguments of each call are of the right type.
LEMMA StartTypes ==
  ASSUME TypeInv, NEW c \in AppCalls, StartCall(c) PROVE TypeInv'
<1> USE DEF TypeInv
<1>0. NoCall \in Records BY DEF NoCall, Records
<1>1. ASSUME NEW s \in Servers, NEW u \in Users, DoAuth(c, s, u) PROVE TypeInv'
  <2> DEFINE a == [NoCall EXCEPT !.kind = "login", !.server = s, !.user = u]
  <2>1. a \in Records /\ a.server = s /\ a.user = u BY <1>0 DEF Records
  <2>2. BeginCall(c, a, "auth") /\ orderly' \in BOOLEAN /\ inturn' \in BOOLEAN /\ crossed' \subseteq AppCalls
    BY <1>1 DEF DoAuth, LoginInPlace, SessionTypeOK
  <2> HIDE DEF a
  <2> QED BY <2>1, <2>2, BeginTypes DEF Steps
<1>2. ASSUME NEW u \in Users, NEW p \in Phrases, DevLogin(c, u, p) PROVE TypeInv'
  <2> DEFINE a == [NoCall EXCEPT !.user = u, !.phrase = p]
  <2>1. a \in Records /\ a.user = u /\ a.phrase = p BY <1>0 DEF Records
  <2>2. BeginCall(c, a, "dev_username") /\ orderly' \in BOOLEAN /\ inturn' \in BOOLEAN /\ crossed' \subseteq AppCalls
    BY <1>2 DEF DevLogin, LoginInPlace, SessionTypeOK
  <2> HIDE DEF a
  <2> QED BY <2>1, <2>2, BeginTypes DEF Steps
<1>3. ASSUME NEW p \in Phrases, SetEncryptionKey(c, p) PROVE TypeInv'
  <2> DEFINE a == [NoCall EXCEPT !.user = username, !.phrase = p]
             l == IF username = Unset THEN "done" ELSE "key"
  <2>1. a \in Records /\ a.user = username /\ a.phrase = p BY <1>0 DEF Records, SessionTypeOK
  <2>2. BeginCall(c, a, l) /\ orderly' \in BOOLEAN /\ inturn' \in BOOLEAN /\ crossed' \subseteq AppCalls
    BY <1>3 DEF SetEncryptionKey, KeyInPlace, SessionTypeOK
  <2>3. l \in {"done", "key"} /\ (l = "key" => username \in Users) BY DEF SessionTypeOK
  <2> HIDE DEF a, l
  <2> QED BY <2>1, <2>2, <2>3, BeginTypes DEF Steps
<1>4. ASSUME NEW p \in Phrases, UpdateEncryptionKey(c, p) PROVE TypeInv'
  <2> DEFINE a == [NoCall EXCEPT !.user = username, !.phrase = p, !.server = server_url]
             l == IF username = Unset \/ server_url = Unset THEN "done" ELSE "verify"
  <2>1. a \in Records /\ a.user = username /\ a.phrase = p BY <1>0 DEF Records, SessionTypeOK
  <2>2. BeginCall(c, a, l) /\ orderly' \in BOOLEAN /\ inturn' \in BOOLEAN /\ crossed' \subseteq AppCalls
    BY <1>4 DEF UpdateEncryptionKey, KeyInPlace, SessionTypeOK
  <2>3. l \in {"done", "verify"} /\ (l = "verify" => username \in Users) BY DEF SessionTypeOK
  <2> HIDE DEF a, l
  <2> QED BY <2>1, <2>2, <2>3, BeginTypes DEF Steps
<1>5. CASE Logout(c)
  BY <1>0, <1>5, BeginTypes DEF Logout, SessionTypeOK, Steps
<1>6. ASSUME NEW k \in {Unset, "check", "report"}, NEW l \in {"read_token", "health"},
             BeginRequest(c, k, l)
      PROVE  TypeInv'
  <2> DEFINE a == [NoCall EXCEPT !.kind = k, !.server = server_url]
             m == IF server_url = Unset THEN "done" ELSE l
  <2>1. a \in Records BY <1>0 DEF Records, SessionTypeOK
  <2>2. BeginCall(c, a, m) /\ orderly' \in BOOLEAN /\ inturn' \in BOOLEAN /\ crossed' \subseteq AppCalls
    BY <1>6 DEF BeginRequest, SessionTypeOK
  <2>3. m \in {"done", "read_token", "health"} OBVIOUS
  <2> HIDE DEF a, m
  <2> QED BY <2>1, <2>2, <2>3, BeginTypes DEF Steps
<1>7. CASE Request(c) \/ FirewallCheck(c) \/ ReportFirewall(c)
  BY <1>6, <1>7 DEF Request, FirewallCheck, ReportFirewall
<1> QED BY <1>1, <1>2, <1>3, <1>4, <1>5, <1>7 DEF StartCall

\* A step of call c that leaves the others alone keeps what is said of them.
LEMMA OthersOK ==
  ASSUME CallsOK, NEW c \in AppCalls, NEW l \in Steps, GoTo(c, l),
         NEW a \in Records, call' = [call EXCEPT ![c] = a]
  PROVE  /\ step' \in [AppCalls -> Steps] /\ call' \in [AppCalls -> Records]
         /\ step'[c] = l /\ call'[c] = a
         /\ \A x \in AppCalls : x # c => step'[x] = step[x] /\ call'[x] = call[x] /\ CallOK(x)'
<1> USE DEF CallsOK, GoTo
<1>1. step' \in [AppCalls -> Steps] /\ call' \in [AppCalls -> Records] /\ step'[c] = l /\ call'[c] = a
  OBVIOUS
<1>2. \A x \in AppCalls : x # c => step'[x] = step[x] /\ call'[x] = call[x] OBVIOUS
<1>3. \A x \in AppCalls : x # c => CallOK(x)' BY <1>2 DEF CallOK
<1> QED BY <1>1, <1>2, <1>3

\* A step that only moves call c, to a place that asks for no more.
LEMMA MoveTypes ==
  ASSUME CallsOK, NEW c \in AppCalls, NEW l \in Steps, GoTo(c, l), UNCHANGED call,
         CallOK(c)'
  PROVE  CallsOK'
<1>1. call' = [call EXCEPT ![c] = call[c]] /\ call[c] \in Records BY DEF CallsOK
<1>2. \A x \in AppCalls : x # c => CallOK(x)' BY <1>1, OthersOK
<1>3. step' \in [AppCalls -> Steps] /\ call' \in [AppCalls -> Records] BY <1>1, OthersOK
<1> QED BY <1>2, <1>3 DEF CallsOK

\* Each step of a call stores and reads what it should.
LEMMA StepTypes ==
  ASSUME TypeInv, NEW c \in AppCalls, Step(c) PROVE TypeInv'
<1>0. /\ CallsOK /\ CallOK(c) /\ step[c] \in Steps /\ call[c] \in Records /\ SessionTypeOK
      /\ step \in [AppCalls -> Steps] /\ call \in [AppCalls -> Records]
  BY DEF TypeInv, CallsOK
<1>a. orderly' = orderly /\ inturn' = inturn /\ crossed' \subseteq AppCalls
  BY DEF Step, SetUrl, Cross, TypeInv, SessionTypeOK
<1>1. CASE AuthCall(c)
  <2>1. SessionTypeOK' BY <1>0, <1>a, <1>1 DEF AuthCall, SessionTypeOK, state
  <2>2. CASE GoTo(c, "done") /\ UNCHANGED call
    <3>1. CallOK(c)' BY <1>0, <2>2 DEF CallOK, GoTo
    <3> QED BY <1>0, <2>1, <2>2, <3>1, MoveTypes DEF Steps, TypeInv
  <2>3. CASE /\ call' = [call EXCEPT ![c].token = Token(call[c].server, call[c].user)]
             /\ GoTo(c, "url")
    <3> DEFINE t == Token(call[c].server, call[c].user)
    <3>1. call[c].server \in Servers /\ call[c].user \in Users
      BY <1>0, <1>1 DEF AuthCall, CallOK
    <3>2. t \in Tokens BY <3>1 DEF Tokens
    <3>3. PICK a \in Records :
             /\ call' = [call EXCEPT ![c] = a]
             /\ a.server = call[c].server /\ a.user = call[c].user /\ a.token = t
      <4>1. call' = [call EXCEPT ![c] = [call[c] EXCEPT !.token = t]] BY <2>3
      <4> HIDE DEF t
      <4>2. [call[c] EXCEPT !.token = t] \in Records BY <1>0, <3>2 DEF Records
      <4>3. /\ [call[c] EXCEPT !.token = t].server = call[c].server
            /\ [call[c] EXCEPT !.token = t].user = call[c].user
            /\ [call[c] EXCEPT !.token = t].token = t
        BY <1>0 DEF Records
      <4> QED BY <4>1, <4>2, <4>3
    <3>4. "url" \in Steps /\ GoTo(c, "url") BY <2>3 DEF Steps
    <3>5. /\ step' \in [AppCalls -> Steps] /\ call' \in [AppCalls -> Records]
          /\ step'[c] = "url" /\ call'[c] = a
          /\ \A x \in AppCalls : x # c => CallOK(x)'
      BY <1>0, <3>3, <3>4, OthersOK
    <3>6. CallOK(c)' BY <3>1, <3>3, <3>5 DEF CallOK
    <3> QED BY <2>1, <3>5, <3>6 DEF TypeInv, CallsOK
  <2> QED BY <1>1, <2>2, <2>3 DEF AuthCall
<1>2. CASE SetUrl(c)
  <2>1. SessionTypeOK' BY <1>0, <1>a, <1>2 DEF SetUrl, SessionTypeOK, CallOK
  <2>2. CallOK(c)' BY <1>0, <1>2 DEF SetUrl, CallOK, GoTo
  <2> QED BY <1>0, <1>2, <2>1, <2>2, MoveTypes DEF SetUrl, Steps, TypeInv
<1>3. CASE SetToken(c)
  <2>0. call[c].token \in Tokens BY <1>0, <1>3 DEF SetToken, CallOK, Tokens
  <2>1. SessionTypeOK' BY <1>0, <1>a, <1>3, <2>0 DEF SetToken, SessionTypeOK
  <2>2. CallOK(c)' BY <1>0, <1>3 DEF SetToken, CallOK, GoTo
  <2> QED BY <1>0, <1>3, <2>1, <2>2, MoveTypes DEF SetToken, Steps, TypeInv
<1>4. CASE SetUsername(c)
  <2>1. SessionTypeOK' BY <1>0, <1>a, <1>4 DEF SetUsername, SessionTypeOK, CallOK
  <2>2. CASE step[c] = "username"
    <3>1. CallOK(c)' BY <1>0, <1>4, <2>2 DEF SetUsername, CallOK, GoTo
    <3> QED BY <1>0, <1>4, <2>1, <2>2, <3>1, MoveTypes DEF SetUsername, Steps, TypeInv
  <2>3. CASE step[c] = "dev_username"
    <3>1. CallOK(c)' BY <1>0, <1>4, <2>3 DEF SetUsername, CallOK, GoTo
    <3> QED BY <1>0, <1>4, <2>1, <2>3, <3>1, MoveTypes DEF SetUsername, Steps, TypeInv
  <2> QED BY <1>4, <2>2, <2>3 DEF SetUsername
<1>5. CASE SaveUrl(c)
  <2>1. SessionTypeOK' BY <1>0, <1>a, <1>5 DEF SaveUrl, SessionTypeOK, CallOK
  <2>2. CallOK(c)' BY <1>0, <1>5 DEF SaveUrl, CallOK, GoTo
  <2> QED BY <1>0, <1>5, <2>1, <2>2, MoveTypes DEF SaveUrl, Steps, TypeInv
<1>6. CASE SaveUser(c)
  <2>1. SessionTypeOK' BY <1>0, <1>a, <1>6 DEF SaveUser, SessionTypeOK, CallOK
  <2>2. CallOK(c)' BY <1>0, <1>6 DEF SaveUser, CallOK, GoTo
  <2> QED BY <1>0, <1>6, <2>1, <2>2, MoveTypes DEF SaveUser, Steps, TypeInv
<1>7. CASE VerifyPassword(c)
  <2>1. SessionTypeOK' BY <1>0, <1>a, <1>7 DEF VerifyPassword, SessionTypeOK, state
  <2>2. PICK l \in {"key", "done"} : GoTo(c, l) BY <1>7 DEF VerifyPassword
  <2>3. CallOK(c)' BY <1>0, <1>7, <2>2 DEF VerifyPassword, CallOK, GoTo
  <2> QED BY <1>0, <1>7, <2>1, <2>2, <2>3, MoveTypes DEF VerifyPassword, Steps, TypeInv
<1>8. CASE SetKey(c)
  <2>0. key' \in Keys BY <1>0, <1>8 DEF SetKey, Keys, CallOK
  <2>1. SessionTypeOK' BY <1>0, <1>a, <1>8, <2>0 DEF SetKey, SessionTypeOK
  <2>2. CallOK(c)' BY <1>0, <1>8 DEF SetKey, CallOK, GoTo
  <2> QED BY <1>0, <1>8, <2>1, <2>2, MoveTypes DEF SetKey, Steps, TypeInv
<1>9. CASE DropToken(c)
  <2>1. SessionTypeOK' BY <1>0, <1>a, <1>9 DEF DropToken, SessionTypeOK
  <2>2. CallOK(c)' BY <1>0, <1>9 DEF DropToken, CallOK, GoTo
  <2> QED BY <1>0, <1>9, <2>1, <2>2, MoveTypes DEF DropToken, Steps, TypeInv
<1>10. CASE DropKey(c)
  <2>1. SessionTypeOK' BY <1>0, <1>a, <1>10 DEF DropKey, SessionTypeOK
  <2>2. CallOK(c)' BY <1>0, <1>10 DEF DropKey, CallOK, GoTo
  <2> QED BY <1>0, <1>10, <2>1, <2>2, MoveTypes DEF DropKey, Steps, TypeInv
<1>11. CASE ReadToken(c)
  <2>1. SessionTypeOK' BY <1>0, <1>a, <1>11 DEF ReadToken, SessionTypeOK, state
  <2>2. PICK l \in {"done", "send", "probe", "health"} : GoTo(c, l)
    BY <1>0, <1>11 DEF ReadToken, Records
  <2>3. l \in Steps BY DEF Steps
  <2>4. PICK a \in Records : call' = [call EXCEPT ![c] = a]
    <3>1. [call[c] EXCEPT !.token = token] \in Records BY <1>0 DEF Records, SessionTypeOK
    <3> QED BY <1>11, <3>1 DEF ReadToken
  <2>5. /\ step' \in [AppCalls -> Steps] /\ call' \in [AppCalls -> Records]
        /\ step'[c] = l /\ \A x \in AppCalls : x # c => CallOK(x)'
    BY <1>0, <2>2, <2>3, <2>4, OthersOK
  <2>6. CallOK(c)' BY <2>2, <2>5 DEF CallOK
  <2> QED BY <2>1, <2>5, <2>6 DEF TypeInv, CallsOK
<1>12. CASE HealthOk(c) \/ ProbeInbound(c) \/ Send(c)
  <2>1. SessionTypeOK' BY <1>0, <1>a, <1>12 DEF HealthOk, ProbeInbound, Send, SessionTypeOK, state
  <2>2. PICK l \in {"done", "read_token", "probe", "send"} : GoTo(c, l)
    BY <1>12 DEF HealthOk, ProbeInbound, Send
  <2>3. UNCHANGED call BY <1>12 DEF HealthOk, ProbeInbound, Send
  <2>4. CallOK(c)' BY <1>0, <2>2 DEF CallOK, GoTo
  <2> QED BY <1>0, <2>1, <2>2, <2>3, <2>4, MoveTypes DEF Steps, TypeInv
<1> QED BY <1>1, <1>2, <1>3, <1>4, <1>5, <1>6, <1>7, <1>8, <1>9, <1>10, <1>11, <1>12
        DEF Step, PlainStep

\* Nothing is set and no call has been made at the start.
LEMMA TypeInit == SessionInit => TypeInv
<1> SUFFICES ASSUME SessionInit PROVE TypeInv OBVIOUS
<1>1. SessionTypeOK BY DEF SessionInit, SessionTypeOK
<1>2. NoCall \in Records BY DEF NoCall, Records
<1>3. step \in [AppCalls -> Steps] /\ call \in [AppCalls -> Records] BY <1>2 DEF SessionInit, Steps
<1>4. \A c \in AppCalls : CallOK(c) BY DEF SessionInit, CallOK
<1> QED BY <1>1, <1>3, <1>4 DEF TypeInv, CallsOK

\* Nothing changes, nothing is disturbed.
LEMMA TypeStutter == TypeInv /\ UNCHANGED sessionVars => TypeInv'
  BY DEF TypeInv, SessionTypeOK, CallsOK, CallOK, sessionVars, state, history

\* A key in use was derived from the name of some user, a token was issued by
\* some server, whatever calls overlap.
THEOREM SessionTypes == SessionSpec => []SessionTypeOK
<1>1. TypeInv /\ [SessionNext]_(sessionVars) => TypeInv'
  BY StartTypes, StepTypes, TypeStutter DEF SessionNext
<1>2. TypeInv => SessionTypeOK BY DEF TypeInv
<1> QED BY TypeInit, <1>1, <1>2, PTL DEF SessionSpec

-----------------------------------------------------------------------------
\* Both locks of a login's assignment have been taken alone.
NoTornLogin == \A c \in crossed : call[c].kind # "login"

\* A request that no login has crossed has the URL of the moment until it
\* reads the token; without torn logins, URL and token go together whenever no
\* login is between them.
IssuerInv ==
    /\ \A c \in crossed : step[c] # "idle"
    /\ \A c \in AppCalls : step[c] \in {"auth", "url", "token"} => call[c].kind = "login"
    /\ \A c \in AppCalls : step[c] = "health" => call[c].kind \in {"check", "report"}
    /\ \A c \in AppCalls : Reading(c) => call[c].token = Unset
    /\ \A c \in AppCalls \ crossed : Reading(c) =>
          server_url = call[c].server /\ \A b \in AppCalls : ~Assigning(b)
    /\ NoTornLogin =>
          /\ \A b, c \in AppCalls : Assigning(b) /\ Assigning(c) => b = c
          /\ \A c \in AppCalls : Assigning(c) => server_url = call[c].server
          /\ token # Unset /\ (\A c \in AppCalls : ~Assigning(c)) => token.server = server_url
    /\ TokenToIssuer

\* A call starts where it may: a request with the URL of the moment.
LEMMA BeginAlone ==
  ASSUME TypeInv, NEW c \in AppCalls, StartCall(c)
  PROVE  /\ \A x \in AppCalls : x # c => step'[x] = step[x] /\ call'[x] = call[x]
         /\ UNCHANGED <<server_url, token>> /\ step[c] = "idle"
         /\ step'[c] \in {"auth", "dev_username", "done", "key", "verify", "drop_token",
                         "read_token", "health"}
         /\ step'[c] = "auth" => call'[c].kind = "login"
         /\ step'[c] = "health" => call'[c].kind = "check"
         /\ step'[c] \in {"read_token", "health"} =>
              call'[c].server = server_url /\ call'[c].token = Unset
         /\ crossed \subseteq crossed' /\ crossed' \subseteq crossed \cup {c}
         /\ c \in crossed' \ crossed => step'[c] \in {"read_token", "health", "done"}
         /\ step'[c] \in {"read_token", "health"} /\ c \notin crossed' =>
              \A b \in AppCalls : ~Assigning(b)
<1>1. step \in [AppCalls -> Steps] /\ call \in [AppCalls -> Records] BY DEF TypeInv, CallsOK
<1>2. PICK a, l : BeginCall(c, a, l)
  BY DEF StartCall, DoAuth, DevLogin, SetEncryptionKey, UpdateEncryptionKey, Logout, Request,
         FirewallCheck, ReportFirewall, BeginRequest
<1>3. /\ \A x \in AppCalls : x # c => step'[x] = step[x] /\ call'[x] = call[x]
      /\ UNCHANGED <<server_url, token>> /\ step[c] = "idle"
  BY <1>1, <1>2 DEF BeginCall, GoTo, state
<1>4. CASE Request(c) \/ FirewallCheck(c) \/ ReportFirewall(c)
  BY <1>1, <1>3, <1>4
  DEF Request, FirewallCheck, ReportFirewall, BeginRequest, BeginCall, GoTo, NoCall
<1>5. CASE \/ \E s \in Servers, u \in Users : DoAuth(c, s, u)
           \/ \E u \in Users, p \in Phrases : DevLogin(c, u, p)
           \/ \E p \in Phrases : SetEncryptionKey(c, p) \/ UpdateEncryptionKey(c, p)
           \/ Logout(c)
  BY <1>1, <1>3, <1>5
  DEF DoAuth, DevLogin, SetEncryptionKey, UpdateEncryptionKey, Logout, BeginCall, GoTo, NoCall
<1> QED BY <1>4, <1>5 DEF StartCall

\* A step of c leaves the other calls alone, and its own kind.
LEMMA StepAlone ==
  ASSUME TypeInv, NEW c \in AppCalls, Step(c)
  PROVE  /\ \A x \in AppCalls : x # c => step'[x] = step[x] /\ call'[x] = call[x]
         /\ step[c] # "idle" /\ step'[c] # "idle" /\ call'[c].kind = call[c].kind
         /\ call'[c].server = call[c].server
         /\ crossed \subseteq crossed'
<1>0. step \in [AppCalls -> Steps] /\ call \in [AppCalls -> Records] BY DEF TypeInv, CallsOK
<1>1. PICK l \in Steps \ {"idle"} : GoTo(c, l)
  BY <1>0 DEF Step, PlainStep, AuthCall, SetUrl, SetToken, SetUsername, SaveUrl, SaveUser,
         VerifyPassword, SetKey, DropToken, DropKey, ReadToken, HealthOk, ProbeInbound, Send,
         Steps, Records
<1>2. call' = call \/ \E t : call' = [call EXCEPT ![c].token = t]
  BY DEF Step, PlainStep, AuthCall, SetUrl, SetToken, SetUsername, SaveUrl, SaveUser,
         VerifyPassword, SetKey, DropToken, DropKey, ReadToken, HealthOk, ProbeInbound, Send
<1>3. /\ \A x \in AppCalls : x # c => call'[x] = call[x]
      /\ call'[c].kind = call[c].kind /\ call'[c].server = call[c].server
  BY <1>0, <1>2 DEF Records
<1>4. step[c] # "idle"
  BY DEF Step, PlainStep, AuthCall, SetUrl, SetToken, SetUsername, SaveUrl, SaveUser,
         VerifyPassword, SetKey, DropToken, DropKey, ReadToken, HealthOk, ProbeInbound, Send
<1>5. crossed \subseteq crossed' BY DEF Step, SetUrl, Cross
<1>6. /\ \A x \in AppCalls : x # c => step'[x] = step[x]
      /\ step'[c] # "idle"
  BY <1>0, <1>1 DEF GoTo
<1> QED BY <1>3, <1>4, <1>5, <1>6

\* What no login has torn now, none has torn before.
LEMMA TornBefore ==
  ASSUME TypeInv, IssuerInv, NEW c \in AppCalls, StartCall(c) \/ Step(c), NoTornLogin'
  PROVE  NoTornLogin
<1>1. crossed \subseteq crossed' BY BeginAlone, StepAlone
<1>2. \A x \in crossed : x \in AppCalls /\ call'[x].kind = call[x].kind
  BY BeginAlone, StepAlone DEF IssuerInv, TypeInv, SessionTypeOK
<1> QED BY <1>1, <1>2 DEF NoTornLogin

\* A new call keeps URL and token as they are.
LEMMA IssuerStart ==
  ASSUME TypeInv, IssuerInv, NEW c \in AppCalls, StartCall(c) PROVE IssuerInv'
<1>1. /\ \A x \in AppCalls : x # c => step'[x] = step[x] /\ call'[x] = call[x]
      /\ UNCHANGED <<server_url, token>> /\ step[c] = "idle"
      /\ step'[c] \in {"auth", "dev_username", "done", "key", "verify", "drop_token",
                      "read_token", "health"}
      /\ step'[c] = "auth" => call'[c].kind = "login"
      /\ step'[c] = "health" => call'[c].kind = "check"
      /\ step'[c] \in {"read_token", "health"} =>
           call'[c].server = server_url /\ call'[c].token = Unset
      /\ crossed \subseteq crossed' /\ crossed' \subseteq crossed \cup {c}
      /\ c \in crossed' \ crossed => step'[c] \in {"read_token", "health", "done"}
      /\ step'[c] \in {"read_token", "health"} /\ c \notin crossed' =>
           \A b \in AppCalls : ~Assigning(b)
  BY BeginAlone
<1>2. \A x \in AppCalls : /\ Assigning(x)' <=> Assigning(x)
                          /\ x # c => (Reading(x)' <=> Reading(x))
                          /\ x # c => (TokenMatches(x)' <=> TokenMatches(x))
  BY <1>1 DEF Assigning, Reading, TokenMatches
<1>3. Reading(c)' => step'[c] \in {"read_token", "health"} BY DEF Reading
<1>4. TokenMatches(c)' BY <1>1 DEF TokenMatches
<1>5. NoTornLogin' => NoTornLogin BY TornBefore
<1>6. TokenToIssuer'
  BY <1>1, <1>2, <1>4, <1>5 DEF TokenToIssuer, IssuerInv, NoTornLogin
<1>7. /\ \A x \in crossed' : step'[x] # "idle"
      /\ \A x \in AppCalls : step'[x] \in {"auth", "url", "token"} => call'[x].kind = "login"
      /\ \A x \in AppCalls : step'[x] = "health" => call'[x].kind \in {"check", "report"}
      /\ \A x \in AppCalls : Reading(x)' => call'[x].token = Unset
  BY <1>1, <1>2, <1>3 DEF IssuerInv, TypeInv, SessionTypeOK
<1>8. \A x \in AppCalls \ crossed' : Reading(x)' =>
          server_url' = call'[x].server /\ \A b \in AppCalls : ~Assigning(b)'
  <2> SUFFICES ASSUME NEW x \in AppCalls \ crossed', Reading(x)'
               PROVE  server_url' = call'[x].server /\ \A b \in AppCalls : ~Assigning(b)'
    OBVIOUS
  <2>1. CASE x = c BY <1>1, <1>2, <1>3, <2>1
  <2>2. CASE x # c BY <1>1, <1>2, <2>2 DEF IssuerInv
  <2> QED BY <2>1, <2>2
<1>9. NoTornLogin' =>
          /\ \A b, x \in AppCalls : Assigning(b)' /\ Assigning(x)' => b = x
          /\ \A x \in AppCalls : Assigning(x)' => server_url' = call'[x].server
          /\ token' # Unset /\ (\A x \in AppCalls : ~Assigning(x)') => token'.server = server_url'
  BY <1>1, <1>2, <1>5 DEF IssuerInv, Assigning
<1> QED BY <1>6, <1>7, <1>8, <1>9 DEF IssuerInv

\* A step that leaves the URL alone, and the token or does not leave it set,
\* keeps them together, if call c itself arrives where it may be.
LEMMA IssuerKept ==
  ASSUME TypeInv, IssuerInv, NEW c \in AppCalls, Step(c), UNCHANGED <<server_url, crossed>>,
         token' = token \/ token' = Unset,
         step[c] # "token", step'[c] # "token",
         step'[c] \in {"auth", "url"} => call[c].kind = "login",
         step'[c] = "health" => call'[c].kind = "report",
         step'[c] = "read_token" => Reading(c) /\ call'[c].token = Unset,
         NoTornLogin /\ c \notin crossed => TokenMatches(c)'
  PROVE  IssuerInv'
<1>1. /\ \A x \in AppCalls : x # c => step'[x] = step[x] /\ call'[x] = call[x]
      /\ step[c] # "idle" /\ step'[c] # "idle" /\ call'[c].kind = call[c].kind
      /\ call'[c].server = call[c].server
  BY StepAlone
<1>2. \A x \in AppCalls : /\ Assigning(x)' <=> Assigning(x)
                          /\ x # c => (Reading(x)' <=> Reading(x))
                          /\ x # c => (TokenMatches(x)' <=> TokenMatches(x))
  BY <1>1 DEF Assigning, Reading, TokenMatches
<1>3. Reading(c)' => Reading(c) /\ call'[c].token = Unset BY DEF Reading
<1>5. NoTornLogin' => NoTornLogin BY TornBefore
<1>6. TokenToIssuer'
  BY <1>2, <1>5 DEF TokenToIssuer, IssuerInv, NoTornLogin
<1>7. /\ \A x \in crossed' : step'[x] # "idle"
      /\ \A x \in AppCalls : step'[x] \in {"auth", "url", "token"} => call'[x].kind = "login"
      /\ \A x \in AppCalls : step'[x] = "health" => call'[x].kind \in {"check", "report"}
      /\ \A x \in AppCalls : Reading(x)' => call'[x].token = Unset
  BY <1>1, <1>2, <1>3 DEF IssuerInv, TypeInv, SessionTypeOK
<1>8. \A x \in AppCalls \ crossed' : Reading(x)' =>
          server_url' = call'[x].server /\ \A b \in AppCalls : ~Assigning(b)'
  <2> SUFFICES ASSUME NEW x \in AppCalls \ crossed', Reading(x)'
               PROVE  server_url' = call'[x].server /\ \A b \in AppCalls : ~Assigning(b)'
    OBVIOUS
  <2>1. Reading(x) /\ call'[x].server = call[x].server BY <1>1, <1>2, <1>3
  <2> QED BY <1>2, <2>1 DEF IssuerInv
<1>9. NoTornLogin' =>
          /\ \A b, x \in AppCalls : Assigning(b)' /\ Assigning(x)' => b = x
          /\ \A x \in AppCalls : Assigning(x)' => server_url' = call'[x].server
          /\ token' # Unset /\ (\A x \in AppCalls : ~Assigning(x)') => token'.server = server_url'
  BY <1>1, <1>2, <1>5 DEF IssuerInv, Assigning
<1> QED BY <1>6, <1>7, <1>8, <1>9 DEF IssuerInv

\* Every step keeps URL and token together, or counts whom it has crossed.
LEMMA IssuerStep ==
  ASSUME TypeInv, IssuerInv, NEW c \in AppCalls, Step(c) PROVE IssuerInv'
<1>0. /\ step \in [AppCalls -> Steps] /\ call \in [AppCalls -> Records] /\ CallOK(c)
  BY DEF TypeInv, CallsOK
<1>1. /\ \A x \in AppCalls : x # c => step'[x] = step[x] /\ call'[x] = call[x]
      /\ step[c] # "idle" /\ step'[c] # "idle" /\ call'[c].kind = call[c].kind
      /\ call'[c].server = call[c].server
      /\ crossed \subseteq crossed'
  BY StepAlone
<1>2. NoTornLogin' => NoTornLogin BY TornBefore
<1>3. CASE SetUrl(c)
  <2>1. /\ step[c] = "url" /\ step'[c] = "token" /\ server_url' = call[c].server
        /\ UNCHANGED <<token, call>>
        /\ crossed' = crossed \cup {b \in AppCalls : Assigning(b) \/ Reading(b)}
                             \cup {b \in {c} : \E d \in AppCalls : Assigning(d)}
    BY <1>0, <1>3 DEF SetUrl, GoTo, Cross
  <2>2. /\ \A x \in AppCalls : x # c => /\ (Assigning(x)' <=> Assigning(x))
                                         /\ (Reading(x)' <=> Reading(x))
                                         /\ (TokenMatches(x)' <=> TokenMatches(x))
        /\ Assigning(c)' /\ ~Reading(c)' /\ TokenMatches(c)' /\ call[c].kind = "login"
    BY <1>1, <2>1 DEF Assigning, Reading, TokenMatches, IssuerInv
  <2>3. TokenToIssuer'
    BY <1>1, <1>2, <2>2 DEF TokenToIssuer, IssuerInv, NoTornLogin
  <2>4. NoTornLogin' => \A d \in AppCalls : ~Assigning(d)
    BY <2>1, <2>2 DEF NoTornLogin
  <2>5. \A x \in crossed' : step'[x] # "idle"
    BY <1>1, <2>1 DEF IssuerInv, Assigning, Reading, TypeInv, SessionTypeOK
  <2>6. \A x \in AppCalls \ crossed' : ~Reading(x)'
    BY <2>1, <2>2
  <2>7. /\ \A x \in AppCalls : step'[x] \in {"auth", "url", "token"} => call'[x].kind = "login"
        /\ \A x \in AppCalls : step'[x] = "health" => call'[x].kind \in {"check", "report"}
        /\ \A x \in AppCalls : Reading(x)' => call'[x].token = Unset
    BY <1>1, <2>1, <2>2 DEF IssuerInv
  <2>8. NoTornLogin' =>
          /\ \A b, x \in AppCalls : Assigning(b)' /\ Assigning(x)' => b = x
          /\ \A x \in AppCalls : Assigning(x)' => server_url' = call'[x].server
          /\ ~(\A x \in AppCalls : ~Assigning(x)')
    BY <2>1, <2>2, <2>4
  <2> QED BY <2>3, <2>5, <2>6, <2>7, <2>8 DEF IssuerInv
<1>4. CASE SetToken(c)
  <2>1. /\ step[c] = "token" /\ step'[c] = "username" /\ token' = call[c].token
        /\ UNCHANGED <<server_url, call, crossed>>
    BY <1>0, <1>4 DEF SetToken, GoTo, Step, SetUrl
  <2>2. /\ \A x \in AppCalls : x # c => /\ (Assigning(x)' <=> Assigning(x))
                                         /\ (Reading(x)' <=> Reading(x))
                                         /\ (TokenMatches(x)' <=> TokenMatches(x))
        /\ Assigning(c) /\ ~Assigning(c)' /\ ~Reading(c)' /\ TokenMatches(c)'
    BY <1>1, <2>1 DEF Assigning, Reading, TokenMatches
  <2>3. token'.server = call[c].server
    BY <1>0, <2>1 DEF CallOK, Token
  <2>4. TokenToIssuer'
    BY <1>2, <2>1, <2>2 DEF TokenToIssuer, IssuerInv, NoTornLogin
  <2>5. \A x \in AppCalls \ crossed' : ~Reading(x)'
    BY <2>1, <2>2 DEF IssuerInv
  <2>6. /\ \A x \in crossed' : step'[x] # "idle"
        /\ \A x \in AppCalls : step'[x] \in {"auth", "url", "token"} => call'[x].kind = "login"
        /\ \A x \in AppCalls : step'[x] = "health" => call'[x].kind \in {"check", "report"}
        /\ \A x \in AppCalls : Reading(x)' => call'[x].token = Unset
    BY <1>1, <2>1, <2>2 DEF IssuerInv, TypeInv, SessionTypeOK
  <2>7. NoTornLogin' =>
          /\ \A x \in AppCalls : ~Assigning(x)'
          /\ token'.server = server_url'
    BY <1>2, <2>1, <2>2, <2>3 DEF IssuerInv
  <2> QED BY <2>4, <2>5, <2>6, <2>7 DEF IssuerInv
<1>5. CASE ReadToken(c)
  <2>1. /\ step[c] = "read_token" /\ UNCHANGED <<server_url, token, crossed>>
        /\ call'[c] = [call[c] EXCEPT !.token = token]
        /\ step'[c] \in {"done", "send", "probe", "health"}
        /\ step'[c] = "health" => call[c].kind = "report"
    BY <1>0, <1>5 DEF ReadToken, GoTo, state, Step, SetUrl
  <2>2. call'[c].token = token BY <1>0, <2>1 DEF Records
  <2>3. NoTornLogin /\ c \notin crossed => TokenMatches(c)'
    BY <1>1, <2>1, <2>2 DEF IssuerInv, Reading, TokenMatches
  <2> QED BY <1>1, <2>1, <2>3, IssuerKept
<1>6. CASE HealthOk(c)
  <2>1. /\ step[c] = "health" /\ UNCHANGED <<server_url, token, call, crossed>>
        /\ step'[c] \in {"done", "read_token", "probe"}
        /\ step'[c] = "read_token" => call[c].kind = "check"
    BY <1>0, <1>6 DEF HealthOk, GoTo, state, Step, SetUrl
  <2>2. step'[c] = "read_token" => Reading(c) /\ call'[c].token = Unset
    BY <2>1 DEF Reading, IssuerInv
  <2>3. NoTornLogin /\ c \notin crossed => TokenMatches(c)'
    BY <2>1 DEF IssuerInv, TokenToIssuer, TokenMatches, NoTornLogin
  <2> QED BY <2>1, <2>2, <2>3, IssuerKept
<1>7. CASE ProbeInbound(c) \/ Send(c)
  <2>1. /\ step[c] \in {"probe", "send"} /\ UNCHANGED <<server_url, token, call, crossed>>
        /\ step'[c] \in {"done", "send"}
    BY <1>0, <1>7 DEF ProbeInbound, Send, GoTo, state, Step, SetUrl
  <2>2. NoTornLogin /\ c \notin crossed => TokenMatches(c)'
    BY <2>1 DEF IssuerInv, TokenToIssuer, TokenMatches, NoTornLogin
  <2> QED BY <2>1, <2>2, IssuerKept
<1>8. CASE \/ AuthCall(c) \/ SetUsername(c) \/ SaveUrl(c) \/ SaveUser(c)
           \/ VerifyPassword(c) \/ SetKey(c) \/ DropKey(c) \/ DropToken(c)
  <2>1. /\ UNCHANGED <<server_url, crossed>> /\ (token' = token \/ token' = Unset)
        /\ step[c] # "token"
        /\ step'[c] \in {"url", "done", "save_url", "key", "save_user", "drop_key"}
        /\ step'[c] = "url" => step[c] = "auth"
    BY <1>0, <1>8 DEF AuthCall, SetUsername, SaveUrl, SaveUser, VerifyPassword, SetKey, DropKey,
         DropToken, GoTo, state, Step, SetUrl
  <2>2. TokenMatches(c)' BY <2>1 DEF TokenMatches
  <2>3. step'[c] = "url" => call[c].kind = "login" BY <2>1 DEF IssuerInv
  <2> QED BY <2>1, <2>2, <2>3, IssuerKept
<1> QED BY <1>3, <1>4, <1>5, <1>6, <1>7, <1>8 DEF Step, PlainStep

\* However logins, requests and the threads of connect, on_signal and
\* report_firewall overlap, the only requests that can take a token to another
\* server than its issuer are those whose reads of URL and token a login's
\* assignments have crossed, if no two logins have crossed each other.
THEOREM TokenStaysHome == SessionSpec => []TokenToIssuer
<1> DEFINE SessInv == TypeInv /\ IssuerInv
<1>1. SessionInit => SessInv
  <2> SUFFICES ASSUME SessionInit PROVE IssuerInv BY TypeInit
  <2>1. \A c \in AppCalls : step[c] = "idle" /\ call[c] = NoCall BY DEF SessionInit
  <2> QED BY <2>1 DEF SessionInit, IssuerInv, TokenToIssuer, TokenMatches, Reading, Assigning, NoCall
<1>2. SessInv /\ [SessionNext]_(sessionVars) => SessInv'
  <2> SUFFICES ASSUME SessInv, [SessionNext]_(sessionVars) PROVE SessInv' OBVIOUS
  <2>1. TypeInv' BY StartTypes, StepTypes, TypeStutter DEF SessionNext
  <2>2. CASE UNCHANGED sessionVars
    BY <2>1, <2>2 DEF sessionVars, state, history, IssuerInv, NoTornLogin, TokenToIssuer,
         TokenMatches, Reading, Assigning
  <2>3. CASE SessionNext BY <2>1, <2>3, IssuerStart, IssuerStep DEF SessionNext
  <2> QED BY <2>2, <2>3
<1>3. SessInv => TokenToIssuer BY DEF IssuerInv
<1> QED BY <1>1, <1>2, <1>3, PTL DEF SessionSpec
=============================================================================
