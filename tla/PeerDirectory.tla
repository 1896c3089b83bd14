--------------------------- MODULE PeerDirectory ---------------------------
(***************************************************************************)
(* Who knows whom (engine.rs, discovery.rs).  Every device keeps a map of  *)
(* peers fed by the registry server (refresh_from_server), by LAN beacons  *)
(* and by hand; each change is announced to the UI as a PeersUpdated list. *)
(* Calls of the application, the beacon receiver and the address watcher   *)
(* run on threads of their own; the server is external.                    *)
(***************************************************************************)
EXTENDS Integers

CONSTANTS Devices,
          Lan,        \* the devices that beacons reach (lan_targets)
          Members,    \* the devices that are logged in
          Manual,     \* ids "manual:<ip>" of peers added by hand
          Calls,      \* bound: the calls of the application
          Callers,    \* bound: the devices it makes them on
          Absent, None,
          Rounds,     \* how often a scan repeats its beacon
          MaxScan,    \* bound: calls of scan_lan
          MaxMove,    \* bound: how often a device changes its address
          Leaving     \* bound: the devices that the registry may forget

ASSUME DirectoryAssumption ==
    /\ Lan \subseteq Devices /\ Members \subseteq Devices /\ Callers \subseteq Devices
    /\ Leaving \subseteq Devices
    /\ Devices \cap Manual = {} /\ Devices \cap Calls = {}
    /\ Rounds \in Nat /\ MaxScan \in Nat /\ MaxMove \in Nat
    /\ None \notin Devices \cup Manual \cup 0 .. MaxMove
    /\ Absent \notin [source : {"registry", "lan", "manual"}, ip : 0 .. MaxMove]

Ids == Devices \cup Manual
Threads == Calls \cup Devices       \* a device's thread is its beacon receiver
Entry(s, a) == [source |-> s, ip |-> a]

VARIABLES where,     \* device -> its address on the network
          ip,        \* device -> Identity.ip
          reg,       \* the registry: device -> the address it registered
          peers,     \* device -> the PeerMap
          shown,     \* device -> the list of the last PeersUpdated
          pc, dev,   \* thread -> where it is, for which device it runs
          copy,      \* call -> the address in its copy of the identity
          fetched,   \* call -> the devices the server returned
          list,      \* thread -> the list it is about to emit
          answer,    \* device -> the beacon its receiver has yet to answer
          rounds,    \* device -> beacons its scan has yet to send
          beacons,   \* datagrams in flight; a lost one stays there
          scans, moves,
          listed     \* history: device -> who was in the list it applied last

calls == <<copy, fetched>>
lanVars == <<answer, rounds, beacons, scans>>
addrs == <<where, ip, moves>>
vars == <<addrs, reg, peers, listed, shown, pc, dev, calls, list, lanVars>>

NoPeers == [x \in Ids |-> Absent]
Nobody == [d \in Devices |-> None]

-----------------------------------------------------------------------------
\* emit_peers, and the same lines of the beacon receiver: the list is copied
\* under the lock ...
Snapshot(t) ==
    /\ pc[t] = "snapshot"
    /\ list' = [list EXCEPT ![t] = peers[dev[t]]]
    /\ pc' = [pc EXCEPT ![t] = "emit"]
    /\ UNCHANGED <<addrs, reg, peers, listed, shown, dev, calls, lanVars>>

\* ... and emitted after it.
Emit(t) ==
    /\ pc[t] = "emit"
    /\ shown' = [shown EXCEPT ![dev[t]] = list[t]]
    /\ list' = [list EXCEPT ![t] = NoPeers]
    /\ pc' = [pc EXCEPT ![t] = IF t \in Calls THEN "done" ELSE "reply"]
    /\ UNCHANGED <<addrs, reg, peers, listed, dev, calls, lanVars>>

\* A call of the application on device d takes its first step.
Begin(c, d, next) ==
    /\ pc[c] = "idle"
    /\ dev' = [dev EXCEPT ![c] = d]
    /\ pc' = [pc EXCEPT ![c] = next]

-----------------------------------------------------------------------------
\* refresh_from_server: without a token nothing happens; else a copy of the
\* identity is taken ...
RefreshFromServer(c, d) ==
    /\ Begin(c, d, IF d \in Members THEN "register" ELSE "done")
    /\ copy' = [copy EXCEPT ![c] = ip[d]]
    /\ UNCHANGED <<addrs, reg, peers, listed, shown, fetched, list, lanVars>>

\* ... by network_changed after it has set the address.
NetworkChanged(c, d) ==
    /\ Begin(c, d, IF d \in Members THEN "copy" ELSE "done")
    /\ ip' = [ip EXCEPT ![d] = where[d]]
    /\ UNCHANGED <<where, moves, reg, peers, listed, shown, calls, list, lanVars>>

CopyIdentity(c) ==
    /\ pc[c] = "copy"
    /\ copy' = [copy EXCEPT ![c] = ip[dev[c]]]
    /\ pc' = [pc EXCEPT ![c] = "register"]
    /\ UNCHANGED <<addrs, reg, peers, listed, shown, dev, fetched, list, lanVars>>

\* registry_register; its failure ends the call.
Register(c) ==
    /\ pc[c] = "register"
    /\ \/ /\ reg' = [reg EXCEPT ![dev[c]] = copy[c]]
          /\ pc' = [pc EXCEPT ![c] = "fetch"]
       \/ pc' = [pc EXCEPT ![c] = "done"] /\ UNCHANGED reg
    /\ copy' = [copy EXCEPT ![c] = 0]
    /\ UNCHANGED <<addrs, peers, listed, shown, dev, fetched, list, lanVars>>

\* registry_fetch: the request asks the server to exclude the device itself,
\* and the server is taken to do so.
Fetch(c) ==
    /\ pc[c] = "fetch"
    /\ \/ /\ fetched' = [fetched EXCEPT ![c] = [reg EXCEPT ![dev[c]] = None]]
          /\ pc' = [pc EXCEPT ![c] = "apply"]
       \/ pc' = [pc EXCEPT ![c] = "done"] /\ UNCHANGED fetched
    /\ UNCHANGED <<addrs, reg, peers, listed, shown, dev, copy, list, lanVars>>

\* The server forgets a device: it was removed, or has not been seen for long.
RegistryForgets(d) ==
    /\ d \in Leaving /\ reg[d] # None
    /\ reg' = [reg EXCEPT ![d] = None]
    /\ UNCHANGED <<addrs, peers, listed, shown, pc, dev, calls, list, lanVars>>

\* The map after apply_registry_peers has put in the list f.
FromRegistry(map, f) ==
    [x \in Ids |->
        IF x \in Devices /\ f[x] # None THEN Entry("registry", f[x])
        ELSE IF map[x] # Absent /\ map[x].source = "registry" THEN Absent ELSE map[x]]

\* Mutant: the map is rebuilt, entries of other sources included.
ApplyRebuild(c) ==
    /\ pc[c] = "apply"
    /\ peers' = [peers EXCEPT ![dev[c]] = FromRegistry(NoPeers, fetched[c])]
    /\ listed' = [listed EXCEPT ![dev[c]] = {x \in Devices : fetched[c][x] # None}]
    /\ fetched' = [fetched EXCEPT ![c] = Nobody]
    /\ pc' = [pc EXCEPT ![c] = "snapshot"]
    /\ UNCHANGED <<addrs, reg, shown, dev, copy, list, lanVars>>

\* apply_registry_peers, up to its emit_peers.
Apply(c) ==
    /\ pc[c] = "apply"
    /\ peers' = [peers EXCEPT ![dev[c]] = FromRegistry(@, fetched[c])]
    /\ listed' = [listed EXCEPT ![dev[c]] = {x \in Devices : fetched[c][x] # None}]
    /\ fetched' = [fetched EXCEPT ![c] = Nobody]
    /\ pc' = [pc EXCEPT ![c] = "snapshot"]
    /\ UNCHANGED <<addrs, reg, shown, dev, copy, list, lanVars>>

AddManualPeer(c, d, x) ==
    /\ Begin(c, d, "snapshot")
    /\ peers' = [peers EXCEPT ![d][x] = Entry("manual", 0)]
    /\ UNCHANGED <<addrs, reg, listed, shown, copy, fetched, list, lanVars>>

\* Mutant: the UI is not told.
RemovePeerQuietly(c, d, x) ==
    /\ Begin(c, d, "done")
    /\ peers' = [peers EXCEPT ![d][x] = Absent]
    /\ UNCHANGED <<addrs, reg, listed, shown, copy, fetched, list, lanVars>>

RemovePeer(c, d, x) ==
    /\ Begin(c, d, "snapshot")
    /\ peers' = [peers EXCEPT ![d][x] = Absent]
    /\ UNCHANGED <<addrs, reg, listed, shown, copy, fetched, list, lanVars>>

-----------------------------------------------------------------------------
\* scan_lan starts a thread that sends a beacon a few times.
ScanLan(d) ==
    /\ d \in Lan /\ rounds[d] = 0 /\ scans < MaxScan
    /\ rounds' = [rounds EXCEPT ![d] = Rounds] /\ scans' = scans + 1
    /\ UNCHANGED <<addrs, reg, peers, listed, shown, pc, dev, calls, list, answer, beacons>>

Beacon(d, e, r) == [from |-> d, to |-> e, src |-> where[d], reply |-> r]

\* A broadcast, which the sender's own receiver hears as well.
SendBeacon(d) ==
    /\ rounds[d] > 0
    /\ beacons' = beacons \cup {Beacon(d, e, FALSE) : e \in Lan}
    /\ rounds' = [rounds EXCEPT ![d] = @ - 1]
    /\ UNCHANGED <<addrs, reg, peers, listed, shown, pc, dev, calls, list, answer, scans>>

\* discovery_recv_loop: a beacon of another device puts it into the map.
ReceiveBeacon(b) ==
    /\ pc[b.to] = "idle"
    /\ beacons' = beacons \ {b}
    /\ IF b.from = b.to THEN UNCHANGED <<peers, pc, answer>>
       ELSE /\ peers' = [peers EXCEPT ![b.to][b.from] = Entry("lan", b.src)]
            /\ pc' = [pc EXCEPT ![b.to] = "snapshot"]
            /\ answer' = [answer EXCEPT ![b.to] = b]
    /\ UNCHANGED <<addrs, reg, listed, shown, dev, calls, list, rounds, scans>>

\* Mutant: replies are answered, too.
ReplyAlways(d) ==
    /\ pc[d] = "reply"
    /\ beacons' = beacons \cup {Beacon(d, answer[d].from, TRUE)}
    /\ pc' = [pc EXCEPT ![d] = "idle"]
    /\ answer' = [answer EXCEPT ![d] = None]
    /\ UNCHANGED <<addrs, reg, peers, listed, shown, dev, calls, list, rounds, scans>>

\* Mutant: announcements are not answered.
ReplyNever(d) ==
    /\ pc[d] = "reply"
    /\ pc' = [pc EXCEPT ![d] = "idle"]
    /\ answer' = [answer EXCEPT ![d] = None]
    /\ UNCHANGED <<addrs, reg, peers, listed, shown, dev, calls, list, rounds, beacons, scans>>

\* After the UI, an announcement is answered at the address it came from.
Reply(d) ==
    LET b == answer[d] IN
    /\ pc[d] = "reply"
    /\ beacons' = IF ~b.reply /\ where[b.from] = b.src
                  THEN beacons \cup {Beacon(d, b.from, TRUE)} ELSE beacons
    /\ pc' = [pc EXCEPT ![d] = "idle"]
    /\ answer' = [answer EXCEPT ![d] = None]
    /\ UNCHANGED <<addrs, reg, peers, listed, shown, dev, calls, list, rounds, scans>>

\* The device changes its network.
Move(d) ==
    /\ moves < MaxMove /\ moves' = moves + 1
    /\ where' = [where EXCEPT ![d] = @ + 1]
    /\ UNCHANGED <<ip, reg, peers, listed, shown, pc, dev, calls, list, lanVars>>

\* The network-change watcher updates the identity, and does not register it.
WatchAddress(d) ==
    /\ ip[d] # where[d]
    /\ ip' = [ip EXCEPT ![d] = where[d]]
    /\ UNCHANGED <<where, moves, reg, peers, listed, shown, pc, dev, calls, list, lanVars>>

-----------------------------------------------------------------------------
Init ==
    /\ where = [d \in Devices |-> 0] /\ ip = where /\ moves = 0
    /\ listed = [d \in Devices |-> {}]
    /\ reg \in [Devices -> {None, 0}]        \* of an earlier run
    /\ peers = [d \in Devices |-> NoPeers] /\ shown = peers
    /\ pc = [t \in Threads |-> "idle"]
    /\ dev = [t \in Threads |-> IF t \in Devices THEN t ELSE None]
    /\ copy = [c \in Calls |-> 0]
    /\ fetched = [c \in Calls |-> Nobody]
    /\ list = [t \in Threads |-> NoPeers]
    /\ answer = [d \in Devices |-> None] /\ rounds = [d \in Devices |-> 0]
    /\ beacons = {} /\ scans = 0

CallStep(c) == CopyIdentity(c) \/ Register(c) \/ Fetch(c) \/ Apply(c)

Start(c, d) ==
    \/ RefreshFromServer(c, d) \/ NetworkChanged(c, d)
    \/ \E x \in Manual : AddManualPeer(c, d, x)
    \/ \E x \in Ids \ {d} : RemovePeer(c, d, x)

Next ==
    \/ \E c \in Calls : CallStep(c) \/ \E d \in Callers : Start(c, d)
    \/ \E t \in Threads : Snapshot(t) \/ Emit(t)
    \/ \E d \in Devices : ScanLan(d) \/ SendBeacon(d) \/ Reply(d) \/ Move(d) \/ WatchAddress(d)
                          \/ RegistryForgets(d)
    \/ \E b \in beacons : ReceiveBeacon(b)

Spec == Init /\ [][Next]_vars

\* Scan and receiver threads run; a receiver goes on taking beacons off its
\* socket.  Calls of the application need not come.
Fairness ==
    \A d \in Devices :
        /\ WF_vars(SendBeacon(d))
        /\ WF_vars(\/ Snapshot(d) \/ Emit(d) \/ Reply(d)
                   \/ \E b \in beacons : b.to = d /\ ReceiveBeacon(b))

FairSpec == Spec /\ Fairness

-----------------------------------------------------------------------------
\* Properties.

Entries == [source : {"registry", "lan", "manual"}, ip : 0 .. MaxMove] \cup {Absent}
PCs == {"idle", "copy", "register", "fetch", "apply", "snapshot", "emit", "reply", "done"}

\* Types of the peer maps, the list the UI has, the calls and the beacons.
TypeOK ==
    /\ where \in [Devices -> 0 .. MaxMove] /\ ip \in [Devices -> 0 .. MaxMove]
    /\ reg \in [Devices -> 0 .. MaxMove \cup {None}]
    /\ peers \in [Devices -> [Ids -> Entries]] /\ shown \in [Devices -> [Ids -> Entries]]
    /\ pc \in [Threads -> PCs] /\ dev \in [Threads -> Devices \cup {None}]
    /\ copy \in [Calls -> 0 .. MaxMove]
    /\ fetched \in [Calls -> [Devices -> 0 .. MaxMove \cup {None}]]
    /\ list \in [Threads -> [Ids -> Entries]]
    /\ rounds \in [Devices -> 0 .. Rounds]
    /\ scans \in 0 .. MaxScan /\ moves \in 0 .. MaxMove
    /\ listed \in [Devices -> SUBSET Devices]

\* A peer leaves the map by remove_peer, or with the registry's list: the one
\* applied now lacks it and the one applied before had it.  Whoever no list
\* has named, found by a beacon or added by hand, stays, whatever refreshes,
\* overlapping or failing, and beacons have written over it.
PeersKept ==
    [][\A d \in Devices, x \in Ids :
          peers[d][x] # Absent /\ peers'[d][x] = Absent
          => x \in listed[d] \ listed'[d] \/ \E c \in Calls : RemovePeer(c, d, x)]_vars

Settled(d) == \A t \in Threads : dev[t] = d => pc[t] \in {"idle", "done"}

\* When nothing is under way, the UI has been told the list that the map holds.
UiListCurrent == \A d \in Devices : Settled(d) => shown[d] = peers[d]

\* Two threads of device d are between a change of the map and its list.
Crossing(d) ==
    \E t, u \in Threads :
        t # u /\ dev[t] = d /\ dev[u] = d /\ {pc[t], pc[u]} \subseteq {"snapshot", "emit"}

\* It has been told unless two changes were announced at once, receivers,
\* refreshes and edits otherwise in any order: then the older list may be the
\* last to come.
UiListFollows == [](\A d \in Devices : ~Crossing(d)) => []UiListCurrent

\* "Re-registers if logged in" after a network change: the registry does not
\* go back to an address that the device had before.
RegistryForward ==
    [][\A d \in Devices : reg[d] # None /\ reg'[d] # None => reg'[d] >= reg[d]]_vars

\* "reply once (unicast) so a single scan discovers both directions": after a
\* scan without losses, the scanner has been found by, and has found, everyone,
\* if nobody moves to another address meanwhile.
ScanFindsBoth ==
    [](moves = 0) => \A d, e \in Lan : d # e =>
        (rounds[d] > 0 ~> peers[d][e] # Absent) /\ (rounds[d] > 0 ~> peers[e][d] # Absent)

\* Beacons answer announcements and never each other: the traffic of a scan ends.
BeaconsDrain == <>[](beacons = {})
=============================================================================
