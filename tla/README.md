# my-domain-core: TLA+ models, checks and proofs

my-domain-core is the engine behind a set of personal-device apps: devices of one
user find each other (LAN beacons, a registry server, manual entries), bring up a
direct link (plain UDP, WebSocket, hole-punched UDP, WebRTC), and share messages and
clipboards over it, encrypted. It is a threaded Rust library: about a dozen long-lived
threads plus one per link, ladder and call, which share a handful of maps behind
separate mutexes. Almost nothing in it is guarded by more than one lock at a time, and
most operations touch two or more maps; that is what these models are about.

Source paths below are relative to the crate's `src/`.

## Inventory

| Component | State | Operations | What makes it correct |
|---|---|---|---|
| live-connection registry (`transport/mod.rs`, `engine.rs`) | `ws_conns` (peer → id, sender), `p2p_conns` (peer → kind, last_seen) | `mark_live`, `touch_live`, `drop_live`, registration and cleanup in each driver | a slot belongs to a running driver, an entry to a link; cleaning up one link spares the others; UI events match the map |
| heartbeat (`engine.rs` 265-292) | – (a snapshot) | ping or evict every 5 s | stale links go, WebSockets stay |
| WebSocket transport (`transport/ws.rs`) | one thread per socket | dial, accept, Hello, flush, close | one socket per peer, the same at both ends; reconnects |
| hole punch (`nat/punch.rs`, `transport/punch.rs`) | peer address, reassembly map | probe, confirm, keepalive, chunk, reassemble | up only on a two-way path; frames intact, once, in bounded memory |
| WebRTC (`transport/rtc.rs`) | driver around `str0m` | offer, answer, drive, cleanup | as for the registry |
| ladder and signalling (`engine.rs` 826-1095, `signal.rs`) | `punch_waiters`, `rtc_waiters` | five rungs, `on_signal` | waiters do not leak, answers reach their own offer, every ladder ends |
| clipboard (`features/clipboard.rs`, `engine.rs`) | `clip_last`, `clip_active`, `clip_pending` | watch, push, pull, answer | copies spread, pulls return what the peer had |
| peer directory (`discovery.rs`, `engine.rs`) | `peers`, `identity` | scan, beacon, refresh, manual add/remove, address watcher | whoever no registry list named stays, a scan finds both ways, the UI list is current |
| session (`engine.rs` 421-489, `crypto.rs`) | `server_url`, `token`, `username`, `key` | login, dev login, key commands, logout, requests | the key belongs to the user, a token goes only to its issuer |
| firewall and state reports (`engine.rs` 746-822) | – (a background thread) | check, report, state updates, signals | the token goes to its issuer |
| send path (`transport/mod.rs`, `engine.rs`) | a channel per driver, `directed_transport`, `key` | choose a transport, seal, queue or send, flush, receive, open | what was sent is handled, again only if the network repeated it, or its link has ended; order over a WebSocket; fall-back |
| control dispatch and relays (`features/mod.rs` and the handlers) | the registry of kinds | dispatch, handle | control messages are never shown as chat |
| notification pub/sub (`features/notif_apps.rs`, `engine.rs` 698-742) | `installed_apps`, `subs` | ask, list, subscribe, share | only subscribers hear of an app; the last subscription counts |
| STUN client (`nat/stun.rs`, `transport/punch.rs` 117-142) | – | gather candidates, parse an answer | no datagram makes it panic or loop; the first mapping is found |
| frames (`wire/frame.rs`) | – | encode, decode | inverse of each other |
| registry client (`registry.rs`) | – | HTTP calls | by effect only |

Components meet in three ways: shared maps (every driver writes `ws_conns` and
`p2p_conns`; ladder, heartbeat and UI read them), messages (beacons, signals through
the server's relay, encrypted control messages over any link) and events to the UI,
which are always emitted after the lock that protects the state has been released.

The hard behaviours: steps of two drivers between the unlock of one map and the lock of
the next; signals that come late, twice or never while a waiter times out; datagrams
lost, repeated and reordered; devices that vanish; slow work (HTTP, key derivation, a
clipboard read) between reading shared state and writing it. `PROJECT.json` lists them
as hazards, each with its line and the properties that would notice.

## Modules

| Module | Models | Composition |
|---|---|---|
| `LiveLinks` | both connection maps, the three kinds of drivers, pings, heartbeat, Bye, UI events, within one device | shown to implement `LinkSlots` |
| `LinkSlots` | abstract: what `ws_conns` promises | |
| `MCLiveLinks` | `LiveLinks` with the symmetry of its WebSocket threads | extends `LiveLinks` |
| `WsSockets` | two devices dialling each other | |
| `PunchHandshake` | `hole_punch`, `confirm_round_trip` and the driver's probes between two devices | |
| `PunchChunks` | `send_chunked` and `reasm_feed` over a datagram network | |
| `ConnectLadder` | `run_connect_ladder` and `on_signal` on two devices | abstracts a link to "begun at both ends" |
| `Clipboard` | watcher, push and pull among devices | |
| `PeerDirectory` | peer map, registry refresh, LAN discovery among devices | |
| `Session` | login state of one device, and the requests and reports that use it | |
| `SendPath` | how a message gets from device to device: links that come and go, queues, TCP and UDP, keys | its slots are shown to follow `LinkSlots`, as those of `LiveLinks` do |
| `AppSubscriptions` | the calls that send, dispatch, the pub/sub | extends `SendPath` |
| `MCAppSubscriptions` | the scenarios of the run `messages` | extends `AppSubscriptions` |
| `StunClient` | `gather_candidates`, `stun_binding`, `parse_mapped`, on bytes | |
| `FrameCodec` | the frame header as operators | |
| `MCWire` | answers, stray datagrams and frames for the run `wire` | extends `StunClient`, `FrameCodec` |
| `Wire_proofs` | theorems about both | extends both |
| `Registry_proofs` | theorems about `PeerDirectory` and `Session` | extends both, whose names are kept apart |
| `Connect_proofs` | theorems about `PunchHandshake` and `ConnectLadder` | extends both, whose names are kept apart |
| `LiveLinks_proofs`, `WsSockets_proofs`, `PunchChunks_proofs`, `Clipboard_proofs`, `AppSubscriptions_proofs` | theorems about the module of that name | extend it |

### How state and actions correspond

*LiveLinks.* One thread is one driver and its program counter says what lock comes
next: `open` (id drawn), `mark` (slot taken, live entry not yet), `loop`, `msg` (a
punched link handles a ping), `slot` and `live` (the two end-of-round tests, under two
locks), `exit`, `drop` (slot removed, live entry not yet), `done`. An update of
`p2p_conns` and the event it leads to are two steps (`pending` holds the event), as in
`mark_live` and `drop_live`. `last_seen` is an age that ticks up, capped at
`TIMEOUT + 1`. Connection ids start at 1, 1000000 and 2000000 as in the code;
`MaxConns` bounds how many are drawn and is assumed to be less than 1000000, which is
the assumption the code's comment makes. The legacy events WsConnected and
WsDisconnected say nothing the others do not and are left out. The heartbeat's pings
show up where they arrive: `ReceivePing` (UDP/TCP) or `HandlePing` (over the link).

*WsSockets.* A socket is a pair of ends, a Hello in flight each way and a "closed" mark
each way. `ReadHello` holds one lock, so test and registration are one step. `Vanish`
is a device that loses power: its ends and slot go, the other end hears nothing.

*PunchHandshake.* A path is a pair of addresses; `open[x]` says on which paths x's
packets get through. Packets are a set: a repeated probe changes nothing, and one that
was read may be sent again. `OneWay` names paths that never carry the second device's
packets; with the other directions open or not, every combination is an initial state.

*PunchChunks.* A chunk's body is ⟨frame, position⟩, so mixing and truncation are
visible. Id and total are taken modulo `IdMod` and `LenMod`, the code's 2^32 and 2^16.
`dead` is a send that fails after some of the chunks. In the run `chunks` neither field
wraps (`IdMod` = `MaxFrames`, `MaxLen` < `LenMod`); `chunks_long` is the case where the
count does.

*ConnectLadder.* A negotiation id is its ladder and rung (uuids are unique). The
network is a growing set: what was sent may be delivered at any time, again, or
never. A timeout is the freedom to stop waiting; a rung may fail for any of the
reasons the code has. Two threads' hand-over of an answer is two steps
(`OnAnswer` removes the waiter, `HandOver` sends on the channel). `Usable` limits the
rungs tried. The success path of rung 1 reports
connected and the others return silently; both are `connected` here.

*Clipboard.* `Watch` reads the clipboard, `Compare` takes the lock and pushes; `OnPush` sets
`clip_last`, `Apply` the clipboard; `get_clipboard` is one action per lock.
`enable_clipboard_sync` is three steps (read the clipboard, store it in `clip_last`, set
`clip_active`) and may be called while sync is on, as the library allows; one such call per
device is under way at a time, and `MaxEnable` bounds how many are made. A lost message, or
one under another key, is one that stays in `net` and is never delivered. `Pullers` bounds
who pulls.

*PeerDirectory.* An entry is its source and address. `refresh_from_server` is copy,
register, fetch and apply, `emit_peers` a copy and an emission. Who is logged in is the
constant `Members`; the registry may know the devices from an earlier run. Addresses
count moves, so that older and newer can be told apart. A lost beacon is one that is
never received. `Callers` bounds on which devices the application makes its calls. The registry
may forget the devices of `Leaving` at any time, and the history variable `listed` holds who
was in the list a device applied last. That a device is not in the list it fetches is what
the `exclude` parameter asks of the server (`registry.rs:194`); `apply_registry_peers`
does not filter, so the model assumes it of the server and claims nothing about it. Nor does
it say anything of an entry made by hand with the device's own address: its id carries the
prefix `manual:`, and the code does not compare it with the device.

*Session.* Each assignment is one step, as each has its own lock, and any number of calls
are under way at once. A call is one of the application or of a thread the library starts:
a `Request` is whoever reads URL and then token and sends the one to the other, which
`send_signal_via` does on the threads of `connect`, the ladder and `on_signal` after their
call has returned, and `report_firewall` on its own. `FirewallCheck` asks for the server's health
between the two reads, `ReportFirewall` after them. Three history variables say what the
application did: `orderly` (it logged in only when logged out and set keys only when
logged in), `inturn` (it waited with a login, key command or logout until the one before
had returned) and `crossed` (the requests that read URL and token while a login was
between setting them, and the logins that overlapped so). The library checks none of them.

*SendPath.* `sent` is the sequence of all `send_payload` calls with their outcome; a frame
is its place in it. A thread (a call of the application, a driver, the UDP receiver, a TCP
stream's thread) that sends chooses the transport (`Jobs`), looks up the key and the slot
(`SendPayload`) and queues on the driver's channel (`Enqueue`) in separate steps. Reading
`directed_transport` and the slot is one step: only the slot decides. A driver takes a frame
off its channel and writes it in one step; the one a failed write loses is lost with the
rest of the queue (`Close`), except on a data channel, where the code ignores the result. A
driver that ends removes its slot (`Release`) and then drops its channel (`DropRx`): whoever
has looked the slot up before can queue between the two, is told that it worked, and the
frame is lost. Frames over a punched link and by UDP overtake each other, a lost one stays
in `air` or `wire`, and one that was read may come again (`Repeat`: `again` records which,
`repeats` how often, and each scenario bounds it), since neither `udp_recv_loop` nor the
punched driver recognises a repeated datagram. A WebSocket and a TCP stream repeat nothing;
a data channel is reliable by default. What comes again is a whole frame: how the chunks of
a frame repeat is `PunchChunks`. A sealed message is its key; opening it is equality of
keys, tried once by `HandleIncoming` and, if that fails, again by `EnvelopeToMessage` under
a second lock, as in the code. When a link comes up or goes is left open (`Register`,
`Close`) within what `LinkSlots` allows, which `SlotsKept` checks and `LiveLinks`
implements. `used` is the scenario: which devices, links and calls take part.

*AppSubscriptions.* `origin` records the frame that set an entry of `subs`; no
action reads it. A reply is sent by the thread that read the request. Packages are model
values, and an app list is the set of them. `ReadsItsSubscription` is about a consumer
all of whose earlier subscriptions took the WebSocket it asks over: one that went by UDP
while there was no link may arrive after a later one and overwrite it, and the list then
says so (with three calls; with two it cannot happen, and `messages_subs` shows the
overwriting itself).

*StunClient.* Bytes are kept since the walk is arithmetic on lengths in the datagram.
The server's answer is built from attributes (`Answer`), so that the address it is meant
to carry is known (`Carries` says how an attribute encodes it, and the assumption on the
answers that each does); strays are arbitrary byte strings. An index out of range would be
`pc = "panic"`. The transaction id and the sender's address are not looked at by the
code and are left out.

## Runs

Passing runs (all but `links_minimal`, `chunks` and `session` under `FairSpec` or `FairLadder`,
since they check liveness too):

| Run | Shows | Bounds |
|---|---|---|
| `links` | `LiveLinks` implements `LinkSlots`; evicted and replaced drivers stop; stale entries go; the UI follows when events do not cross | 1 peer, one driver of each kind, a UDP receiver, timeout 0 (one tick makes an entry stale: ages below the limit are treated alike) |
| `links_minimal` | without WebRTC: no ghost entry, one driver per peer | 2 peers, 2 WS + 1 punch |
| `sockets` | no half-open sockets; the devices come back to a common socket | 3 sockets, both dial at any time, 2 failures, 1 vanished device |
| `punch` | links are up only on two-way paths; half-open links die; both come up when nobody gives up | 2 paths, one of them at most one way, timeout 1 |
| `chunks` | frames intact, once, not forgotten | 3 frames of 2 chunks, map of 2, 2 repetitions |
| `ladder` | waiters are owned; a link is started only for an answered offer; every ladder ends | 1 ladder, all rungs |
| `clip` | pulls are owned, authentic and end; copies spread | 2 devices, 1 copy, 2 pulls from the same peer, sync switched on twice in all (once on each device, or twice on one) and off once |
| `directory` | whoever no registry list has named stays; scans find both ways; beacons die down; the UI list follows when lists do not cross | 2 devices, one of which the registry may forget, 2 overlapping calls, 1 scan, 1 move |
| `session` | a token goes only to its issuer, on whatever thread and however late, but for requests that a login crosses as they read; the key is the user's when the application keeps an order; types | 2 servers, 2 users, 3 calls that overlap |
| `messages` | every send accounted for, repeated datagrams included; order; a send is refused only when a link has ended; slots as in `LinkSlots`; only subscribers are notified; a consumer that asks after subscribing sees that subscription or a later one; types | 3 devices, eight scenarios of up to 2 links, 2 calls, 1 changed setting and 2 repeated datagrams |
| `wire` | no panic; the first mapping is found; gathering ends; frames at field edges | answers of up to 3 of 8 attributes, a buffer of 50 bytes so that some are cut, strays with wrong lengths |

Types (the runs `session` and `messages` check theirs all the same), `SlotHasDriver`,
`OneRegistered`, `BoundedMemory`, `NoOneWayLink` and `Advances` are proved for every value
of the constants and are not repeated in a run.

The bounds let every pair of actors that share state meet: two drivers of the same and of
each other kind on one peer, two pulls with the same key, a reassembly map that overflows,
an answer to one rung's offer while the next rung waits, a send between two looks at a slot
that goes, a message to a peer while WebRTC takes over its WebSocket's slot, a refresh that
overlaps another, a request that reads its token while two logins come and go. `messages`
runs over scenarios rather than one large instance because links, calls and settings
multiply; what a scenario names meets there; a broadcast meets the WebSocket only, and
repeated datagrams meet two messages but no changed setting. Where a theorem exists the
bound matters only for finding errors early. `CHECK_DEADLOCK FALSE` stands where the bounded
supply (ladders, frames, calls, sockets) runs out and the system has nothing left to do.

A violation run states what a comment of the code says and shows a behaviour of the
code that does not have it; the finding in `PROJECT.json` quotes the line:

| Run | The behaviour |
|---|---|
| `cleanup_rtc` | a punched driver that leaves drops the live entry of the link that replaced it (`transport/punch.rs:284`) |

### Further disagreements

The configurations below are kept for reproduction (`tlc -config <name>.cfg <module>`);
TLC finds the named property violated in each.

| Config, module | Property | The line and the behaviour |
|---|---|---|
| `cleanup_ws`, MCLiveLinks | `CleanupSparesOthers` | `ws.rs:90` "Only remove our own entry": the slot is released before `drop_live`, which then drops the entry of the link that registered in between |
| `ghost_ws`, MCLiveLinks | `NoGhostLink` | `mod.rs:51` "WS is event-driven": a WebSocket whose slot WebRTC took leaves without `drop_live`; the heartbeat skips its entry |
| `two_sockets`, MCLiveLinks | `OneSocketPerPeer` | `ws.rs:54` "One socket per peer": after WebRTC took and freed the slot a second socket registers |
| `ui_dot`, MCLiveLinks | `UiShowsRegistry` | `mod.rs:37` "single source of truth": events of two threads swap between unlock and emission |
| `heartbeat_ws`, MCLiveLinks | `HeartbeatSkipsWs` | `engine.rs:266` "WS ... it's skipped": the heartbeat evicts by an older snapshot |
| `chunks_long`, PunchChunks | `Integrity` | `punch.rs:226` "so large payloads (e.g. clipboard) survive": the 16-bit chunk count wraps |
| `chunks_shed`, PunchChunks | `OnlyStalledShed` | `punch.rs:88` "shed stalled partials": healthy partials are shed as well |
| `punch_lockon`, PunchHandshake | `NeverBothMislocked` | `punch.rs:171` "(asymmetric NAT)": both devices lock onto one-way paths although a two-way path exists |
| `ladder_failed`, ConnectLadder | `FailedMeansDown` | `engine.rs:901` "success lands as a `PeerConnected` event": failed is reported while the peer is live |
| `sockets_cross`, WsSockets | `OneSurvives` | `ws.rs:3` "One connection per peer (duplicates are dropped)": each of two devices that dial at once drops the socket the other keeps, and none is left |
| `sockets_vanish`, WsSockets | `ReconnectsAfterLoss` | `ws.rs:90` "a newer connection may have replaced it": the slot of a vanished device refuses its new connections |
| `clip_revert`, Clipboard | `CopyReplaces` | `events.rs:29` "A clipboard value was synced from a peer": the watcher, having read the old content (`engine.rs:236`), pushes it back over a copy just received |
| `clip_two_pulls`, Clipboard | `NoAnswerDiscarded` | `engine.rs:660` "no clipboard response from peer": one pull removes the other's entry and the answer is discarded |
| `clip_enable`, Clipboard | `CopySpreadsAlways` | `clipboard.rs:1` "active push (`clipboard`)": switching sync on again marks what was just copied as known (`engine.rs:627`) before the watcher has looked, and it is never pushed |
| `directory_ui`, PeerDirectory | `UiListCurrent` | `events.rs:14` "The peer list changed": the older of two lists can be emitted last |
| `directory_ip`, PeerDirectory | `RegistryForward` | `engine.rs:549` "Re-registers if logged in": of two overlapping refreshes the older identity can be registered last |
| `session_signal`, Session | `TokenToIssuerAlways` | a request that reads the URL before and the token after a login at another server takes effect hands the new token to the old server (`engine.rs:979-991`; no comment speaks of it) |
| `session_relogin`, Session | `KeyOfUserRelogin` | `crypto.rs:14` "(and differs between users)": a login without a logout keeps the earlier user's key |
| `session_race`, Session | `KeyOfUserRaced` | the same line: a key command that overlaps logout and login stores a key of the earlier user |
| `messages_key`, MCAppSubscriptions | `ControlNeverChat` | `mod.rs:192` "handled in-band (never shown as chat)": a key set between the two attempts to open a control message makes it a chat |
| `messages_subs`, MCAppSubscriptions | `LastSubscriptionWins` | `engine.rs:714` "set the full enabled package set": by UDP the older of two subscriptions can be stored last |

## Fairness

Loops with a read timeout or a sleep go on (weak fairness of drivers, watcher,
heartbeat, ladder, probes). A WebRTC driver drains finitely many events before its
checks, hence strong fairness of its quiet round in `LiveLinks`. In `PunchHandshake` a
probe that is sent again and again on an open path is received at last (strong
fairness), as the retransmission in the code presumes. In `PeerDirectory` and
`Clipboard` beacons and pushes are received in the end (the liveness properties are
about exchanges without loss), while requests and answers of pulls need not be. In
`ConnectLadder` nothing is assumed of the network, the peer or links: the ladder's own
timeouts suffice. In `WsSockets` a device without any socket is assumed to dial again,
which is the application's Connect button; failures are not fair. In
`AppSubscriptions` threads that send or handle go on, and what was written to a
WebSocket or a TCP stream is read, the Hello that lets the other end register included;
nothing is assumed of datagrams, of punched and WebRTC links, of links ending, or of the
application. In `StunClient` the thread goes on, since `recv_from` has a timeout. What a
liveness property needs beyond that is its premise: `BothComeUp` that nobody gave up and no path
is one way, `UiFollows` and `UiListFollows` that no two events or lists are held
back at once, `Reconnects` that one device is on one socket at a time and nobody vanished,
`CopySpreads` that the clipboards began empty and that neither a pull, a disable nor, from
the copy on, a call that switches sync on interferes, `ScanFindsBoth` that nobody moves.

## Proofs

All theorems hold for every value of the constants that satisfies the named
assumptions next to their declaration.

* **LiveLinks.** `SlotHasDriver` is not inductive alone: a driver removes the slot that
  carries its id, so ids must be unique. `SlotInv` adds that ids lie in their kind's
  range below its counter (`IdsInv`) and that running threads have a peer; the ranges
  do not meet because `MaxConns` < 1000000. With it, owning the id means holding the
  slot, and every step is a step of `LinkSlots` or a stutter (`SlotsRefined`). Without
  WebRTC threads `HoldsSlot` (a registered driver holds its slot) is inductive and
  gives `MinimalNoGhost` and `MinimalOneLink`; with them both are false (`ghost_ws`).
* **PunchChunks.** `ChunkInv` says of each chunk in flight and each part in the map which
  frame and position it is; it needs that no header field wraps (`NoWrap`), without
  which `chunks_long` shows `Integrity` false. `MemoryBounded` needs no such assumption.
  `FramesNotForgotten` adds an account of where each chunk of a frame is.
  `FramesNotRepeated` counts instead: per frame, the chunks of the copies that came out,
  the ones held in the map and the ones in flight are together no more than were sent or
  repeated (`CountInv`). Delivering a copy turns held chunks into delivered ones, so
  the count is kept by each step though `NoRedelivery` itself, which does not mention
  the map, is not.
* **PunchHandshake.** `NetInv`: a packet's path is open for its sender, and a pong's path
  for both, since a pong answers a ping on the same path.
* **ConnectLadder.** `NoStrayWaiter` is inductive with `StepOK` (a rung only has the steps
  it has). `AnsweredOffer` follows from `AnswerInv`, which says what each message and
  responder thread vouches for.
* **WsSockets.** `OneRegistered` and `NeverHalfOpen` are inductive together.
* **Clipboard.** The invariant says whose pull an entry, a request and a response belong
  to, and that a response carries what the peer's clipboard has held.
* **PeerDirectory.** `PeersKept` follows step by step from the types and needs nothing of how
  calls overlap or of what the registry forgets. What it allows, a peer found by a beacon,
  overwritten by a list that names it and removed by the next that does not, is what
  `apply_registry_peers` does.
* **Session.** `TokenStaysHome` assumes nothing of the calls: any number of them overlap in
  any way. `IssuerInv` relates URL and token: unless two logins crossed, they belong
  together except while the one login that sets both is between its assignments, so a
  thread that is not in `crossed` and has read the URL reads the token of that URL.
* **SendPath and AppSubscriptions** (`AppSubscriptions_proofs`), for any devices, links,
  calls and scenarios. The proof first sorts the steps by what they do to messages
  (`StepKinds`), then to the places a frame can be in (`PlaceStep`). The inductive invariant
  `Inv` says where frames are: only where they were sent to (`AddressInv`), not twice in one
  place (`TwiceInv`), in one place unless the network repeated it (`OnceInv`) and, unless
  lost, in some place (`PresentInv`), which gives `EveryMessageAccounted`.
  `SocketsKeepOrder` needs more than the order of what was handled: `OrderInv` cuts the
  frames of a WebSocket into a chain (handled, being opened, written, queued), each link of
  which is before the next, with nothing missing before the last that was written.
  `RefusalsExplained` rests on `SlotInv` (a slot holds a link of that peer which has not
  gone) and `ChoiceInv` (a slot that was chosen is taken unless a link ended since).
  `SubInv` traces each stored subscription, and each notification on its way, to a frame
  that was handled (`OnlySubscribersHear`); `OriginInv` and `ListInv` say that a stored
  subscription, and a list that was made from it, is no older than what came over the same
  WebSocket (`SubscribersReadBack`), which is where the order is used again.
  `SlotsLiveAsPromised` is the refinement: with `SlotInv`, every step of a link's end is a
  step of `LinkSlots` or leaves its variables alone. `SendAssumption` says that a link joins
  two different devices and that names of calls, listeners and links do not clash;
  `ShareAssumption` names the kinds of shares.
* **StunClient and FrameCodec** (`Wire_proofs`). `Walkable` (a byte string, a whole header
  when the walk begins) is inductive; the end of the walk is within the datagram because
  of the `min`, so reading an attribute's header never leaves it, which gives
  `StunNeverPanics` for every datagram and buffer size. `WalkAdvances` is the variant that
  makes the walk finite. `FirstMappingFound` needs to know where the attributes of an
  answer are: `Position(a, k)` is the length of the header and of the attributes before
  the k-th, `AnswerBytes` shows by induction that the k-th is there, `HoldsCut` that it
  still is in what the buffer leaves. The invariant `AtAttribute` is then that the walk
  stands at the position of some attribute with no mapping before it. `XorTwice` undoes
  the cookie. `FrameRoundTrip` rests on the arithmetic of big-endian bytes and on what
  concatenation and `SubSeq` return.
* **Types.** Each module's `TypeOK` is a theorem.

Induction over data: the library's induction rules take an operator as a parameter and
cannot be applied here. `Least` and `Induct` in `Wire_proofs` are the same rules for a
set of numbers, derived from the well-foundedness of finite sets under inclusion; the
induction hypothesis is then membership in a set. `UptoDef` uses them to show that the
recursive function `Upto` exists and satisfies its equation.

Every safety property the passing runs check is proved but for `KeyOfUser`, which holds
only of an application that keeps an order the library does not ask for (`session_race` and
`session_relogin` show what happens otherwise) and is left to the run. Only model-checked as
well: the liveness properties (`LostLinkStops`, `StaleLinkEvicted`, `HalfOpenDies`, `BothComeUp`,
`LadderEnds`, `Reconnects`, `PullEnds`, `CopySpreads`, `ScanFindsBoth`, `BeaconsDrain`,
`SentIsHandled`, `GatherEnds`), since the prover has no rules for fairness and `ENABLED`,
and `UiFollows` and `UiListFollows`, whose premise is temporal.

## Not modelled

* The channel allocator (`wire/mux.rs`) and the services (`service.rs`, `services/`):
  one `fetch_add` that nothing calls, and declarations.
* The reachability flags of a peer (`ws_open`, `inbound_blocked`, reflexive address): the
  ladder uses the first two to skip a dial (`engine.rs` 1026), which `ConnectLadder` allows
  at any time, and the address is only handed to the UI.
* The transport label `send` reports (`display_transport`).
* Encryption itself and `str0m` (ICE, DTLS, SCTP): libraries.
* Wall-clock jumps: ages only grow. Text, formatting and event payloads.
* Platform traits, capabilities, error types: declarations.

## Plan

Done, in this order: LiveLinks with LinkSlots (the core: every feature rides on these
two maps), PunchChunks, PunchHandshake, ConnectLadder, WsSockets, Clipboard,
PeerDirectory, Session, SendPath with AppSubscriptions, StunClient and FrameCodec.

Theorems followed in the same order; the last were those about Session, the send path,
the subscriptions and the STUN walk.

Left:

1. The lists of `UiFollows` and `UiListFollows` as invariants relative to a history
   variable for "no two events crossed so far", which would bring both within reach of a
   proof.
2. `ladder` with two ladders at once in a run of its own (the theorems cover any number).
