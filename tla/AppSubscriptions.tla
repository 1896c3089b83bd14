-------------------------- MODULE AppSubscriptions --------------------------
(***************************************************************************)
(* What rides on the send path (features/*.rs, engine.rs): chats, shared   *)
(* notifications and calls, and the app-notification pub/sub, in which a   *)
(* consumer asks a producer for its apps and sets which of them it wants   *)
(* to hear of.  Requests, subscriptions, lists and notifications are       *)
(* messages like any other and may be lost, or overtake each other when    *)
(* the transport between the two devices changes.                          *)
(***************************************************************************)
EXTENDS SendPath

CONSTANTS Packages,
          Clipboards,   \* the devices whose platform has a clipboard
          Producers,    \* bound: the devices that send, share and offer apps
          Consumers,    \* bound: the devices that ask and subscribe
          Shares        \* bound: what is broadcast

ASSUME ShareAssumption ==
    Shares \subseteq {"notification", "call_notification", "call_history", "clipboard"}

VARIABLES installed,  \* device -> the apps it offers (set_installed_apps)
          subs,       \* device -> peer -> the packages it subscribed to
          origin      \* history: device -> peer -> the frame that set `subs`

appVars == <<installed, subs, origin, used, fate>>
vars == <<sendVars, appVars>>

Text(type, body) == [type |-> type, body |-> body]

-----------------------------------------------------------------------------
\* Calls of the application: call c on device d sends text to the devices todo.
Call(c, d, todo, text) ==
    /\ c \in used.calls /\ job[c].pc = "idle"
    /\ \E j \in Jobs(c, d, todo, text) : job' = [job EXCEPT ![c] = j]
    /\ UNCHANGED <<links, air, settings, sent, got, appVars>>

send(c, d, e) == Call(c, d, {e}, Text("chat", None))
request_apps(c, d, e) == Call(c, d, {e}, Text("apps_request", None))
subscribe_apps(c, d, e, apps) == Call(c, d, {e}, Text("subscribe_apps", apps))

\* share_notification, share_call_notification, share_call_history, and the
\* clipboard watcher's push: to everyone in the peer map.
broadcast_control(c, d, type) == Call(c, d, Known[d] \cap used.devices, Text(type, None))

\* Mutant: forwarded to every peer that has a subscription.
ShareAll(c, d, pkg) ==
    Call(c, d, {e \in Devices : subs[d][e] # None}, Text("notification", pkg))

share_app_notification(c, d, pkg) ==
    Call(c, d, {e \in Devices : subs[d][e] # None /\ pkg \in subs[d][e]},
         Text("notification", pkg))

set_installed_apps(d, apps) ==
    /\ Change(d) /\ installed[d] # apps
    /\ installed' = [installed EXCEPT ![d] = apps]
    /\ UNCHANGED <<links, air, key, directed, job, sent, got, subs, origin, used, fate>>

-----------------------------------------------------------------------------
\* The kinds a device has a handler for (pings are the subject of LiveLinks,
\* clipboard requests and responses of Clipboard).
Registered(d) ==
    {"notification", "call_notification", "call_history",
     "apps_request", "subscribe_apps", "apps_list", "p2p_ping"}
    \cup (IF d \in Clipboards
          THEN {"clipboard", "clipboard_request", "clipboard_response"} ELSE {})

\* The answer of d to request n: its apps, and what the asker is subscribed to.
AppsList(d, from, n) ==
    Text("apps_list", [apps |-> installed[d], ask |-> n, origin |-> origin[d][from],
                       subscribed |-> IF subs[d][from] = None THEN {} ELSE subs[d][from]])

\* NotifAppsHandler::handle, which answers a request on the thread that read it
\* and stores a subscription; a list it shows, as the other handlers show what
\* they get.
Handle(r, n) ==
    LET d == r[1]
        from == sent[n].from
        text == sent[n].text IN
    /\ \E j \in Jobs(r, d, IF text.type = "apps_request" THEN {from} ELSE {},
                     AppsList(d, from, n)) :
          job' = [job EXCEPT ![r] = j]
    /\ IF text.type = "subscribe_apps"
       THEN /\ subs' = [subs EXCEPT ![d][from] = text.body]
            /\ origin' = [origin EXCEPT ![d][from] = n]
       ELSE UNCHANGED <<subs, origin>>

\* dispatch: a message of a registered kind goes to its handler, and is not
\* shown; a chat, or a kind without a handler, is.
Dispatch(r, n) ==
    IF sent[n].text.type \in Registered(r[1])
    THEN Done(r, n, "control") /\ Handle(r, n)
    ELSE /\ Done(r, n, "chat")
         /\ job' = [job EXCEPT ![r] = Idle] /\ UNCHANGED <<subs, origin>>

\* handle_incoming: opened with the key of the moment and dispatched, or not.
HandleIncoming(r) ==
    /\ \E n \in Frames :
          /\ Read(r, n) \/ RecvLoop(r, n)
          /\ IF key[r[1]] = sent[n].key THEN Dispatch(r, n)
             ELSE /\ job' = [job EXCEPT ![r] = [Idle EXCEPT !.pc = "garbled", !.frame = n]]
                  /\ UNCHANGED <<got, subs, origin>>
    /\ UNCHANGED <<settings, sent, installed, used>>

-----------------------------------------------------------------------------
Init ==
    /\ SendInit
    /\ installed = [d \in Devices |-> {}]
    /\ subs = [d \in Devices |-> [e \in Devices |-> None]]
    /\ origin = [d \in Devices |-> [e \in Devices |-> 0]]

Start(c, d) ==
    \/ /\ d \in Producers
       /\ \/ \E e \in used.devices \ {d} : send(c, d, e)
          \/ \E type \in Shares : broadcast_control(c, d, type)
          \/ \E pkg \in Packages : share_app_notification(c, d, pkg)
    \/ /\ d \in Consumers
       /\ \E e \in used.devices \ {d} :
             \/ request_apps(c, d, e)
             \/ \E apps \in SUBSET Packages : subscribe_apps(c, d, e, apps)

Next ==
    \/ SendNext /\ UNCHANGED appVars
    \/ \E c \in Calls, d \in Devices : Start(c, d)
    \/ \E d \in Devices, apps \in SUBSET Packages : set_installed_apps(d, apps)
    \/ \E r \in Receivers : HandleIncoming(r)

Spec == Init /\ [][Next]_vars

\* Threads go on; a frame written to a WebSocket, and a TCP stream, are read,
\* and the Hello that lets the far end register is the first of them.  Nothing
\* is assumed of datagrams, punched and WebRTC links, or the application.
Fairness ==
    /\ \A t \in Threads : WF_vars((SendPayload(t) \/ Enqueue(t)) /\ UNCHANGED appVars)
    /\ \A r \in Receivers : WF_vars(EnvelopeToMessage(r) /\ UNCHANGED appVars)
    /\ \A d \in Devices :
          /\ WF_vars(\E t \in TcpThreads : HandleIncoming(<<d, t>>))
          /\ \A l \in {x \in Links : Kind[x] = "ws" /\ d \in Pair[x]} :
                /\ WF_vars(HandleIncoming(<<d, l>>))
                /\ WF_vars((Register(d, l) \/ Flush(d, l) \/ Release(d, l) \/ DropRx(d, l)) /\ UNCHANGED appVars)

FairSpec == Spec /\ Fairness

-----------------------------------------------------------------------------
\* Properties.

Types == Shares \cup {"chat", "notification", "apps_request", "subscribe_apps", "apps_list"}

\* Types of the maps, queues and threads, and of every send and its outcome.
TypeOK ==
    /\ slot \in [Devices -> [Devices -> Links \cup {None}]]
    /\ stage \in [Devices -> [Links -> {"new", "up", "closing", "left", "gone"}]]
    /\ air \subseteq Frames /\ changes \in 0 .. used.changes
    /\ again \subseteq Frames /\ repeats \in 0 .. used.repeats
    /\ key \in [Devices -> Keys \cup {None}] /\ directed \in [Devices -> {"UDP", "TCP"}]
    /\ \A d \in Devices, l \in Links : Range(queue[d][l]) \cup Range(wire[d][l]) \subseteq Frames
    /\ \A t \in Threads :
          /\ job[t].pc \in {"idle", "send", "queue", "garbled", "done"}
          /\ job[t].dev \in Devices \cup {None} /\ job[t].todo \subseteq Devices
          /\ job[t].via \in Links \cup {"WS", "UDP", "TCP", None} /\ job[t].frame \in Frames \cup {0}
    /\ \A n \in Frames :
          /\ sent[n].via \in (IF Ok(n) THEN Links \cup {"UDP", "TCP"} ELSE {None})
          /\ sent[n].text.type \in Types /\ (Ok(n) => sent[n].key \in Keys)
    /\ \A d \in Devices : \A i \in DOMAIN got[d] : got[d][i].as \in {"chat", "control", "locked"}
    /\ installed \in [Devices -> SUBSET Packages]
    /\ subs \in [Devices -> [Devices -> {None} \cup SUBSET Packages]]

\* The slots of all devices live as LinkSlots promises, which is what the
\* drivers of LiveLinks implement: the send path needs no more of them.
Slots == INSTANCE LinkSlots WITH
    Peers <- Devices \X Devices, Links <- Ends,
    Preemptive <- {x \in Ends : Kind[x[2]] = "webrtc"},
    holder <- [x \in Devices \X Devices |->
                  IF slot[x[1]][x[2]] = None THEN None ELSE <<x[1], slot[x[1]][x[2]]>>],
    stage <- [x \in Ends |-> IF stage[x[1]][x[2]] = "left" THEN "gone" ELSE stage[x[1]][x[2]]]
SlotsKept == Slots!Spec

\* "handled in-band (never shown as chat)": a control message the device has a
\* handler for is not shown as a chat.
ControlNeverChat ==
    \A d \in Devices : \A i \in DOMAIN got[d] :
        got[d][i].as = "chat" => sent[got[d][i].frame].text.type \notin Registered(d)

\* A device hears of an app only if it has told the producer, earlier and under
\* a key the producer could open, that it wants to.
NotifiedSubscribed ==
    \A n \in Frames :
        sent[n].text.type = "notification" /\ sent[n].text.body # None =>
            \E m \in 1 .. n - 1 :
                /\ sent[m].from = sent[n].to /\ sent[m].to = sent[n].from
                /\ sent[m].text.type = "subscribe_apps"
                /\ sent[n].text.body \in sent[m].text.body
                /\ TimesHandled(m) >= 1

\* Two frames that one WebSocket carried.
SameSocket(m, n) == sent[m].via = sent[n].via /\ sent[n].via \in Links /\ Kind[sent[n].via] = "ws"

\* "set the full enabled package set on a producer": no subscription is ever
\* replaced by an older one.
LastSubscriptionWins ==
    [][\A d, e \in Devices : origin'[d][e] >= origin[d][e]]_vars

\* A consumer that subscribes and then asks is shown that subscription or a
\* later one, if the producer could open it and all the consumer's
\* subscriptions so far took the WebSocket over which it asks.
ReadsItsSubscription ==
    \A n \in Frames : sent[n].text.type = "apps_list" =>
        LET ask == sent[n].text.body.ask
            earlier == {m \in 1 .. ask - 1 :
                           /\ Ok(m) /\ sent[m].text.type = "subscribe_apps"
                           /\ sent[m].from = sent[ask].from /\ sent[m].to = sent[ask].to} IN
        (\A m \in earlier : SameSocket(m, ask)) =>
            \A m \in earlier : HandledAs(m, "control") => sent[n].text.body.origin >= m

\* Over a WebSocket or TCP, what was sent with success is handled in the end
\* unless the link ends, and every call returns: with a bounded number of
\* calls there is, again and again, nothing left to wait for.
Reliable(n) == Ok(n) /\ (sent[n].via = "TCP" \/ SameSocket(n, n))
SentIsHandled ==
    []<>(/\ \A t \in Threads : job[t].pc \in {"idle", "done"}
         /\ \A n \in Frames : Reliable(n) => TimesHandled(n) = 1 \/ LinkEnded(n))
=============================================================================
