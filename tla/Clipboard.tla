----------------------------- MODULE Clipboard -----------------------------
(***************************************************************************)
(* Clipboard sharing between devices (engine.rs, features/clipboard.rs):   *)
(* with auto-sync on, a watcher thread polls the OS clipboard and pushes   *)
(* what changed to every peer, whose receiver applies it; get_clipboard    *)
(* pulls one peer's clipboard, with a waiter in clip_pending.  `clip_last` *)
(* is what keeps a device from pushing back what it has just received.     *)
(***************************************************************************)
EXTENDS Integers

CONSTANTS Devices, Contents,
          Empty,        \* the empty clipboard
          None,
          Initial,      \* what the clipboards may hold at the start
          Syncing,      \* bound: the devices whose user switches sync on
          Pulls,        \* bound: the get_clipboard calls
          Pullers,      \* bound: the devices whose user makes them
          MaxCopies,    \* bound: how often the user copies something
          MaxEnable,    \* bound: how often sync is switched on, again or not
          MaxDisable    \* bound: how often sync is switched off

ASSUME ClipAssumption ==
    /\ Empty \notin Contents /\ None \notin Devices \cup Contents \cup Pulls \cup {Empty}
    /\ Initial \subseteq Contents \cup {Empty} /\ Syncing \subseteq Devices
    /\ Pullers \subseteq Devices
    /\ MaxCopies \in Nat /\ MaxEnable \in Nat /\ MaxDisable \in Nat

Values == Contents \cup {Empty}

VARIABLES os,        \* device -> the OS clipboard
          last,      \* device -> clip_last
          active,    \* device -> clip_active
          on,        \* device -> where its enable_clipboard_sync call is
          cur,       \* device -> what that call has just read, or None
          seen,      \* device -> what its watcher has just read, or None
          applying,  \* device -> pushed contents whose clip.set is to come
          pending,   \* device -> peer -> the pull its clip_pending entry is for
          pull,      \* pull -> where the call is
          by, of,    \* pull -> the device that pulls, the device it asks
          inbox,     \* pull -> what its channel holds, or None
          net,       \* control messages in flight; a lost one stays there
          copies, enables, disables,
          copied,    \* what the user copied last, everybody having sync on
          held       \* history: device -> all that its clipboard ever held

sync == <<last, active, on, cur, seen, applying, copies, enables, disables, copied>>
vars == <<os, held, sync, pending, pull, by, of, inbox, net>>
pulling == <<pending, pull, by, of, inbox>>

\* clip.set
SetClip(d, c) ==
    /\ os' = [os EXCEPT ![d] = c]
    /\ held' = [held EXCEPT ![d] = @ \cup {c}]

Push(to, c) == [kind |-> "clipboard", to |-> to, from |-> None, body |-> c]
Request(d, e) == [kind |-> "request", to |-> e, from |-> d, body |-> None]
Response(e, d, c) == [kind |-> "response", to |-> d, from |-> e, body |-> c]

-----------------------------------------------------------------------------
\* The user copies something.
Copy(d, c) ==
    /\ copies < MaxCopies /\ copies' = copies + 1
    /\ SetClip(d, c)
    /\ copied' = IF \A e \in Devices : active[e] THEN c ELSE None
    /\ UNCHANGED <<last, active, on, cur, seen, applying, enables, disables, pulling, net>>

\* enable_clipboard_sync, whether sync is on or off: read the clipboard ...
EnableRead(d) ==
    /\ on[d] = "no" /\ d \in Syncing
    /\ enables < MaxEnable /\ enables' = enables + 1
    /\ \/ on' = [on EXCEPT ![d] = "read"] /\ cur' = [cur EXCEPT ![d] = os[d]]
       \/ /\ os[d] = Empty                    \* get() of an empty clipboard may be None
          /\ on' = [on EXCEPT ![d] = "store"] /\ UNCHANGED cur
    /\ UNCHANGED <<os, held, last, active, seen, applying, copies, disables, copied,
                   pulling, net>>

\* ... what is there now is not news ...
EnableLast(d) ==
    /\ on[d] = "read"
    /\ last' = [last EXCEPT ![d] = cur[d]]
    /\ on' = [on EXCEPT ![d] = "store"] /\ cur' = [cur EXCEPT ![d] = None]
    /\ UNCHANGED <<os, held, active, seen, applying, copies, enables, disables, copied,
                   pulling, net>>

\* ... and from now on the watcher looks.
EnableStore(d) ==
    /\ on[d] = "store"
    /\ active' = [active EXCEPT ![d] = TRUE]
    /\ on' = [on EXCEPT ![d] = "no"]
    /\ UNCHANGED <<os, held, last, cur, seen, applying, copies, enables, disables, copied,
                   pulling, net>>

EnableStep(d) == EnableRead(d) \/ EnableLast(d) \/ EnableStore(d)

Disable(d) ==
    /\ active[d] /\ disables < MaxDisable /\ disables' = disables + 1
    /\ active' = [active EXCEPT ![d] = FALSE]
    /\ UNCHANGED <<os, held, last, on, cur, seen, applying, copies, enables, copied,
                   pulling, net>>

\* The watcher reads the clipboard ...
Watch(d) ==
    /\ active[d] /\ seen[d] = None /\ os[d] # Empty
    /\ seen' = [seen EXCEPT ![d] = os[d]]
    /\ UNCHANGED <<os, held, last, active, on, cur, applying, copies, enables, disables,
                   copied, pulling, net>>

\* Mutant: clip_last is updated but the change is not broadcast.
CompareMute(d) ==
    /\ seen[d] # None
    /\ last' = [last EXCEPT ![d] = seen[d]]
    /\ seen' = [seen EXCEPT ![d] = None]
    /\ UNCHANGED <<os, held, active, on, cur, applying, copies, enables, disables,
                   copied, pulling, net>>

\* ... and then compares it with clip_last, and pushes it if it is new.
Compare(d) ==
    /\ seen[d] # None
    /\ last' = [last EXCEPT ![d] = seen[d]]
    /\ net' = IF last[d] = seen[d] THEN net
              ELSE net \cup {Push(e, seen[d]) : e \in Devices \ {d}}
    /\ seen' = [seen EXCEPT ![d] = None]
    /\ UNCHANGED <<os, held, active, on, cur, applying, copies, enables, disables,
                   copied, pulling>>

\* A push arrives: ignored when sync is off, else clip_last first ...
OnPush(m) ==
    /\ m.kind = "clipboard"
    /\ net' = net \ {m}
    /\ IF active[m.to]
       THEN /\ last' = [last EXCEPT ![m.to] = m.body]
            /\ applying' = [applying EXCEPT ![m.to] = @ \cup {m.body}]
       ELSE UNCHANGED <<last, applying>>
    /\ UNCHANGED <<os, held, active, on, cur, seen, copies, enables, disables,
                   copied, pulling>>

\* ... and then the clipboard.
Apply(d, c) ==
    /\ c \in applying[d]
    /\ SetClip(d, c)
    /\ applying' = [applying EXCEPT ![d] = @ \ {c}]
    /\ UNCHANGED <<last, active, on, cur, seen, copies, enables, disables,
                   copied, pulling, net>>

-----------------------------------------------------------------------------
\* get_clipboard: leave a waiter under the peer's id ...
PullStart(q, d, e) ==
    /\ pull[q] = "idle" /\ d # e
    /\ by' = [by EXCEPT ![q] = d] /\ of' = [of EXCEPT ![q] = e]
    /\ pending' = [pending EXCEPT ![d][e] = q]
    /\ pull' = [pull EXCEPT ![q] = "send"]
    /\ UNCHANGED <<os, held, sync, inbox, net>>

\* ... send the request, or fail to ...
PullSend(q) ==
    /\ pull[q] = "send"
    /\ \/ net' = net \cup {Request(by[q], of[q])} /\ pull' = [pull EXCEPT ![q] = "recv"]
       \/ pull' = [pull EXCEPT ![q] = "lost"] /\ UNCHANGED net
    /\ UNCHANGED <<os, held, sync, pending, by, of, inbox>>

\* Mutant: the pull waits for its answer without a timeout.
PullRecvForever(q) ==
    /\ pull[q] = "recv" /\ inbox[q] # None
    /\ pull' = [pull EXCEPT ![q] = "got"]
    /\ UNCHANGED <<os, held, sync, pending, by, of, inbox, net>>

\* ... wait for the answer, a timeout, or the loss of its sender ...
PullRecv(q) ==
    /\ pull[q] = "recv"
    /\ pull' = [pull EXCEPT ![q] = IF inbox[q] # None THEN "got" ELSE "lost"]
    /\ UNCHANGED <<os, held, sync, pending, by, of, inbox, net>>

\* Mutant: a pull that got no answer leaves its entry.
PullRemoveGot(q) ==
    /\ pull[q] \in {"got", "lost"}
    /\ pending' = IF pull[q] = "got" THEN [pending EXCEPT ![by[q]][of[q]] = None] ELSE pending
    /\ pull' = [pull EXCEPT ![q] = IF pull[q] = "got" THEN "set" ELSE "done"]
    /\ UNCHANGED <<os, held, sync, by, of, inbox, net>>

\* ... remove the entry of that peer, whosever it is by now ...
PullRemove(q) ==
    /\ pull[q] \in {"got", "lost"}
    /\ pending' = [pending EXCEPT ![by[q]][of[q]] = None]
    /\ pull' = [pull EXCEPT ![q] = IF pull[q] = "got" THEN "set" ELSE "done"]
    /\ UNCHANGED <<os, held, sync, by, of, inbox, net>>

\* ... write the content, the clipboard first and clip_last second.
PullSet(q) ==
    /\ pull[q] = "set"
    /\ SetClip(by[q], inbox[q])
    /\ pull' = [pull EXCEPT ![q] = "note"]
    /\ UNCHANGED <<sync, pending, by, of, inbox, net>>

PullNote(q) ==
    /\ pull[q] = "note"
    /\ last' = [last EXCEPT ![by[q]] = inbox[q]]
    /\ pull' = [pull EXCEPT ![q] = "done"]
    /\ UNCHANGED <<os, held, active, on, cur, seen, applying, copies, enables, disables, copied,
                   pending, by, of, inbox, net>>

\* Mutant: the answer is what was last synced.
OnRequestLast(m) ==
    /\ m.kind = "request"
    /\ net' = (net \ {m}) \cup {Response(m.to, m.from, last[m.to])}
    /\ UNCHANGED <<os, held, sync, pulling>>

\* The other side answers with what its clipboard holds.
OnRequest(m) ==
    /\ m.kind = "request"
    /\ net' = (net \ {m}) \cup {Response(m.to, m.from, os[m.to])}
    /\ UNCHANGED <<os, held, sync, pulling>>

\* The answer is handed to whoever waits for that peer, once.
OnResponse(m) ==
    LET q == pending[m.to][m.from] IN
    /\ m.kind = "response"
    /\ net' = net \ {m}
    /\ IF q = None THEN UNCHANGED <<pending, inbox>>
       ELSE /\ pending' = [pending EXCEPT ![m.to][m.from] = None]
            /\ inbox' = IF pull[q] \in {"send", "recv"} THEN [inbox EXCEPT ![q] = m.body]
                        ELSE inbox
    /\ UNCHANGED <<os, held, sync, pull, by, of>>

-----------------------------------------------------------------------------
Init ==
    /\ os \in [Devices -> Initial] /\ held = [d \in Devices |-> {os[d]}]
    /\ last = [d \in Devices |-> Empty] /\ active = [d \in Devices |-> FALSE]
    /\ on = [d \in Devices |-> "no"] /\ cur = [d \in Devices |-> None]
    /\ seen = [d \in Devices |-> None] /\ applying = [d \in Devices |-> {}]
    /\ pending = [d \in Devices |-> [e \in Devices |-> None]]
    /\ pull = [q \in Pulls |-> "idle"]
    /\ by = [q \in Pulls |-> None] /\ of = [q \in Pulls |-> None]
    /\ inbox = [q \in Pulls |-> None]
    /\ net = {} /\ copies = 0 /\ enables = 0 /\ disables = 0 /\ copied = None

Deliver(m) == OnPush(m) \/ OnRequest(m) \/ OnResponse(m)

PullStep(q) == PullSend(q) \/ PullRecv(q) \/ PullRemove(q) \/ PullSet(q) \/ PullNote(q)

Next ==
    \/ \E d \in Devices : \/ EnableStep(d) \/ Disable(d) \/ Watch(d) \/ Compare(d)
                          \/ \E c \in Contents : Copy(d, c) \/ Apply(d, c)
    \/ \E q \in Pulls : PullStep(q) \/ \E d \in Pullers, e \in Devices : PullStart(q, d, e)
    \/ \E m \in net : Deliver(m)

Spec == Init /\ [][Next]_vars

\* Watchers, receivers and pulls run; pushes arrive, requests and answers
\* need not.
Fairness ==
    /\ \A d \in Devices : /\ WF_vars(Watch(d)) /\ WF_vars(Compare(d))
                          /\ \A c \in Contents : WF_vars(Apply(d, c))
    /\ \A d \in Devices, c \in Contents :
          WF_vars(Push(d, c) \in net /\ OnPush(Push(d, c)))
    /\ \A q \in Pulls : WF_vars(PullStep(q))

FairSpec == Spec /\ Fairness

-----------------------------------------------------------------------------
\* Properties.

PullPCs == {"idle", "send", "recv", "got", "lost", "set", "note", "done"}

\* Types; the watcher and the handlers hold contents, never an empty clipboard.
TypeOK ==
    /\ os \in [Devices -> Values] /\ last \in [Devices -> Values]
    /\ on \in [Devices -> {"no", "read", "store"}] /\ cur \in [Devices -> Values \cup {None}]
    /\ \A d \in Devices : on[d] = "read" => cur[d] # None
    /\ active \in [Devices -> BOOLEAN] /\ seen \in [Devices -> Contents \cup {None}]
    /\ applying \in [Devices -> SUBSET Contents]
    /\ pending \in [Devices -> [Devices -> Pulls \cup {None}]]
    /\ pull \in [Pulls -> PullPCs]
    /\ by \in [Pulls -> Devices \cup {None}] /\ of \in [Pulls -> Devices \cup {None}]
    /\ inbox \in [Pulls -> Values \cup {None}]
    /\ copies \in 0 .. MaxCopies /\ enables \in 0 .. MaxEnable /\ disables \in 0 .. MaxDisable
    /\ copied \in Contents \cup {None} /\ held \in [Devices -> SUBSET Values]

\* An entry of clip_pending belongs to a call that is under way and asks that
\* very peer: a finished call leaves none, although any of them removes any.
PendingOwned ==
    \A d, e \in Devices : pending[d][e] # None =>
        LET q == pending[d][e] IN
        by[q] = d /\ of[q] = e /\ pull[q] \in {"send", "recv", "got", "lost"}

\* What a pull brings has been on the clipboard of the device it asked, and
\* is never another device's: answers are matched by sender only, with late
\* ones of earlier calls and those of other pulls in flight.
PullAuthentic ==
    \A q \in Pulls : inbox[q] # None => inbox[q] \in held[of[q]]

\* Every get_clipboard call returns.
PullEnds == \A q \in Pulls : pull[q] = "send" ~> pull[q] = "done"

\* "no clipboard response from peer": an answer that arrives while a call
\* waits for one from that peer is not thrown away.
NoAnswerDiscarded ==
    [][\A m \in net :
          /\ m \notin net' /\ m.kind = "response"
          /\ \E q \in Pulls : pull[q] = "recv" /\ by[q] = m.to /\ of[q] = m.from
                              /\ inbox[q] = None
          => inbox' # inbox]_vars

Everywhere(c) == \A d \in Devices : os[d] = c
NoPulls == \A q \in Pulls : pull[q] = "idle"

\* From the copy on nobody switches sync off, or on once more.
Undisturbed ==
    /\ disables = 0 /\ NoPulls
    /\ copied # None => \A d \in Devices : on[d] = "no"

\* Auto-sync: what the user copies while everybody has sync on ends up in
\* every clipboard, and stays there, if nothing was on them before and no
\* enable_clipboard_sync comes between the copy and the watchers.
CopySpreads ==
    Everywhere(Empty) /\ []Undisturbed =>
        \A c \in Contents : copied = c ~> []Everywhere(c)

\* The same with enable_clipboard_sync called again at any time.
CopySpreadsAlways ==
    Everywhere(Empty) /\ [](disables = 0 /\ NoPulls) =>
        \A c \in Contents : copied = c ~> []Everywhere(c)

\* The same whatever was on the clipboards before.
CopyReplaces ==
    []Undisturbed => \A c \in Contents : copied = c ~> []Everywhere(c)
=============================================================================
