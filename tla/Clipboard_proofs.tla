-------------------------- MODULE Clipboard_proofs --------------------------
(***************************************************************************)
(* clip_pending never keeps the entry of a finished pull, and a pull never *)
(* brings another device's clipboard, for any number of devices, contents  *)
(* and calls, with sync on or off and messages lost or late.               *)
(***************************************************************************)
EXTENDS Clipboard, TLAPS

Message ==
    {Push(e, c) : e \in Devices, c \in Contents}
        \cup {Request(d, e) : d, e \in Devices}
        \cup {Response(e, d, c) : d, e \in Devices, c \in Values}

\* A call that has started knows its peer; one that got its answer holds it.
CallOK ==
    \A q \in Pulls :
        /\ pull[q] # "idle" => by[q] \in Devices /\ of[q] \in Devices
        /\ pull[q] = "idle" => inbox[q] = None
        /\ pull[q] \in {"got", "set", "note"} => inbox[q] # None

\* Clipboards, and the answers in flight, hold what their device has held.
HeldOK ==
    /\ \A d \in Devices : os[d] \in held[d]
    /\ \A m \in net : m.kind = "response" => m.body \in held[m.from]

Inv == TypeOK /\ net \subseteq Message /\ CallOK /\ PendingOwned /\ HeldOK /\ PullAuthentic

\* What the components of a message in flight can be.
LEMMA MessageShape ==
    ASSUME NEW m \in Message
    PROVE  /\ m.to \in Devices
           /\ m.kind = "clipboard" => m.body \in Contents
           /\ m.kind = "request" => m.from \in Devices
           /\ m.kind = "response" => m.from \in Devices /\ m.body \in Values
BY DEF Message, Push, Request, Response

\* The initial states satisfy the inductive invariant.
LEMMA InitInv == Init => Inv
<1> SUFFICES ASSUME Init PROVE Inv
    OBVIOUS
<1> USE ClipAssumption DEF Init
<1>1. TypeOK
  BY SMT DEF TypeOK, Values, PullPCs
<1>2. CallOK /\ HeldOK /\ PullAuthentic /\ PendingOwned /\ net \subseteq Message
  BY DEF CallOK, HeldOK, PullAuthentic, PendingOwned
<1> QED BY <1>1, <1>2 DEF Inv

\* Writing a clipboard keeps what was held, and adds what is written.
LEMMA SetClipHeld ==
    ASSUME TypeOK, HeldOK, NEW d \in Devices, NEW c \in Values, SetClip(d, c)
    PROVE  /\ os' \in [Devices -> Values] /\ held' \in [Devices -> SUBSET Values]
           /\ \A e \in Devices : held[e] \subseteq held'[e] /\ os'[e] \in held'[e]
BY DEF TypeOK, HeldOK, SetClip

\* The steps of enable_clipboard_sync keep the types.
LEMMA EnableTypes ==
    ASSUME TypeOK, NEW d \in Devices, EnableStep(d)
    PROVE  TypeOK'
<1> USE ClipAssumption
<1>1. CASE EnableRead(d)
  <2>1. enables' \in 0 .. MaxEnable
    BY <1>1, SMT DEF TypeOK, EnableRead
  <2>2. /\ on' \in [Devices -> {"no", "read", "store"}]
        /\ cur' \in [Devices -> Values \cup {None}]
        /\ \A e \in Devices : on'[e] = "read" => cur'[e] # None
    <3>1. os[d] \in Values /\ os[d] # None
      BY DEF TypeOK, Values
    <3>2. CASE on' = [on EXCEPT ![d] = "read"] /\ cur' = [cur EXCEPT ![d] = os[d]]
      BY <3>1, <3>2 DEF TypeOK
    <3>3. CASE on' = [on EXCEPT ![d] = "store"] /\ cur' = cur
      BY <3>3 DEF TypeOK
    <3> QED BY <1>1, <3>2, <3>3 DEF EnableRead
  <2> QED BY <1>1, <2>1, <2>2, Zenon DEF TypeOK, EnableRead, pulling
<1>2. CASE EnableLast(d)
  <2>1. last' \in [Devices -> Values]
    BY <1>2 DEF TypeOK, EnableLast
  <2>2. /\ on' \in [Devices -> {"no", "read", "store"}]
        /\ cur' \in [Devices -> Values \cup {None}]
        /\ \A e \in Devices : on'[e] = "read" => cur'[e] # None
    BY <1>2 DEF TypeOK, EnableLast
  <2> QED BY <1>2, <2>1, <2>2, Zenon DEF TypeOK, EnableLast, pulling
<1>3. CASE EnableStore(d)
  <2>1. active' \in [Devices -> BOOLEAN]
    BY <1>3, Zenon DEF TypeOK, EnableStore
  <2>2. /\ on' \in [Devices -> {"no", "read", "store"}]
        /\ \A e \in Devices : on'[e] = "read" => cur'[e] # None
    BY <1>3 DEF TypeOK, EnableStore
  <2> QED BY <1>3, <2>1, <2>2, Zenon DEF TypeOK, EnableStore, pulling
<1> QED BY <1>1, <1>2, <1>3 DEF EnableStep

\* The steps of syncing preserve the inductive invariant.
LEMMA SyncInv ==
    ASSUME Inv,
           \/ \E d \in Devices : \/ EnableStep(d) \/ Disable(d) \/ Watch(d) \/ Compare(d)
                                 \/ \E c \in Contents : Copy(d, c) \/ Apply(d, c)
           \/ \E m \in net : OnPush(m)
    PROVE  Inv'
<1> USE ClipAssumption DEF Inv, pulling
<1>1. ASSUME NEW d \in Devices, NEW c \in Contents, Copy(d, c) \/ Apply(d, c)
      PROVE  Inv'
  <2>1. SetClip(d, c)
    BY <1>1 DEF Copy, Apply
  <2>2. /\ os' \in [Devices -> Values] /\ held' \in [Devices -> SUBSET Values]
        /\ \A e \in Devices : held[e] \subseteq held'[e] /\ os'[e] \in held'[e]
    BY <2>1, SetClipHeld DEF Values
  <2>3. TypeOK'
    BY <1>1, <2>2, SMT DEF TypeOK, Copy, Apply
  <2>4. net' = net /\ pulling' = pulling
    BY <1>1 DEF Copy, Apply
  <2>5. (CallOK /\ PendingOwned)'
    BY <2>4 DEF CallOK, PendingOwned
  <2>6. HeldOK'
    BY <2>2, <2>4, MessageShape DEF HeldOK
  <2>7. PullAuthentic'
    BY <2>2, <2>4 DEF PullAuthentic, CallOK, TypeOK
  <2> QED BY <2>3, <2>4, <2>5, <2>6, <2>7
<1>2. ASSUME NEW d \in Devices, EnableStep(d) \/ Disable(d) \/ Watch(d) \/ Compare(d)
      PROVE  Inv'
  <2>1. TypeOK'
    <3>1. CASE EnableStep(d)
      BY <3>1, EnableTypes
    <3>2. CASE Disable(d)
      <4>1. disables' \in 0 .. MaxDisable
        BY <3>2, SMT DEF TypeOK, Disable
      <4> QED BY <3>2, <4>1, Zenon DEF TypeOK, Disable
    <3>3. CASE Watch(d)
      <4>1. os[d] \in Contents
        BY <3>3 DEF TypeOK, Watch, Values
      <4> QED BY <3>3, <4>1, Zenon DEF TypeOK, Watch
    <3>4. CASE Compare(d)
      <4>1. seen[d] \in Values
        BY <3>4 DEF TypeOK, Compare, Values
      <4> QED BY <3>4, <4>1, Zenon DEF TypeOK, Compare
    <3> QED BY <1>2, <3>1, <3>2, <3>3, <3>4
  <2>2. os' = os /\ held' = held /\ pulling' = pulling
    BY <1>2 DEF EnableStep, EnableRead, EnableLast, EnableStore, Disable, Watch, Compare
  <2>3. /\ net' \subseteq Message
        /\ \A m \in net' : m.kind = "response" => m \in net
    <3>1. CASE Compare(d)
      <4>1. seen[d] \in Contents
        BY <3>1 DEF TypeOK, Compare
      <4>2. net' = net \/ net' = net \cup {Push(e, seen[d]) : e \in Devices \ {d}}
        BY <3>1 DEF Compare
      <4> QED BY <4>1, <4>2 DEF Message, Push
    <3>2. CASE net' = net
      BY <3>2
    <3> QED BY <1>2, <3>1, <3>2 DEF EnableStep, EnableRead, EnableLast, EnableStore, Disable, Watch
  <2>4. (CallOK /\ PendingOwned /\ PullAuthentic /\ HeldOK)'
    BY <2>2, <2>3 DEF CallOK, PendingOwned, PullAuthentic, HeldOK
  <2> QED BY <2>1, <2>3, <2>4
<1>3. ASSUME NEW m \in net, OnPush(m)
      PROVE  Inv'
  <2>1. m.to \in Devices /\ m.body \in Contents
    BY <1>3, MessageShape DEF OnPush
  <2>2. TypeOK'
    <3>1. m.body \in Values
      BY <2>1 DEF Values
    <3>2. last' \in [Devices -> Values]
      <4>1. last \in [Devices -> Values]
        BY DEF TypeOK
      <4>2. last' = last \/ last' = [last EXCEPT ![m.to] = m.body]
        BY <1>3 DEF OnPush
      <4> QED BY <2>1, <3>1, <4>1, <4>2, SMT
    <3>3. applying' \in [Devices -> SUBSET Contents]
      <4>1. applying[m.to] \cup {m.body} \in SUBSET Contents
        BY <2>1 DEF TypeOK
      <4>2. \/ applying' = applying
            \/ applying' = [applying EXCEPT ![m.to] = applying[m.to] \cup {m.body}]
        BY <1>3 DEF OnPush
      <4> QED BY <4>1, <4>2, SMT DEF TypeOK
    <3> QED BY <1>3, <3>2, <3>3, Zenon DEF TypeOK, OnPush, pulling
  <2>3. os' = os /\ held' = held /\ pulling' = pulling /\ net' \subseteq net
    BY <1>3 DEF OnPush
  <2>4. (CallOK /\ PendingOwned /\ PullAuthentic /\ HeldOK)'
    BY <2>3 DEF CallOK, PendingOwned, PullAuthentic, HeldOK
  <2> QED BY <2>2, <2>3, <2>4
<1> QED BY <1>1, <1>2, <1>3

\* The steps of a pull preserve the inductive invariant.
LEMMA PullInv ==
    ASSUME Inv, NEW q \in Pulls, PullStep(q) \/ \E d, e \in Devices : PullStart(q, d, e)
    PROVE  Inv'
<1> USE ClipAssumption DEF Inv, sync
<1>1. ASSUME NEW d \in Devices, NEW e \in Devices, PullStart(q, d, e) PROVE Inv'
  <2>1. TypeOK'
    BY <1>1, SMT DEF TypeOK, PullStart, PullPCs
  <2>2. CallOK'
    BY <1>1 DEF CallOK, PullStart, TypeOK
  <2>3. PendingOwned'
    <3> SUFFICES ASSUME NEW a \in Devices, NEW b \in Devices, pending'[a][b] # None
                 PROVE  LET p == pending'[a][b] IN
                        by'[p] = a /\ of'[p] = b /\ pull'[p] \in {"send", "recv", "got", "lost"}
      BY DEF PendingOwned
    <3>1. CASE a = d /\ b = e
      BY <1>1, <3>1 DEF PullStart, TypeOK
    <3>2. CASE ~(a = d /\ b = e)
      <4>1. pending'[a][b] = pending[a][b]
        BY <1>1, <3>2 DEF PullStart, TypeOK
      <4>2. PICK p \in Pulls : p = pending[a][b]
        BY <4>1 DEF TypeOK
      <4>3. p # q
        BY <1>1, <4>1, <4>2 DEF PullStart, PendingOwned
      <4> QED BY <1>1, <4>1, <4>2, <4>3 DEF PullStart, PendingOwned, TypeOK
    <3> QED BY <3>1, <3>2
  <2>4. HeldOK' /\ PullAuthentic' /\ net' = net
    BY <1>1 DEF PullStart, HeldOK, PullAuthentic, CallOK, TypeOK
  <2> QED BY <2>1, <2>2, <2>3, <2>4
<1>2. ASSUME PullSend(q) PROVE Inv'
  <2>1. pull' \in [Pulls -> PullPCs]
    BY <1>2 DEF TypeOK, PullSend, PullPCs
  <2>5. TypeOK'
    BY <1>2, <2>1 DEF TypeOK, PullSend
  <2>6. CallOK'
    BY <1>2 DEF TypeOK, PullSend, CallOK
  <2>4. PendingOwned'
    <3>1. \A p \in Pulls : pull'[p] = pull[p] \/ (p = q /\ pull'[p] \in {"recv", "lost"})
      BY <1>2 DEF PullSend, TypeOK
    <3>2. UNCHANGED <<pending, by, of>> /\ pull[q] = "send"
      BY <1>2 DEF PullSend
    <3> QED BY <3>1, <3>2 DEF PendingOwned, TypeOK
  <2>2. PullAuthentic'
    BY <1>2 DEF PullSend, PullAuthentic
  <2>3. net' \subseteq Message /\ HeldOK'
    BY <1>2 DEF PullSend, Message, Request, HeldOK, CallOK
  <2> QED BY <2>2, <2>3, <2>4, <2>5, <2>6
<1>3. ASSUME PullRecv(q) PROVE Inv'
  <2>1. TypeOK' /\ CallOK'
    BY <1>3, SMT DEF TypeOK, PullRecv, PullPCs, CallOK
  <2>2. PendingOwned' /\ PullAuthentic'
    BY <1>3 DEF PullRecv, PendingOwned, TypeOK, PullAuthentic
  <2> QED BY <1>3, <2>1, <2>2 DEF PullRecv, HeldOK
<1>4. ASSUME PullRemove(q) PROVE Inv'
  <2>1. by[q] \in Devices /\ of[q] \in Devices
    BY <1>4 DEF PullRemove, CallOK
  <2>2. TypeOK' /\ CallOK'
    BY <1>4, <2>1, SMT DEF TypeOK, PullRemove, PullPCs, CallOK
  <2>3. PendingOwned'
    <3> SUFFICES ASSUME NEW a \in Devices, NEW b \in Devices, pending'[a][b] # None
                 PROVE  LET p == pending'[a][b] IN
                        by'[p] = a /\ of'[p] = b /\ pull'[p] \in {"send", "recv", "got", "lost"}
      BY DEF PendingOwned
    <3>1. pending'[a][b] = pending[a][b] /\ ~(a = by[q] /\ b = of[q])
      BY <1>4, <2>1 DEF PullRemove, TypeOK
    <3>2. PICK p \in Pulls : p = pending[a][b]
      BY <3>1 DEF TypeOK
    <3>3. p # q
      BY <3>1, <3>2 DEF PendingOwned
    <3> QED BY <1>4, <3>1, <3>2, <3>3 DEF PullRemove, PendingOwned, TypeOK
  <2> QED BY <1>4, <2>2, <2>3 DEF PullRemove, HeldOK, PullAuthentic
<1>5. ASSUME PullSet(q) PROVE Inv'
  <2>1. by[q] \in Devices /\ inbox[q] \in Values
    BY <1>5 DEF PullSet, CallOK, TypeOK
  <2>2. /\ os' \in [Devices -> Values] /\ held' \in [Devices -> SUBSET Values]
        /\ \A e \in Devices : held[e] \subseteq held'[e] /\ os'[e] \in held'[e]
    BY <1>5, <2>1, SetClipHeld DEF PullSet
  <2>3. TypeOK' /\ CallOK'
    BY <1>5, <2>2, SMT DEF TypeOK, PullSet, PullPCs, CallOK
  <2>4. PendingOwned'
    BY <1>5 DEF PullSet, PendingOwned, TypeOK
  <2>5. HeldOK' /\ net' = net
    BY <1>5, <2>2, MessageShape DEF PullSet, HeldOK
  <2>6. PullAuthentic'
    BY <1>5, <2>2 DEF PullSet, PullAuthentic, CallOK
  <2> QED BY <2>3, <2>4, <2>5, <2>6
<1>6. ASSUME PullNote(q) PROVE Inv'
  <2>1. by[q] \in Devices /\ inbox[q] \in Values
    BY <1>6 DEF PullNote, CallOK, TypeOK
  <2>2. TypeOK' /\ CallOK'
    BY <1>6, <2>1, SMT DEF TypeOK, PullNote, PullPCs, CallOK
  <2>3. PendingOwned'
    BY <1>6 DEF PullNote, PendingOwned, TypeOK
  <2> QED BY <1>6, <2>2, <2>3 DEF PullNote, HeldOK, PullAuthentic
<1> QED BY <1>1, <1>2, <1>3, <1>4, <1>5, <1>6 DEF PullStep

\* The arrival of a pull's messages preserves the invariant.
LEMMA AnswerInv ==
    ASSUME Inv, NEW m \in net, OnRequest(m) \/ OnResponse(m)
    PROVE  Inv'
<1> USE ClipAssumption DEF Inv, sync, pulling
<1>1. m.to \in Devices
  BY MessageShape
<1>2. ASSUME OnRequest(m) PROVE Inv'
  <2>1. m.from \in Devices
    BY <1>2, MessageShape DEF OnRequest
  <2>2. TypeOK' /\ CallOK' /\ PendingOwned' /\ PullAuthentic'
    BY <1>2 DEF OnRequest, TypeOK, CallOK, PendingOwned, PullAuthentic
  <2>3. net' \subseteq Message
    BY <1>1, <1>2, <2>1 DEF OnRequest, Message, Response, TypeOK
  <2>4. HeldOK'
    BY <1>1, <1>2, <2>1 DEF OnRequest, Response, HeldOK
  <2> QED BY <2>2, <2>3, <2>4
<1>3. ASSUME OnResponse(m) PROVE Inv'
  <2>1. m.from \in Devices /\ m.body \in Values /\ m.body \in held[m.from]
    BY <1>3, MessageShape DEF OnResponse, HeldOK
  <2>2. net' \subseteq Message /\ HeldOK'
    BY <1>3 DEF OnResponse, HeldOK
  <2>3. CASE pending[m.to][m.from] = None
    BY <1>3, <2>2, <2>3 DEF OnResponse, TypeOK, CallOK, PendingOwned, PullAuthentic
  <2>4. CASE pending[m.to][m.from] # None
    <3>1. PICK q \in Pulls : q = pending[m.to][m.from]
      BY <1>1, <2>1, <2>4 DEF TypeOK
    <3>2. by[q] = m.to /\ of[q] = m.from /\ pull[q] \in {"send", "recv", "got", "lost"}
      BY <1>1, <2>1, <2>4, <3>1 DEF PendingOwned
    <3>3. /\ pending' = [pending EXCEPT ![m.to][m.from] = None]
          /\ inbox' = IF pull[q] \in {"send", "recv"} THEN [inbox EXCEPT ![q] = m.body]
                      ELSE inbox
          /\ UNCHANGED <<os, held, sync, pull, by, of>>
      BY <1>3, <2>4, <3>1 DEF OnResponse
    <3>4. TypeOK'
      BY <1>1, <2>1, <3>3, SMT DEF TypeOK
    <3>5. CallOK'
      BY <2>1, <3>2, <3>3 DEF CallOK, TypeOK, Values
    <3>6. \A a, b \in Devices : pending'[a][b] # None => pending'[a][b] = pending[a][b]
      BY <1>1, <2>1, <3>3 DEF TypeOK
    <3>7. PendingOwned'
      BY <3>3, <3>6 DEF PendingOwned
    <3>8. PullAuthentic'
      BY <2>1, <3>2, <3>3 DEF PullAuthentic, TypeOK
    <3> QED BY <2>2, <3>4, <3>5, <3>7, <3>8
  <2> QED BY <2>3, <2>4
<1> QED BY <1>2, <1>3

\* Every step, and a stutter, preserves the inductive invariant.
LEMMA StepInv == Inv /\ [Next]_vars => Inv'
<1> SUFFICES ASSUME Inv, [Next]_vars PROVE Inv'
    OBVIOUS
<1>1. CASE Next
  BY <1>1, ClipAssumption, SyncInv, PullInv, AnswerInv DEF Next, Deliver
<1>2. CASE UNCHANGED vars
  BY <1>2 DEF Inv, vars, sync, TypeOK, CallOK, PendingOwned, PullAuthentic, HeldOK
<1> QED BY <1>1, <1>2

\* clip_pending: whatever calls overlap and whoever removes whose entry, an
\* entry belongs to a get_clipboard call under way for that very peer.
THEOREM PendingEntriesOwned == Spec => []PendingOwned
<1>1. Spec => []Inv
  BY InitInv, StepInv, PTL DEF Spec
<1>2. Inv => PendingOwned
  BY DEF Inv
<1> QED BY <1>1, <1>2, PTL

\* get_clipboard: what a call is handed has been on the asked peer's clipboard.
THEOREM PullsAuthentic == Spec => []PullAuthentic
<1>1. Spec => []Inv
  BY InitInv, StepInv, PTL DEF Spec
<1>2. Inv => PullAuthentic
  BY DEF Inv
<1> QED BY <1>1, <1>2, PTL

\* Clipboards, clip_last, clip_pending, the messages and the pulls keep their
\* types, for any devices, copies and pulls.
THEOREM ClipboardTypes == Spec => []TypeOK
<1>1. Spec => []Inv
  BY InitInv, StepInv, PTL DEF Spec
<1>2. Inv => TypeOK
  BY DEF Inv
<1> QED BY <1>1, <1>2, PTL
=============================================================================
