----------------------------- MODULE LinkSlots -----------------------------
(***************************************************************************)
(* What the `ws_conns` map promises the rest of the engine, whatever the   *)
(* transport: each peer has one outgoing slot, a link takes the slot once, *)
(* when it is free (or when the link may pre-empt: WebRTC), and a slot is  *)
(* freed by the closing of the link that holds it and by nothing else.     *)
(* `LiveLinks` implements this with connection ids, three kinds of driver  *)
(* threads and a map that any of them may write.                           *)
(***************************************************************************)
CONSTANTS Peers,        \* node ids of the remote devices
          Links,        \* links that may come up
          Preemptive,   \* links that may take a slot another link holds
          None

VARIABLES holder,       \* peer -> the link its outgoing frames are queued on
          stage         \* link -> how far it has come

vars == <<holder, stage>>

Stages == {"new", "up", "closing", "gone"}

\* Types.
TypeOK == /\ holder \in [Peers -> Links \cup {None}]
          /\ stage \in [Links -> Stages]

Init == /\ holder = [p \in Peers |-> None]
        /\ stage = [l \in Links |-> "new"]

\* A new link takes the slot of p: a free one, or any when it may pre-empt.
Acquire(p, l) ==
    /\ stage[l] = "new"
    /\ holder[p] = None \/ l \in Preemptive
    /\ holder' = [holder EXCEPT ![p] = l]
    /\ stage' = [stage EXCEPT ![l] = "up"]

\* A link ends without ever having had a slot.
GiveUp(l) ==
    /\ stage[l] = "new"
    /\ stage' = [stage EXCEPT ![l] = "gone"]
    /\ UNCHANGED holder

\* A link decides to end; it still holds what it held.
Close(l) ==
    /\ stage[l] = "up"
    /\ stage' = [stage EXCEPT ![l] = "closing"]
    /\ UNCHANGED holder

\* A closing link frees exactly the slots it still holds.
Release(l) ==
    /\ stage[l] = "closing"
    /\ stage' = [stage EXCEPT ![l] = "gone"]
    /\ holder' = [p \in Peers |-> IF holder[p] = l THEN None ELSE holder[p]]

Next == \E l \in Links :
            \/ \E p \in Peers : Acquire(p, l)
            \/ GiveUp(l)
            \/ Close(l)
            \/ Release(l)

Spec == Init /\ [][Next]_vars
=============================================================================
