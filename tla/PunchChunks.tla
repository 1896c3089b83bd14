---------------------------- MODULE PunchChunks ----------------------------
(***************************************************************************)
(* One direction of a punched link: send_chunked splits each queued frame  *)
(* into datagrams, the network loses, duplicates and reorders them, and    *)
(* reasm_feed puts frames together again (transport/punch.rs).             *)
(*                                                                         *)
(* A frame is its number and its length in chunks; chunk i of frame f      *)
(* carries the payload <<f, i>>.  The header fields keep their widths:     *)
(* ids wrap at IdMod (2^32), total and index at LenMod (2^16).             *)
(***************************************************************************)
EXTENDS Integers, Sequences, FiniteSets

CONSTANTS IdMod, LenMod,   \* widths of msg_id and of total and index
          REASM_MAX,       \* cap on simultaneously reassembling messages
          MaxFrames,       \* bound: frames sent on this link
          MaxLen,          \* bound: chunks of a frame
          MaxDup           \* bound: datagrams the network duplicates

ASSUME ChunkAssumption ==
    /\ IdMod \in Nat \ {0} /\ LenMod \in Nat \ {0} /\ REASM_MAX \in Nat \ {0}
    /\ MaxFrames \in Nat /\ MaxLen \in Nat \ {0} /\ MaxDup \in Nat

VARIABLES sent,      \* lengths of the frames taken from the queue so far
          net,       \* datagrams in flight
          lost,      \* datagrams the network lost
          dups,      \* how many it delivered without giving them up
          dead,      \* the sender's driver has left its loop
          pending,   \* the receiver's HashMap<u32, Reasm>
          shed,      \* frames whose partial reassembly was thrown away
          outs       \* what reasm_feed has returned, in order

vars == <<sent, net, lost, dups, dead, pending, shed, outs>>

Ids    == 0 .. IdMod - 1
Vacant == [total |-> 0, received |-> 0, parts |-> << >>]   \* no map entry
Occupied == {i \in Ids : pending[i] # Vacant}

-----------------------------------------------------------------------------
\* Mutant: the message id is never advanced.
DatagramSameId(f, i, n) == [id |-> 0, total |-> n % LenMod,
                            index |-> i % LenMod, body |-> <<f, i>>]

\* Chunk i of the f-th frame, n chunks long, as it travels; ids start at 0.
Datagram(f, i, n) == [id |-> (f - 1) % IdMod, total |-> n % LenMod,
                      index |-> i % LenMod, body |-> <<f, i>>]

\* The driver takes a frame of n chunks from its queue and sends the first k
\* datagrams; an error after k < n of them ends the driver.  An empty frame
\* still makes one datagram, so n > 0.
SendChunked(n, k) ==
    LET f == Len(sent) + 1 IN
    /\ ~dead /\ f <= MaxFrames
    /\ sent' = Append(sent, n)
    /\ net' = net \cup {Datagram(f, i, n) : i \in 0 .. k - 1}
    /\ dead' = (k < n)
    /\ UNCHANGED <<lost, dups, pending, shed, outs>>

\* The network drops a datagram.
Lose(d) ==
    /\ d \in net
    /\ net' = net \ {d}
    /\ lost' = lost \cup {d}
    /\ UNCHANGED <<sent, dups, dead, pending, shed, outs>>

-----------------------------------------------------------------------------
\* The map after the capacity test: full, and id is new, means clear it all.
MakeRoom(id) ==
    IF Cardinality(Occupied) >= REASM_MAX /\ pending[id] = Vacant
    THEN [i \in Ids |-> Vacant]
    ELSE pending

\* Mutant: a chunk that is already there is counted again.
FillRecount(e, d) ==
    [total    |-> e.total,
     received |-> e.received + 1,
     parts    |-> [i \in DOMAIN e.parts \cup {d.index} |->
                      IF i = d.index THEN d.body ELSE e.parts[i]]]

\* Put a chunk in its place, unless that place is taken.
Fill(e, d) ==
    IF d.index \in DOMAIN e.parts THEN e
    ELSE [total    |-> e.total,
          received |-> e.received + 1,
          parts    |-> [i \in DOMAIN e.parts \cup {d.index} |->
                           IF i = d.index THEN d.body ELSE e.parts[i]]]

\* The entry of d's message, made on the first chunk.
EntryFor(d) ==
    LET e == MakeRoom(d.id)[d.id] IN
    IF e = Vacant THEN [total |-> d.total, received |-> 0, parts |-> << >>] ELSE e

\* The frames with a chunk in an entry.
FramesOf(e) == {e.parts[i][1] : i \in DOMAIN e.parts}

\* Mutant: a completed message stays in the map.
ReasmFeedKeep(d) ==
    LET room == MakeRoom(d.id)
        old  == EntryFor(d)
        new  == Fill(old, d)
    IN  IF d.total = 0 \/ d.index >= d.total \/ old.total # d.total
        THEN UNCHANGED <<pending, outs, shed>>
        ELSE /\ pending' = [room EXCEPT ![d.id] = new]
             /\ outs' = IF new.received = new.total THEN Append(outs, new.parts) ELSE outs
             /\ UNCHANGED shed

\* reasm_feed of one chunk: reject what makes no sense, make room, fill in,
\* and hand out the message when the count says it is complete (a hole in
\* the parts would make it vanish instead).
ReasmFeed(d) ==
    LET room == MakeRoom(d.id)
        old  == EntryFor(d)
        new  == Fill(old, d)
        done == new.received = new.total
        hole == \E i \in 0 .. new.total - 1 : i \notin DOMAIN new.parts
    IN  IF d.total = 0 \/ d.index >= d.total \/ old.total # d.total
        THEN UNCHANGED <<pending, outs, shed>>
        ELSE /\ pending' = [room EXCEPT ![d.id] = IF done THEN Vacant ELSE new]
             /\ outs' = IF done /\ ~hole THEN Append(outs, new.parts) ELSE outs
             /\ shed' = IF room = pending THEN shed
                        ELSE shed \cup UNION {FramesOf(pending[i]) : i \in Occupied}

\* A datagram arrives; it may arrive again.
Deliver(d) ==
    /\ d \in net
    /\ ReasmFeed(d)
    /\ \/ net' = net \ {d} /\ UNCHANGED dups
       \/ dups < MaxDup /\ dups' = dups + 1 /\ UNCHANGED net
    /\ UNCHANGED <<sent, lost, dead>>

-----------------------------------------------------------------------------
Init ==
    /\ sent = << >> /\ net = {} /\ lost = {} /\ dups = 0 /\ dead = FALSE
    /\ pending = [i \in Ids |-> Vacant]
    /\ shed = {} /\ outs = << >>

Next == \/ \E n \in 1 .. MaxLen : \E k \in 0 .. n : SendChunked(n, k)
        \/ \E d \in net : Lose(d) \/ Deliver(d)

Spec == Init /\ [][Next]_vars

-----------------------------------------------------------------------------
\* Properties.

\* The content of frame f, chunk by chunk.
Frame(f) == [i \in 0 .. sent[f] - 1 |-> <<f, i>>]

\* No header field wraps.
NoWrap == MaxFrames <= IdMod /\ MaxLen < LenMod

\* Types; header fields stay within their width, and the map within the ids.
TypeOK ==
    /\ sent \in Seq(1 .. MaxLen) /\ Len(sent) <= MaxFrames
    /\ net \subseteq [id : Ids, total : 0 .. LenMod - 1, index : 0 .. LenMod - 1,
                      body : (1 .. MaxFrames) \X Nat]
    /\ dups \in 0 .. MaxDup /\ dead \in BOOLEAN
    /\ DOMAIN pending = Ids

\* What comes out is a frame that went in, whole and in order: chunks of two
\* frames are never mixed and no frame comes out short.
Integrity ==
    \A k \in DOMAIN outs : \E f \in DOMAIN sent : outs[k] = Frame(f)

\* The partial messages held never exceed REASM_MAX.
BoundedMemory == Cardinality(Occupied) <= REASM_MAX

\* A frame of which every chunk arrived, and of which nothing was shed,
\* has come out: no complete frame is left in the map.
NothingForgotten ==
    \A f \in DOMAIN sent :
        \/ \E k \in DOMAIN outs : outs[k] = Frame(f)
        \/ f \in shed
        \/ dead /\ f = Len(sent)
        \/ \E d \in net \cup lost : d.body[1] = f

\* A frame comes out once, and again only when the network has repeated as
\* many datagrams as the frame has chunks, each time.
NoRedelivery ==
    \A f \in DOMAIN sent :
        LET times == Cardinality({k \in DOMAIN outs : outs[k] = Frame(f)})
        IN  times * sent[f] <= sent[f] + dups

\* "shed stalled partials rather than grow forever": what is thrown away has
\* lost a chunk and could not have been completed.
OnlyStalledShed ==
    \A f \in shed : \E d \in lost : d.body[1] = f
=============================================================================
