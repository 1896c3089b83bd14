------------------------- MODULE PunchChunks_proofs -------------------------
(***************************************************************************)
(* Theorems about PunchChunks, for any number and size of frames, any loss, *)
(* duplication and reordering, as long as no header field wraps.           *)
(***************************************************************************)
EXTENDS PunchChunks, FiniteSetTheorems, SequenceTheorems, TLAPS

\* No header field wraps: a field below its modulus is what was written.
LEMMA ModSmall ==
  ASSUME NEW x \in Nat, NEW m \in Nat, x < m
  PROVE  x % m = x
  BY SMT

\* The sender's side.
SentOK == sent \in Seq(1 .. MaxLen) /\ Len(sent) <= MaxFrames

\* Every datagram in flight is a chunk of a frame that was sent.
IsChunk(d) == \E f \in 1 .. Len(sent) : \E i \in 0 .. sent[f] - 1 : d = Datagram(f, i, sent[f])
NetOK == \A d \in net : IsChunk(d)

\* What a map entry under id may hold: some, not all, chunks of frame id + 1.
EntryOK(id, e) ==
  /\ id + 1 \in 1 .. Len(sent)
  /\ e.total = sent[id + 1]
  /\ DOMAIN e.parts \subseteq 0 .. e.total - 1
  /\ e.parts = [i \in DOMAIN e.parts |-> <<id + 1, i>>]
  /\ e.received = Cardinality(DOMAIN e.parts)
  /\ e = [total |-> e.total, received |-> e.received, parts |-> e.parts]

MapOK ==
  /\ pending = [id \in Ids |-> pending[id]]
  /\ \A id \in Ids : pending[id] # Vacant =>
        EntryOK(id, pending[id]) /\ pending[id].received # pending[id].total

\* What came out: a sequence of frames that were sent.
OutsOK == outs \in Seq({Frame(f) : f \in 1 .. Len(sent)})

ChunkInv == SentOK /\ NetOK /\ MapOK /\ OutsOK

\* Under NoWrap the header says which chunk it is.
LEMMA Header ==
  ASSUME NoWrap, SentOK, NEW f \in 1 .. Len(sent), NEW i \in 0 .. sent[f] - 1
  PROVE  /\ sent[f] \in 1 .. MaxLen
         /\ Datagram(f, i, sent[f]) =
              [id |-> f - 1, total |-> sent[f], index |-> i, body |-> <<f, i>>]
         /\ f - 1 \in Ids
<1>1. sent[f] \in 1 .. MaxLen BY ElementOfSeq DEF SentOK
<1>2. /\ f - 1 \in Nat /\ f - 1 < IdMod /\ IdMod \in Nat /\ LenMod \in Nat /\ MaxLen \in Nat
      /\ sent[f] \in Nat /\ sent[f] < LenMod /\ i \in Nat /\ i < LenMod
  BY <1>1, ChunkAssumption DEF NoWrap, SentOK
<1>3. (f - 1) % IdMod = f - 1 /\ sent[f] % LenMod = sent[f] /\ i % LenMod = i
  BY <1>2, ModSmall
<1>4. f - 1 \in Ids BY <1>2 DEF Ids
<1>5. Datagram(f, i, sent[f]) =
         [id |-> f - 1, total |-> sent[f], index |-> i, body |-> <<f, i>>]
  BY <1>3 DEF Datagram
<1> QED BY <1>1, <1>4, <1>5

\* Filling in the chunk a datagram carries keeps an entry sound, and the
\* count is complete exactly when no part is missing.
LEMMA FillOK ==
  ASSUME NEW id \in Nat, NEW e, EntryOK(id, e), SentOK, NEW i \in 0 .. e.total - 1,
         NEW d, d.index = i, d.body = <<id + 1, i>>
  PROVE  /\ EntryOK(id, Fill(e, d))
         /\ Fill(e, d).total = e.total
         /\ DOMAIN Fill(e, d).parts = DOMAIN e.parts \cup {i}
         /\ Fill(e, d).received = Fill(e, d).total =>
               Fill(e, d).parts = [j \in 0 .. e.total - 1 |-> <<id + 1, j>>]
<1>0. e.total \in Nat BY ElementOfSeq, ChunkAssumption DEF EntryOK, SentOK
<1>1. IsFiniteSet(0 .. e.total - 1) /\ Cardinality(0 .. e.total - 1) = e.total
  <2> DEFINE b == e.total - 1
  <2>1. 0 \in Int /\ b \in Int /\ b >= -1 /\ e.total = b + 1 BY <1>0
  <2> HIDE DEF b
  <2>2. IsFiniteSet(0 .. b) /\ Cardinality(0 .. b) = IF 0 > b THEN 0 ELSE b - 0 + 1
    BY <2>1, FS_Interval
  <2>3. (IF 0 > b THEN 0 ELSE b - 0 + 1) = b + 1 BY <2>1
  <2> QED BY <2>1, <2>2, <2>3 DEF b
<1>2. IsFiniteSet(DOMAIN e.parts)
  BY <1>1, FS_Subset DEF EntryOK
<1>3. /\ EntryOK(id, Fill(e, d))
      /\ Fill(e, d).total = e.total
      /\ DOMAIN Fill(e, d).parts = DOMAIN e.parts \cup {i}
  <2>1. CASE i \in DOMAIN e.parts
    <3>1. Fill(e, d) = e BY <2>1 DEF Fill
    <3> QED BY <2>1, <3>1
  <2>2. CASE i \notin DOMAIN e.parts
    <3>1. Cardinality(DOMAIN e.parts \cup {i}) = Cardinality(DOMAIN e.parts) + 1
      BY <1>2, <2>2, FS_AddElement
    <3> DEFINE ps == [j \in DOMAIN e.parts \cup {i} |-> IF j = i THEN d.body ELSE e.parts[j]]
    <3>2. Fill(e, d) = [total |-> e.total, received |-> e.received + 1, parts |-> ps]
      BY <2>2 DEF Fill
    <3>3. DOMAIN ps = DOMAIN e.parts \cup {i} OBVIOUS
    <3>4. ps = [j \in DOMAIN ps |-> <<id + 1, j>>]
      <4>1. \A j \in DOMAIN e.parts : e.parts[j] = <<id + 1, j>> BY DEF EntryOK
      <4> QED BY <4>1
    <3> HIDE DEF ps
    <3> QED BY <3>1, <3>2, <3>3, <3>4 DEF EntryOK
  <2> QED BY <2>1, <2>2
<1> DEFINE e2 == Fill(e, d)
<1> HIDE DEF e2
<1>4. ASSUME e2.received = e2.total PROVE e2.parts = [j \in 0 .. e.total - 1 |-> <<id + 1, j>>]
  <2>1. /\ e2.total = e.total /\ DOMAIN e2.parts \subseteq 0 .. e.total - 1
        /\ e2.received = Cardinality(DOMAIN e2.parts)
        /\ e2.parts = [j \in DOMAIN e2.parts |-> <<id + 1, j>>]
    BY <1>3 DEF EntryOK, e2
  <2>2. DOMAIN e2.parts = 0 .. e.total - 1
    BY <1>1, <1>4, <2>1, FS_Subset
  <2> QED BY <2>1, <2>2
<1> QED BY <1>3, <1>4 DEF e2

\* The absent entry has no parts.
LEMMA VacantParts == Vacant.total = 0 /\ DOMAIN Vacant.parts = {}
  BY DEF Vacant

\* What reasm_feed works on when chunk i of frame f arrives.
LEMMA FeedOld ==
  ASSUME NoWrap, ChunkInv, NEW f \in 1 .. Len(sent), NEW i \in 0 .. sent[f] - 1,
         NEW d, d = Datagram(f, i, sent[f])
  PROVE  /\ EntryOK(f - 1, EntryFor(d))
         /\ EntryFor(d).total = d.total /\ d.total = sent[f] /\ d.index = i
         /\ d.id = f - 1 /\ d.body = <<f, i>> /\ f - 1 \in Ids
         /\ MakeRoom(d.id) = pending \/ MakeRoom(d.id) = [j \in Ids |-> Vacant]
         /\ EntryFor(d) = pending[f - 1] \/ DOMAIN EntryFor(d).parts = {}
         /\ MakeRoom(d.id) = pending /\ pending[f - 1] # Vacant => EntryFor(d) = pending[f - 1]
         /\ pending[f - 1] = Vacant => DOMAIN EntryFor(d).parts = {}
<1> USE DEF ChunkInv
<1>1. /\ d = [id |-> f - 1, total |-> sent[f], index |-> i, body |-> <<f, i>>]
      /\ sent[f] \in 1 .. MaxLen /\ f - 1 \in Ids
  BY Header
<1>2. d.id = f - 1 /\ d.total = sent[f] /\ d.index = i /\ d.body = <<f, i>> BY <1>1
<1>3. MakeRoom(d.id) = pending \/ MakeRoom(d.id) = [j \in Ids |-> Vacant]
  BY DEF MakeRoom
<1> DEFINE e == MakeRoom(d.id)[d.id]
<1> DEFINE new == [total |-> d.total, received |-> 0, parts |-> << >>]
<1>4. CASE e = Vacant
  <2>1. EntryFor(d) = new BY <1>4 DEF EntryFor
  <2>2. new.total = sent[f] /\ new.received = 0 /\ new.parts = << >> /\ DOMAIN new.parts = {}
    BY <1>2
  <2>3. Cardinality({}) = 0 BY FS_EmptySet
  <2>4. new.parts = [j \in DOMAIN new.parts |-> <<f, j>>] BY <2>2
  <2>5. f - 1 + 1 = f BY DEF SentOK
  <2>6. new = [total |-> new.total, received |-> new.received, parts |-> new.parts] OBVIOUS
  <2> HIDE DEF new
  <2>7. EntryOK(f - 1, new) BY <2>2, <2>3, <2>4, <2>5, <2>6 DEF EntryOK
  <2>8. MakeRoom(d.id) = pending => pending[f - 1] = Vacant BY <1>2, <1>4
  <2> QED BY <1>1, <1>2, <1>3, <2>1, <2>2, <2>7, <2>8
<1>5. CASE e # Vacant
  <2>1. MakeRoom(d.id) = pending /\ e = pending[f - 1] BY <1>1, <1>2, <1>3, <1>5
  <2>2. EntryFor(d) = pending[f - 1] /\ pending[f - 1] # Vacant BY <1>5, <2>1 DEF EntryFor
  <2>3. EntryOK(f - 1, pending[f - 1]) BY <1>1, <2>2 DEF MapOK
  <2>4. f - 1 + 1 = f BY DEF SentOK
  <2>5. pending[f - 1].total = sent[f] BY <2>3, <2>4 DEF EntryOK
  <2> QED BY <1>1, <1>2, <1>3, <2>1, <2>2, <2>3, <2>5
<1> QED BY <1>4, <1>5

-----------------------------------------------------------------------------
\* Feeding chunk i of frame f in datagram d: the entry of f becomes `new`, which
\* has gained the chunk, or leaves the map as a whole frame; the other entries
\* stay or are all shed.
Fed(f, i, d, new) ==
  /\ EntryOK(f - 1, new)
  /\ i \in DOMAIN new.parts
  /\ DOMAIN new.parts = DOMAIN EntryFor(d).parts \cup {i}
  /\ DOMAIN EntryFor(d).parts \subseteq DOMAIN new.parts
  /\ pending' = [MakeRoom(f - 1) EXCEPT ![f - 1] =
                    IF new.received = new.total THEN Vacant ELSE new]
  /\ outs' = IF new.received = new.total THEN Append(outs, Frame(f)) ELSE outs
  /\ shed' = IF MakeRoom(f - 1) = pending THEN shed
             ELSE shed \cup UNION {FramesOf(pending[j]) : j \in Occupied}

\* The effect of feeding chunk i of frame f: the frame comes out whole, or
\* its entry has gained the chunk; the other entries stay or are all shed.
LEMMA FeedEffect ==
  ASSUME NoWrap, ChunkInv, NEW f \in 1 .. Len(sent), NEW i \in 0 .. sent[f] - 1,
         NEW d, d = Datagram(f, i, sent[f]), ReasmFeed(d)
  PROVE  \E new : Fed(f, i, d, new)
<1>0. /\ EntryOK(f - 1, EntryFor(d)) /\ EntryFor(d).total = d.total
      /\ d.total = sent[f] /\ d.index = i
      /\ d.id = f - 1 /\ d.body = <<f, i>> /\ f - 1 \in Ids
  <2>1. EntryOK(f - 1, EntryFor(d)) BY FeedOld
  <2>2. EntryFor(d).total = d.total /\ d.total = sent[f] BY FeedOld
  <2>3. d.index = i /\ d.id = f - 1 BY FeedOld
  <2>4. d.body = <<f, i>> BY DEF Datagram
  <2>5. f - 1 \in Ids BY FeedOld
  <2> QED BY <2>1, <2>2, <2>3, <2>4, <2>5
<1> DEFINE old == EntryFor(d)
           new == Fill(old, d)
<1>1. /\ EntryOK(f - 1, old) /\ old.total = d.total /\ d.total = sent[f] /\ d.index = i
      /\ d.id = f - 1 /\ d.body = <<f, i>> /\ f - 1 \in Ids
  BY <1>0
<1>2. f - 1 \in Nat /\ f - 1 + 1 = f /\ SentOK BY DEF ChunkInv, SentOK
<1>3. sent[f] \in Nat /\ sent[f] > 0 /\ i < sent[f]
  <2>1. sent[f] \in 1 .. MaxLen BY <1>2, ElementOfSeq DEF SentOK
  <2> QED BY <2>1, ChunkAssumption
<1> HIDE DEF old
<1>4. /\ EntryOK(f - 1, new) /\ new.total = old.total
      /\ DOMAIN new.parts = DOMAIN old.parts \cup {i}
      /\ new.received = new.total => new.parts = [j \in 0 .. old.total - 1 |-> <<f, j>>]
  <2>1. i \in 0 .. old.total - 1 /\ d.body = <<f - 1 + 1, i>> BY <1>1, <1>2
  <2> QED BY <1>1, <1>2, <2>1, FillOK
<1>5. ~(d.total = 0 \/ d.index >= d.total \/ old.total # d.total)
  BY <1>1, <1>3
<1>6. new.received = new.total => /\ new.parts = Frame(f)
                                  /\ ~\E j \in 0 .. new.total - 1 : j \notin DOMAIN new.parts
  BY <1>1, <1>4 DEF Frame
<1> HIDE DEF new
<1>7. /\ pending' = [MakeRoom(d.id) EXCEPT ![d.id] =
                        IF new.received = new.total THEN Vacant ELSE new]
      /\ outs' = IF new.received = new.total
                    /\ ~\E j \in 0 .. new.total - 1 : j \notin DOMAIN new.parts
                 THEN Append(outs, new.parts) ELSE outs
      /\ shed' = IF MakeRoom(d.id) = pending THEN shed
                 ELSE shed \cup UNION {FramesOf(pending[j]) : j \in Occupied}
  BY <1>5 DEF ReasmFeed, old, new
<1>8. outs' = IF new.received = new.total THEN Append(outs, Frame(f)) ELSE outs
  BY <1>6, <1>7
<1>9. /\ DOMAIN new.parts = DOMAIN EntryFor(d).parts \cup {i}
      /\ DOMAIN EntryFor(d).parts \subseteq DOMAIN new.parts /\ i \in DOMAIN new.parts
  BY <1>4 DEF old
<1> QED BY <1>1, <1>4, <1>7, <1>8, <1>9 DEF Fed

\* A longer `sent` keeps every frame it had.
LEMMA AppendSent ==
  ASSUME SentOK, NEW n \in 1 .. MaxLen, sent' = Append(sent, n)
  PROVE  /\ Len(sent') = Len(sent) + 1 /\ Len(sent) \in Nat
         /\ \A f \in 1 .. Len(sent) : f \in 1 .. Len(sent') /\ sent'[f] = sent[f]
         /\ sent'[Len(sent) + 1] = n
  BY DEF SentOK

\* The reassembly map starts empty.
LEMMA ChunkInit == Init => ChunkInv
<1> SUFFICES ASSUME Init PROVE ChunkInv OBVIOUS
<1>1. SentOK BY ChunkAssumption DEF Init, SentOK
<1>2. NetOK BY DEF Init, NetOK
<1>3. MapOK BY DEF Init, MapOK
<1>4. OutsOK BY DEF Init, OutsOK
<1> QED BY <1>1, <1>2, <1>3, <1>4 DEF ChunkInv

\* Sending a frame keeps what the parts in flight and in the map say.
LEMMA ChunkSend ==
  ASSUME NoWrap, ChunkInv, NEW n \in 1 .. MaxLen, NEW k \in 0 .. n, SendChunked(n, k)
  PROVE  ChunkInv'
<1> USE DEF ChunkInv
<1>0. sent' = Append(sent, n) /\ Len(sent) + 1 <= MaxFrames BY DEF SendChunked
<1>1. /\ Len(sent') = Len(sent) + 1 /\ Len(sent) \in Nat
      /\ \A f \in 1 .. Len(sent) : f \in 1 .. Len(sent') /\ sent'[f] = sent[f]
      /\ sent'[Len(sent) + 1] = n
  BY <1>0, AppendSent
<1>2. SentOK' BY <1>0, <1>1 DEF SentOK
<1>3. NetOK'
  <2> SUFFICES ASSUME NEW d \in net' PROVE IsChunk(d)' BY DEF NetOK
  <2>1. CASE d \in net
    <3> PICK f \in 1 .. Len(sent) : \E i \in 0 .. sent[f] - 1 : d = Datagram(f, i, sent[f])
      BY <2>1 DEF NetOK, IsChunk
    <3> PICK i \in 0 .. sent[f] - 1 : d = Datagram(f, i, sent[f]) OBVIOUS
    <3>1. d = Datagram(f, i, sent'[f]) /\ i \in 0 .. sent'[f] - 1 /\ f \in 1 .. Len(sent') BY <1>1
    <3> QED BY <3>1 DEF IsChunk, Datagram
  <2>2. CASE d \notin net
    <3> PICK i \in 0 .. k - 1 : d = Datagram(Len(sent) + 1, i, n)
      BY <2>2 DEF SendChunked
    <3>1. Len(sent) + 1 \in 1 .. Len(sent') /\ i \in 0 .. sent'[Len(sent) + 1] - 1
      BY <1>1
    <3> QED BY <1>1, <3>1 DEF IsChunk, Datagram
  <2> QED BY <2>1, <2>2
<1>4. MapOK'
  <2>1. UNCHANGED pending BY DEF SendChunked
  <2>2. \A id \in Ids : EntryOK(id, pending[id]) => EntryOK(id, pending[id])'
    BY <1>1, <2>1 DEF EntryOK
  <2> QED BY <2>1, <2>2 DEF MapOK
<1>5. OutsOK'
  <2>1. UNCHANGED outs BY DEF SendChunked
  <2>2. \A f \in 1 .. Len(sent) : Frame(f)' = Frame(f) /\ f \in 1 .. Len(sent')
    BY <1>1 DEF Frame
  <2> DEFINE S == {Frame(f) : f \in 1 .. Len(sent)}
             T == {Frame(f)' : f \in 1 .. Len(sent')}
  <2>3. S \subseteq T BY <2>2
  <2>4. outs \in Seq(S) BY DEF OutsOK
  <2> HIDE DEF S, T
  <2>5. outs \in Seq(T)
    <3>1. \A k2 \in 1 .. Len(outs) : outs[k2] \in T BY <2>3, <2>4, ElementOfSeq
    <3> QED BY <2>4, <3>1
  <2> QED BY <2>1, <2>5 DEF OutsOK, T
<1> QED BY <1>2, <1>3, <1>4, <1>5

\* So does feeding a datagram to the reassembler.
LEMMA ChunkDeliver ==
  ASSUME NoWrap, ChunkInv, NEW d \in net, Deliver(d)
  PROVE  ChunkInv'
<1> USE DEF ChunkInv
<1> PICK f \in 1 .. Len(sent) : \E i \in 0 .. sent[f] - 1 : d = Datagram(f, i, sent[f])
  BY DEF NetOK, IsChunk
<1> PICK i \in 0 .. sent[f] - 1 : d = Datagram(f, i, sent[f]) OBVIOUS
<1>0. UNCHANGED sent /\ net' \subseteq net /\ ReasmFeed(d) BY DEF Deliver
<1> PICK new : Fed(f, i, d, new) BY <1>0, FeedEffect
<1>w. /\ EntryOK(f - 1, new)
      /\ i \in DOMAIN new.parts
      /\ DOMAIN EntryFor(d).parts \subseteq DOMAIN new.parts
      /\ pending' = [MakeRoom(f - 1) EXCEPT ![f - 1] =
                        IF new.received = new.total THEN Vacant ELSE new]
      /\ outs' = IF new.received = new.total THEN Append(outs, Frame(f)) ELSE outs
      /\ shed' = IF MakeRoom(f - 1) = pending THEN shed
                 ELSE shed \cup UNION {FramesOf(pending[j]) : j \in Occupied}
  BY DEF Fed
<1> USE <1>w
<1>1. SentOK' BY <1>0 DEF SentOK
<1>2. NetOK' BY <1>0 DEF NetOK, IsChunk
<1>3. MapOK'
  <2>1. f - 1 \in Ids BY FeedOld
  <2>2. MakeRoom(f - 1) = [id \in Ids |-> MakeRoom(f - 1)[id]]
        /\ \A id \in Ids : MakeRoom(f - 1)[id] \in {pending[id], Vacant}
    BY DEF MakeRoom, MapOK
  <2>3. pending' = [id \in Ids |-> pending'[id]] BY <2>2
  <2>5. ASSUME NEW id \in Ids, pending'[id] # Vacant
        PROVE  EntryOK(id, pending'[id]) /\ pending'[id].received # pending'[id].total
    <3>1. CASE id = f - 1 BY <2>1, <2>2, <2>5, <3>1
    <3>2. CASE id # f - 1 BY <2>2, <2>5, <3>2 DEF MapOK
    <3> QED BY <3>1, <3>2
  <2> QED BY <1>0, <2>3, <2>5 DEF MapOK, EntryOK
<1>4. OutsOK'
  <2>1. Frame(f) \in {Frame(g) : g \in 1 .. Len(sent)} OBVIOUS
  <2>2. \A g \in 1 .. Len(sent) : Frame(g)' = Frame(g) BY <1>0 DEF Frame
  <2>3. outs' \in Seq({Frame(g) : g \in 1 .. Len(sent)})
    BY <2>1, AppendProperties DEF OutsOK
  <2> QED BY <1>0, <2>2, <2>3 DEF OutsOK
<1> QED BY <1>1, <1>2, <1>3, <1>4

\* Every step does.
LEMMA ChunkStep ==
  ASSUME NoWrap, ChunkInv, [Next]_vars
  PROVE  ChunkInv'
<1>1. ASSUME NEW n \in 1 .. MaxLen, NEW k \in 0 .. n, SendChunked(n, k) PROVE ChunkInv'
  BY <1>1, ChunkSend
<1>2. ASSUME NEW d \in net, Lose(d) PROVE ChunkInv'
  <2>1. net' \subseteq net /\ UNCHANGED <<sent, pending, outs>> BY <1>2 DEF Lose
  <2>2. SentOK' /\ NetOK' BY <2>1 DEF ChunkInv, SentOK, NetOK, IsChunk
  <2>3. MapOK' BY <2>1 DEF ChunkInv, MapOK, EntryOK
  <2>4. OutsOK' BY <2>1 DEF ChunkInv, OutsOK, Frame
  <2> QED BY <2>2, <2>3, <2>4 DEF ChunkInv
<1>3. ASSUME NEW d \in net, Deliver(d) PROVE ChunkInv'
  BY <1>3, ChunkDeliver
<1>4. CASE UNCHANGED vars
  BY <1>4 DEF vars, ChunkInv, SentOK, NetOK, IsChunk, MapOK, EntryOK, OutsOK, Frame
<1> QED BY <1>1, <1>2, <1>3, <1>4 DEF Next

\* When no header field wraps, parts say which frame they are of, always.
LEMMA ChunkInvariant ==
  ASSUME NoWrap PROVE Spec => []ChunkInv
<1>1. ChunkInv /\ [Next]_vars => ChunkInv' BY ChunkStep
<1> QED BY <1>1, ChunkInit, PTL DEF Spec

\* As long as no header field wraps, whatever the network loses, repeats or
\* reorders, everything reasm_feed returns is a frame that was sent.
THEOREM FramesIntact ==
  ASSUME NoWrap PROVE Spec => []Integrity
<1>1. ChunkInv => Integrity
  <2> SUFFICES ASSUME ChunkInv, NEW k \in DOMAIN outs
               PROVE  \E f \in DOMAIN sent : outs[k] = Frame(f)
    BY DEF Integrity
  <2>1. outs \in Seq({Frame(f) : f \in 1 .. Len(sent)}) BY DEF ChunkInv, OutsOK
  <2>2. k \in 1 .. Len(outs) BY <2>1
  <2>3. outs[k] \in {Frame(f) : f \in 1 .. Len(sent)} BY <2>1, <2>2, ElementOfSeq
  <2>4. DOMAIN sent = 1 .. Len(sent) BY DEF ChunkInv, SentOK
  <2> QED BY <2>3, <2>4
<1> QED BY <1>1, ChunkInvariant, PTL

-----------------------------------------------------------------------------
\* The bound on memory needs none of this: it holds with wrapping fields too.

BoundInv == /\ pending = [id \in Ids |-> pending[id]]
            /\ BoundedMemory

\* The ids are finitely many, so the entries can be counted.
LEMMA OccupiedFinite == IsFiniteSet(Occupied) /\ Cardinality(Occupied) \in Nat
<1>1. 0 \in Int /\ IdMod - 1 \in Int BY ChunkAssumption
<1>2. IsFiniteSet(Ids) BY <1>1, FS_Interval DEF Ids
<1>3. Occupied \in SUBSET Ids BY DEF Occupied
<1>4. IsFiniteSet(Occupied) BY <1>2, <1>3, FS_Subset
<1> QED BY <1>4, FS_CardinalityType

\* Feeding a datagram keeps the map within REASM_MAX entries.
LEMMA BoundFeed ==
  ASSUME BoundInv, NEW d, ReasmFeed(d)
  PROVE  BoundInv'
<1>0. BoundedMemory /\ REASM_MAX \in Nat /\ REASM_MAX > 0 BY ChunkAssumption DEF BoundInv
<1>1. CASE UNCHANGED pending
  BY <1>1 DEF BoundInv, BoundedMemory, Occupied
<1>2. ASSUME NEW v, pending' = [MakeRoom(d.id) EXCEPT ![d.id] = v] PROVE BoundInv'
  <2>1. MakeRoom(d.id) = [id \in Ids |-> MakeRoom(d.id)[id]]
    BY DEF MakeRoom, BoundInv
  <2>2. pending' = [id \in Ids |-> pending'[id]] BY <1>2, <2>1
  <2>3. \A id \in Ids : id # d.id => pending'[id] = MakeRoom(d.id)[id] BY <1>2, <2>1
  <2>4. Cardinality(Occupied') <= REASM_MAX
    <3>1. CASE Cardinality(Occupied) >= REASM_MAX /\ pending[d.id] = Vacant
      <4>1. MakeRoom(d.id) = [id \in Ids |-> Vacant] BY <3>1 DEF MakeRoom
      <4>2. Occupied' \in SUBSET {d.id} BY <2>3, <4>1 DEF Occupied
      <4>3. IsFiniteSet({d.id}) /\ Cardinality({d.id}) = 1 BY FS_Singleton
      <4>4. IsFiniteSet(Occupied') /\ Cardinality(Occupied') <= 1 BY <4>2, <4>3, FS_Subset
      <4>5. Cardinality(Occupied') \in Nat BY <4>4, FS_CardinalityType
      <4> QED BY <1>0, <4>4, <4>5
    <3>2. CASE ~(Cardinality(Occupied) >= REASM_MAX /\ pending[d.id] = Vacant)
      <4>1. MakeRoom(d.id) = pending BY <3>2 DEF MakeRoom
      <4>2. Occupied' \in SUBSET (Occupied \cup {d.id}) BY <2>3, <4>1 DEF Occupied
      <4>3. /\ IsFiniteSet(Occupied \cup {d.id})
            /\ Cardinality(Occupied \cup {d.id}) =
                 IF d.id \in Occupied THEN Cardinality(Occupied) ELSE Cardinality(Occupied) + 1
        BY OccupiedFinite, FS_AddElement
      <4>4. IsFiniteSet(Occupied') /\ Cardinality(Occupied') <= Cardinality(Occupied \cup {d.id})
        BY <4>2, <4>3, FS_Subset
      <4>5. Cardinality(Occupied') \in Nat /\ Cardinality(Occupied) \in Nat
        BY <4>4, FS_CardinalityType, OccupiedFinite
      <4>6. CASE d.id \in Occupied
        BY <1>0, <4>3, <4>4, <4>5, <4>6 DEF BoundedMemory
      <4>7. CASE d.id \notin Ids
        <5>1. Occupied' \in SUBSET Occupied BY <2>3, <4>1, <4>7 DEF Occupied
        <5>2. Cardinality(Occupied') <= Cardinality(Occupied) BY <5>1, OccupiedFinite, FS_Subset
        <5> QED BY <1>0, <4>5, <5>2 DEF BoundedMemory
      <4>8. CASE d.id \in Ids /\ d.id \notin Occupied
        <5>1. Cardinality(Occupied) < REASM_MAX BY <1>0, <3>2, <4>5, <4>8 DEF Occupied
        <5> QED BY <1>0, <4>3, <4>4, <4>5, <4>8, <5>1
      <4> QED BY <4>6, <4>7, <4>8
    <3> QED BY <3>1, <3>2
  <2> QED BY <2>2, <2>4 DEF BoundInv, BoundedMemory
<1> QED BY <1>1, <1>2 DEF ReasmFeed

\* However many partial messages arrive, the map never exceeds REASM_MAX.
THEOREM MemoryBounded == Spec => []BoundedMemory
<1>1. Init => BoundInv
  <2> SUFFICES ASSUME Init PROVE BoundInv OBVIOUS
  <2>1. Occupied = {} BY DEF Init, Occupied
  <2>2. Cardinality(Occupied) = 0 BY <2>1, FS_EmptySet
  <2> QED BY <2>2, ChunkAssumption DEF Init, BoundInv, BoundedMemory
<1>2. BoundInv /\ [Next]_vars => BoundInv'
  <2> SUFFICES ASSUME BoundInv, [Next]_vars PROVE BoundInv' OBVIOUS
  <2>1. CASE UNCHANGED pending BY <2>1 DEF BoundInv, BoundedMemory, Occupied
  <2>2. ASSUME NEW d, ReasmFeed(d) PROVE BoundInv' BY <2>2, BoundFeed
  <2> QED BY <2>1, <2>2 DEF Next, vars, SendChunked, Lose, Deliver
<1>3. BoundInv => BoundedMemory BY DEF BoundInv
<1> QED BY <1>1, <1>2, <1>3, PTL DEF Spec

-----------------------------------------------------------------------------
(***************************************************************************)
(* NothingForgotten, from an account of where each chunk is.               *)
(***************************************************************************)

Delivered(f) == \E k \in DOMAIN outs : outs[k] = Frame(f)

\* A frame that nothing more is claimed about.
Excused(f) == Delivered(f) \/ f \in shed \/ (dead /\ f = Len(sent))

\* Chunk i of frame f is in flight, lost, or in the map.
Located(f, i) ==
  \/ \E d \in net \cup lost : d.body = <<f, i>>
  \/ pending[f - 1] # Vacant /\ i \in DOMAIN pending[f - 1].parts

Accounted == \A f \in 1 .. Len(sent) : Excused(f) \/ \A i \in 0 .. sent[f] - 1 : Located(f, i)

\* A frame just sent has its chunks in flight.
LEMMA AccountSend ==
  ASSUME NoWrap, ChunkInv, Accounted, NEW n \in 1 .. MaxLen, NEW k \in 0 .. n, SendChunked(n, k)
  PROVE  Accounted'
<1> USE DEF ChunkInv
<1>0. sent' = Append(sent, n) /\ ~dead /\ UNCHANGED <<lost, pending, shed, outs>>
  BY DEF SendChunked
<1>1. /\ Len(sent') = Len(sent) + 1 /\ Len(sent) \in Nat
      /\ \A f \in 1 .. Len(sent) : f \in 1 .. Len(sent') /\ sent'[f] = sent[f]
      /\ sent'[Len(sent) + 1] = n
  BY <1>0, AppendSent
<1> SUFFICES ASSUME NEW f \in 1 .. Len(sent')
             PROVE  Excused(f)' \/ \A i \in 0 .. sent'[f] - 1 : Located(f, i)'
  BY DEF Accounted
<1>2. CASE f \in 1 .. Len(sent)
  <2>1. Frame(f)' = Frame(f) /\ sent'[f] = sent[f] BY <1>1, <1>2 DEF Frame
  <2>2. Excused(f) => Excused(f)' BY <1>0, <2>1 DEF Excused, Delivered
  <2>3. net \subseteq net' BY DEF SendChunked
  <2>4. ASSUME NEW i \in 0 .. sent[f] - 1, Located(f, i) PROVE Located(f, i)'
    BY <1>0, <2>3, <2>4 DEF Located
  <2> QED BY <1>2, <2>1, <2>2, <2>4 DEF Accounted
<1>3. CASE f \notin 1 .. Len(sent)
  <2>1. f = Len(sent) + 1 /\ sent'[f] = n /\ f = Len(sent') BY <1>1, <1>3
  <2>2. CASE k < n
    <3>1. dead' = TRUE BY <2>2 DEF SendChunked
    <3> QED BY <2>1, <3>1 DEF Excused
  <2>3. CASE ~(k < n)
    <3> SUFFICES ASSUME NEW i \in 0 .. n - 1 PROVE Located(f, i)' BY <2>1
    <3>1. i \in 0 .. k - 1 BY <2>3, ChunkAssumption
    <3>2. Datagram(f, i, n) \in net' BY <2>1, <3>1 DEF SendChunked
    <3>3. Datagram(f, i, n).body = <<f, i>> BY DEF Datagram
    <3> QED BY <3>2, <3>3 DEF Located
  <2> QED BY <2>2, <2>3
<1> QED BY <1>2, <1>3

\* A chunk received is a part in the map, or was shed, or completed a frame.
LEMMA AccountDeliver ==
  ASSUME NoWrap, ChunkInv, Accounted, NEW d \in net, Deliver(d)
  PROVE  Accounted'
<1> USE DEF ChunkInv
<1> PICK f0 \in 1 .. Len(sent) : \E i \in 0 .. sent[f0] - 1 : d = Datagram(f0, i, sent[f0])
  BY DEF NetOK, IsChunk
<1> PICK i0 \in 0 .. sent[f0] - 1 : d = Datagram(f0, i0, sent[f0]) OBVIOUS
<1>0. UNCHANGED <<sent, lost, dead>> /\ net \subseteq net' \cup {d} /\ ReasmFeed(d)
  BY DEF Deliver
<1>d. d.body = <<f0, i0>> BY DEF Datagram
<1>o. MakeRoom(d.id) = pending /\ pending[f0 - 1] # Vacant => EntryFor(d) = pending[f0 - 1]
  BY FeedOld
<1>i. d.id = f0 - 1 /\ f0 - 1 \in Ids BY FeedOld
<1> PICK new : Fed(f0, i0, d, new) BY <1>0, FeedEffect
<1>w. /\ EntryOK(f0 - 1, new)
      /\ i0 \in DOMAIN new.parts
      /\ DOMAIN EntryFor(d).parts \subseteq DOMAIN new.parts
      /\ pending' = [MakeRoom(f0 - 1) EXCEPT ![f0 - 1] =
                        IF new.received = new.total THEN Vacant ELSE new]
      /\ outs' = IF new.received = new.total THEN Append(outs, Frame(f0)) ELSE outs
      /\ shed' = IF MakeRoom(f0 - 1) = pending THEN shed
                 ELSE shed \cup UNION {FramesOf(pending[j]) : j \in Occupied}
  BY DEF Fed
<1> USE <1>w
<1>1. \A f \in 1 .. Len(sent) : Frame(f)' = Frame(f) BY <1>0 DEF Frame
<1>2. outs \in Seq({Frame(f) : f \in 1 .. Len(sent)}) BY DEF OutsOK
<1>3. ASSUME NEW f \in 1 .. Len(sent), Excused(f) PROVE Excused(f)'
  <2>1. Delivered(f) => Delivered(f)'
    <3> SUFFICES ASSUME NEW k \in DOMAIN outs, outs[k] = Frame(f) PROVE Delivered(f)'
      BY DEF Delivered
    <3>1. k \in DOMAIN outs' /\ outs'[k] = outs[k]
      <4>1. CASE new.received = new.total
        <5>1. outs' = Append(outs, Frame(f0)) BY <4>1
        <5> QED BY <1>2, <5>1
      <4>2. CASE new.received # new.total BY <4>2
      <4> QED BY <4>1, <4>2
    <3> QED BY <1>1, <3>1 DEF Delivered
  <2>2. shed \subseteq shed' OBVIOUS
  <2> QED BY <1>0, <1>3, <2>1, <2>2 DEF Excused
<1>4. new.received = new.total => Excused(f0)'
  <2> SUFFICES ASSUME new.received = new.total PROVE Delivered(f0)' BY DEF Excused
  <2>1. outs' = Append(outs, Frame(f0)) OBVIOUS
  <2>2. Len(outs) + 1 \in DOMAIN outs' /\ outs'[Len(outs) + 1] = Frame(f0) BY <1>2, <2>1
  <2> QED BY <1>1, <2>2 DEF Delivered
<1>5. new # Vacant BY VacantParts
<1>6. MakeRoom(f0 - 1) = [id \in Ids |-> MakeRoom(f0 - 1)[id]]
  BY DEF MakeRoom, MapOK
<1>7. new.received # new.total => pending'[f0 - 1] = new BY <1>i, <1>6
<1>8. ASSUME NEW f \in 1 .. Len(sent), ~Excused(f)', NEW i \in 0 .. sent[f] - 1, Located(f, i)
      PROVE  Located(f, i)'
  <2>1. CASE \E e \in net \cup lost : e.body = <<f, i>>
    <3> PICK e \in net \cup lost : e.body = <<f, i>> BY <2>1
    <3>1. CASE e # d
      <4>1. e \in net' \cup lost' BY <1>0, <3>1
      <4> QED BY <4>1 DEF Located
    <3>2. CASE e = d
      <4>1. f = f0 /\ i = i0 BY <1>d, <3>2
      <4>2. pending'[f0 - 1] = new BY <1>4, <1>7, <1>8, <4>1
      <4> QED BY <1>5, <4>1, <4>2 DEF Located
    <3> QED BY <3>1, <3>2
  <2>2. CASE pending[f - 1] # Vacant /\ i \in DOMAIN pending[f - 1].parts
    <3>0. f - 1 \in Ids BY Header
    <3>1. f - 1 \in Ids /\ f - 1 + 1 = f BY <3>0
    <3>2. MakeRoom(f0 - 1) = pending
      <4> SUFFICES ASSUME MakeRoom(f0 - 1) # pending PROVE FALSE OBVIOUS
      <4>1. f - 1 \in Occupied BY <2>2, <3>1 DEF Occupied
      <4>2. EntryOK(f - 1, pending[f - 1]) BY <2>2, <3>1 DEF MapOK
      <4>3. pending[f - 1].parts = [j \in DOMAIN pending[f - 1].parts |-> <<f, j>>]
        BY <3>1, <4>2 DEF EntryOK
      <4>4. pending[f - 1].parts[i] = <<f, i>> BY <2>2, <4>3
      <4>5. f \in FramesOf(pending[f - 1]) BY <2>2, <4>4 DEF FramesOf
      <4>6. f \in shed' BY <4>1, <4>5
      <4> QED BY <1>8, <4>6 DEF Excused
    <3>3. CASE f = f0
      <4>1. pending'[f0 - 1] = new BY <1>4, <1>7, <1>8, <3>3
      <4>2. EntryFor(d) = pending[f0 - 1] BY <1>i, <1>o, <2>2, <3>2, <3>3
      <4>3. i \in DOMAIN new.parts BY <2>2, <3>3, <4>2
      <4> QED BY <1>5, <3>3, <4>1, <4>3 DEF Located
    <3>4. CASE f # f0
      <4>1. f - 1 # f0 - 1 BY <3>4
      <4>2. pending'[f - 1] = pending[f - 1] BY <1>6, <3>1, <3>2, <4>1
      <4> QED BY <2>2, <4>2 DEF Located
    <3> QED BY <3>3, <3>4
  <2> QED BY <1>8, <2>1, <2>2 DEF Located
<1> QED BY <1>0, <1>3, <1>8 DEF Accounted

\* Every step accounts for every chunk.
LEMMA AccountStep ==
  ASSUME NoWrap, ChunkInv, Accounted, [Next]_vars
  PROVE  Accounted'
<1>1. ASSUME NEW n \in 1 .. MaxLen, NEW k \in 0 .. n, SendChunked(n, k) PROVE Accounted'
  BY <1>1, AccountSend
<1>2. ASSUME NEW d \in net, Lose(d) PROVE Accounted'
  <2>1. net' \cup lost' = net \cup lost /\ UNCHANGED <<sent, dead, pending, shed, outs>>
    BY <1>2 DEF Lose
  <2>2. \A f \in 1 .. Len(sent) : Excused(f)' <=> Excused(f)
    BY <2>1 DEF Excused, Delivered, Frame
  <2>3. \A f, i : Located(f, i)' <=> Located(f, i) BY <2>1 DEF Located
  <2> QED BY <2>1, <2>2, <2>3 DEF Accounted
<1>3. ASSUME NEW d \in net, Deliver(d) PROVE Accounted'
  BY <1>3, AccountDeliver
<1>4. CASE UNCHANGED vars
  BY <1>4 DEF vars, Accounted, Excused, Delivered, Frame, Located
<1> QED BY <1>1, <1>2, <1>3, <1>4 DEF Next

\* A complete entry cannot sit in the map, so a located frame is in flight.
LEMMA AccountedSuffices ==
  ASSUME NoWrap, ChunkInv, Accounted
  PROVE  NothingForgotten
<1> USE DEF ChunkInv
<1>1. DOMAIN sent = 1 .. Len(sent) BY DEF SentOK
<1> SUFFICES ASSUME NEW f \in 1 .. Len(sent), ~Excused(f),
                    ~\E d \in net \cup lost : d.body[1] = f
             PROVE  FALSE
  BY <1>1 DEF NothingForgotten, Excused, Delivered
<1>2. sent[f] \in 1 .. MaxLen BY ElementOfSeq DEF SentOK
<1>3. 0 \in 0 .. sent[f] - 1 BY <1>2, ChunkAssumption
<1>a. f - 1 \in Ids BY <1>3, Header
<1>4. f - 1 \in Ids /\ f - 1 + 1 = f BY <1>a
<1> DEFINE e == pending[f - 1]
<1>5. \A i \in 0 .. sent[f] - 1 : e # Vacant /\ i \in DOMAIN e.parts
  <2> SUFFICES ASSUME NEW i \in 0 .. sent[f] - 1 PROVE e # Vacant /\ i \in DOMAIN e.parts
    OBVIOUS
  <2>1. Located(f, i) BY DEF Accounted
  <2>2. \A d \in net \cup lost : d.body # <<f, i>> OBVIOUS
  <2> QED BY <2>1, <2>2 DEF Located
<1>6. EntryOK(f - 1, e) /\ e.received # e.total BY <1>3, <1>4, <1>5 DEF MapOK
<1>7. DOMAIN e.parts = 0 .. sent[f] - 1 /\ e.total = sent[f]
      /\ e.received = Cardinality(DOMAIN e.parts)
  BY <1>4, <1>5, <1>6 DEF EntryOK
<1>8. Cardinality(0 .. sent[f] - 1) = sent[f]
  <2> DEFINE b == sent[f] - 1
  <2>1. 0 \in Int /\ b \in Int /\ b >= 0 /\ sent[f] = b + 1 BY <1>2, ChunkAssumption
  <2> HIDE DEF b
  <2>2. Cardinality(0 .. b) = IF 0 > b THEN 0 ELSE b - 0 + 1 BY <2>1, FS_Interval
  <2>3. (IF 0 > b THEN 0 ELSE b - 0 + 1) = b + 1 BY <2>1
  <2> QED BY <2>1, <2>2, <2>3 DEF b
<1> QED BY <1>6, <1>7, <1>8

\* As long as no header field wraps, a frame of which every chunk has arrived
\* has been handed out, unless the capacity limit threw its chunks away.
THEOREM FramesNotForgotten ==
  ASSUME NoWrap PROVE Spec => []NothingForgotten
<1>1. Init => Accounted
  BY DEF Init, Accounted
<1>2. ChunkInv /\ Accounted /\ [Next]_vars => Accounted' BY AccountStep
<1>3. ChunkInv /\ Accounted => NothingForgotten BY AccountedSuffices
<1> QED BY <1>1, <1>2, <1>3, ChunkInvariant, PTL DEF Spec

-----------------------------------------------------------------------------
(***************************************************************************)
(* NoRedelivery, from a count of the datagrams of each frame.              *)
(***************************************************************************)

Flying(f) == {d \in net : d.body[1] = f}
Held(f) == IF pending[f - 1] = Vacant THEN {} ELSE DOMAIN pending[f - 1].parts
Times(f) == {k \in DOMAIN outs : outs[k] = Frame(f)}

\* Every chunk of f that flies, is held or went into a copy handed out is one of
\* those sent or one that the network repeated.
Paid(f) == Cardinality(Times(f)) * sent[f] + Cardinality(Held(f)) + Cardinality(Flying(f))
           <= sent[f] + dups

CountInv == dups \in Nat /\ \A f \in 1 .. Len(sent) : Paid(f)

\* An interval of chunk numbers has as many elements as it should.
LEMMA ChunkNumbers ==
  ASSUME NEW n \in Nat
  PROVE  IsFiniteSet(0 .. n - 1) /\ Cardinality(0 .. n - 1) = n
<1> DEFINE b == n - 1
<1>1. 0 \in Int /\ b \in Int /\ b >= -1 /\ n = b + 1 OBVIOUS
<1> HIDE DEF b
<1>2. IsFiniteSet(0 .. b) /\ Cardinality(0 .. b) = IF 0 > b THEN 0 ELSE b - 0 + 1
  BY <1>1, FS_Interval
<1>3. (IF 0 > b THEN 0 ELSE b - 0 + 1) = b + 1 BY <1>1
<1> QED BY <1>1, <1>2, <1>3 DEF b

\* A frame makes no more datagrams than it has chunks.
LEMMA DatagramCount ==
  ASSUME NEW f, NEW n \in Nat, NEW T, T \subseteq {Datagram(f, i, n) : i \in 0 .. n - 1}
  PROVE  IsFiniteSet(T) /\ Cardinality(T) <= n /\ Cardinality(T) \in Nat
<1> DEFINE S == 0 .. n - 1
           U == {Datagram(f, i, n) : i \in S}
           g == [i \in S |-> Datagram(f, i, n)]
<1>1. IsFiniteSet(S) /\ Cardinality(S) = n BY ChunkNumbers
<1>2. g \in [S -> U] /\ \A u \in U : \E i \in S : g[i] = u OBVIOUS
<1>3. T \in SUBSET U OBVIOUS
<1> HIDE DEF S, U, g
<1>4. g \in Surjection(S, U) BY <1>2 DEF Surjection
<1>5. IsFiniteSet(U) /\ Cardinality(U) <= n BY <1>1, <1>4, FS_Surjection
<1>6. IsFiniteSet(T) /\ Cardinality(T) <= Cardinality(U) BY <1>3, <1>5, FS_Subset
<1>7. Cardinality(T) \in Nat /\ Cardinality(U) \in Nat BY <1>5, <1>6, FS_CardinalityType
<1> QED BY <1>5, <1>6, <1>7

\* Frames that were sent differ.
LEMMA FramesDiffer ==
  ASSUME SentOK, NEW f \in 1 .. Len(sent), NEW g \in 1 .. Len(sent), f # g
  PROVE  Frame(f) # Frame(g)
<1>1. sent[f] \in 1 .. MaxLen /\ sent[g] \in 1 .. MaxLen BY ElementOfSeq DEF SentOK
<1>2. 0 \in 0 .. sent[f] - 1 /\ 0 \in 0 .. sent[g] - 1 BY <1>1, ChunkAssumption
<1>3. Frame(f)[0] = <<f, 0>> /\ Frame(g)[0] = <<g, 0>> BY <1>2 DEF Frame
<1> QED BY <1>3

\* What is counted is finite.
LEMMA CountedFinite ==
  ASSUME NoWrap, ChunkInv, NEW f \in 1 .. Len(sent)
  PROVE  /\ IsFiniteSet(Times(f)) /\ Cardinality(Times(f)) \in Nat
         /\ IsFiniteSet(Held(f)) /\ Cardinality(Held(f)) \in Nat
         /\ IsFiniteSet(Flying(f)) /\ Cardinality(Flying(f)) \in Nat
         /\ sent[f] \in Nat \ {0}
<1> USE DEF ChunkInv
<1>1. sent[f] \in Nat \ {0}
  <2>1. sent[f] \in 1 .. MaxLen BY ElementOfSeq DEF SentOK
  <2> QED BY <2>1, ChunkAssumption
<1>2. IsFiniteSet(Times(f)) /\ Cardinality(Times(f)) \in Nat
  <2>1. Len(outs) \in Nat /\ DOMAIN outs = 1 .. Len(outs) BY DEF OutsOK
  <2>2. IsFiniteSet(1 .. Len(outs)) BY <2>1, FS_Interval
  <2>3. Times(f) \in SUBSET (1 .. Len(outs)) BY <2>1 DEF Times
  <2>4. IsFiniteSet(Times(f)) BY <2>2, <2>3, FS_Subset
  <2> QED BY <2>4, FS_CardinalityType
<1>3. IsFiniteSet(Held(f)) /\ Cardinality(Held(f)) \in Nat
  <2>1. IsFiniteSet(Held(f))
    <3>1. CASE pending[f - 1] = Vacant BY <3>1, FS_EmptySet DEF Held
    <3>2. CASE pending[f - 1] # Vacant
      <4>1. 0 \in 0 .. sent[f] - 1 BY <1>1
      <4>2. f - 1 \in Ids BY <4>1, Header
      <4>3. EntryOK(f - 1, pending[f - 1]) BY <3>2, <4>2 DEF MapOK
      <4>4. f - 1 + 1 = f BY DEF SentOK
      <4>5. DOMAIN pending[f - 1].parts \subseteq 0 .. sent[f] - 1 BY <4>3, <4>4 DEF EntryOK
      <4>6. Held(f) \in SUBSET (0 .. sent[f] - 1) BY <3>2, <4>5 DEF Held
      <4>7. IsFiniteSet(0 .. sent[f] - 1) BY <1>1, ChunkNumbers
      <4> QED BY <4>6, <4>7, FS_Subset
    <3> QED BY <3>1, <3>2
  <2> QED BY <2>1, FS_CardinalityType
<1>4. IsFiniteSet(Flying(f)) /\ Cardinality(Flying(f)) \in Nat
  <2>1. ASSUME NEW d \in Flying(f) PROVE d \in {Datagram(f, i, sent[f]) : i \in 0 .. sent[f] - 1}
    <3>1. d \in net /\ d.body[1] = f BY <2>1 DEF Flying
    <3> PICK g \in 1 .. Len(sent) : \E i \in 0 .. sent[g] - 1 : d = Datagram(g, i, sent[g])
      BY <3>1 DEF NetOK, IsChunk
    <3> PICK i \in 0 .. sent[g] - 1 : d = Datagram(g, i, sent[g]) OBVIOUS
    <3>2. d.body = <<g, i>> BY DEF Datagram
    <3>3. g = f BY <3>1, <3>2
    <3> QED BY <3>3
  <2>2. Flying(f) \subseteq {Datagram(f, i, sent[f]) : i \in 0 .. sent[f] - 1} BY <2>1
  <2> QED BY <1>1, <2>2, DatagramCount
<1> QED BY <1>1, <1>2, <1>3, <1>4

\* Sending brings as many chunks as the frame has, at most.
LEMMA CountSend ==
  ASSUME NoWrap, ChunkInv, CountInv, NEW n \in 1 .. MaxLen, NEW k \in 0 .. n, SendChunked(n, k)
  PROVE  CountInv'
<1> USE DEF ChunkInv
<1>0. sent' = Append(sent, n) /\ UNCHANGED <<dups, pending, outs>> BY DEF SendChunked
<1>1. /\ Len(sent') = Len(sent) + 1 /\ Len(sent) \in Nat
      /\ \A f \in 1 .. Len(sent) : f \in 1 .. Len(sent') /\ sent'[f] = sent[f]
      /\ sent'[Len(sent) + 1] = n
  BY <1>0, AppendSent
<1> PICK f0 \in Nat : f0 = Len(sent) + 1 BY <1>1
<1> DEFINE chunks == {Datagram(f0, i, n) : i \in 0 .. k - 1}
<1>2. net' = net \cup chunks BY DEF SendChunked
<1>3. \A d \in chunks : d.body[1] = f0 BY DEF Datagram
<1>n. n \in Nat /\ k \in 0 .. n BY ChunkAssumption
<1>k. chunks \subseteq {Datagram(f0, i, n) : i \in 0 .. n - 1} BY <1>n
<1> HIDE DEF chunks
<1>4. ASSUME NEW f \in 1 .. Len(sent) PROVE Paid(f)'
  <2>1. f # f0 BY <1>1
  <2>2. Flying(f)' = Flying(f) BY <1>2, <1>3, <2>1 DEF Flying
  <2>3. Frame(f)' = Frame(f) /\ sent'[f] = sent[f] BY <1>1 DEF Frame
  <2>4. Held(f)' = Held(f) /\ Times(f)' = Times(f) BY <1>0, <2>3 DEF Held, Times
  <2> QED BY <1>0, <2>2, <2>3, <2>4 DEF CountInv, Paid
<1>5. Paid(f0)'
  <2>1. Flying(f0)' = chunks
    <3>1. ASSUME NEW d \in net PROVE d.body[1] # f0
      <4> PICK g \in 1 .. Len(sent) : \E i \in 0 .. sent[g] - 1 : d = Datagram(g, i, sent[g])
        BY DEF NetOK, IsChunk
      <4> PICK i \in 0 .. sent[g] - 1 : d = Datagram(g, i, sent[g]) OBVIOUS
      <4>1. d.body[1] = g BY DEF Datagram
      <4> QED BY <1>1, <4>1
    <3> QED BY <1>2, <1>3, <3>1 DEF Flying
  <2>2. Cardinality(chunks) \in Nat /\ Cardinality(chunks) <= n BY <1>n, <1>k, DatagramCount
  <2>3. Held(f0)' = {}
    <3>1. pending[f0 - 1] = Vacant
      <4> SUFFICES ASSUME pending[f0 - 1] # Vacant PROVE FALSE OBVIOUS
      <4>1. f0 - 1 \in Ids BY <1>1, ChunkAssumption DEF Ids, NoWrap, SendChunked
      <4>2. EntryOK(f0 - 1, pending[f0 - 1]) BY <4>1 DEF MapOK
      <4> QED BY <1>1, <4>2 DEF EntryOK
    <3> QED BY <1>0, <3>1 DEF Held
  <2>4. Times(f0)' = {}
    <3> SUFFICES ASSUME NEW j \in DOMAIN outs, outs[j] = Frame(f0)' PROVE FALSE
      BY <1>0 DEF Times
    <3>1. outs[j] \in {Frame(g) : g \in 1 .. Len(sent)} BY DEF OutsOK
    <3> PICK g \in 1 .. Len(sent) : outs[j] = Frame(g) BY <3>1
    <3>2. Frame(g) = Frame(g)' BY <1>1 DEF Frame
    <3>3. g \in 1 .. Len(sent') /\ f0 \in 1 .. Len(sent') /\ f0 # g BY <1>1
    <3>4. SentOK'
      BY <1>0, <1>1 DEF SentOK, SendChunked
    <3>5. sent'[f0] \in 1 .. MaxLen /\ sent'[g] \in 1 .. MaxLen
      BY <3>3, <3>4, ElementOfSeq DEF SentOK
    <3>6. 0 \in 0 .. sent'[f0] - 1 /\ 0 \in 0 .. sent'[g] - 1 BY <3>5, ChunkAssumption
    <3>7. Frame(f0)'[0] = <<f0, 0>> /\ Frame(g)'[0] = <<g, 0>> BY <3>6 DEF Frame
    <3> QED BY <3>2, <3>3, <3>7
  <2>5. sent'[f0] = n /\ Cardinality({}) = 0 /\ dups' \in Nat
    BY <1>0, <1>1, FS_EmptySet DEF CountInv
  <2>6. Cardinality({}) * n + Cardinality({}) + Cardinality(chunks) <= n + dups'
    BY <1>n, <2>2, <2>5
  <2> QED BY <2>1, <2>3, <2>4, <2>5, <2>6 DEF Paid
<1>6. \A f \in 1 .. Len(sent') : f \in 1 .. Len(sent) \/ f = f0 BY <1>1
<1> QED BY <1>0, <1>4, <1>5, <1>6 DEF CountInv

\* Arithmetic of the count: one copy more; and one chunk moved from the flight
\* or from the repetitions into the map.
LEMMA OneMore ==
  ASSUME NEW a \in Nat, NEW b \in Nat PROVE (a + 1) * b = a * b + b
  BY SMT

\* A chunk that moves into the map is paid for by the flight or by a repetition.
LEMMA Balance ==
  ASSUME NEW t \in Nat, NEW s \in Nat, NEW h \in Nat, NEW g \in Nat, NEW g2 \in Nat,
         NEW u \in Nat, NEW u2 \in Nat, NEW x \in Nat,
         t + h + g <= s + u, g2 + u + 1 <= g + u2, x <= h + 1
  PROVE  t + x + 0 + g2 <= s + u2 /\ t + x + g2 <= s + u2
  BY SMT

\* A repeated datagram is counted as such, one that arrives is no longer in
\* flight, and a copy handed out takes as many chunks as the frame has.
LEMMA CountDeliver ==
  ASSUME NoWrap, ChunkInv, CountInv, NEW d \in net, Deliver(d)
  PROVE  CountInv'
<1> USE DEF ChunkInv
<1> PICK f0 \in 1 .. Len(sent) : \E i \in 0 .. sent[f0] - 1 : d = Datagram(f0, i, sent[f0])
  BY DEF NetOK, IsChunk
<1> PICK i0 \in 0 .. sent[f0] - 1 : d = Datagram(f0, i0, sent[f0]) OBVIOUS
<1>0. UNCHANGED sent /\ ReasmFeed(d) BY DEF Deliver
<1>d. d.body[1] = f0 BY DEF Datagram
<1>i. f0 - 1 \in Ids BY FeedOld
<1>h. DOMAIN EntryFor(d).parts \subseteq Held(f0)
  <2>1. EntryFor(d) = pending[f0 - 1] \/ DOMAIN EntryFor(d).parts = {} BY FeedOld
  <2>2. pending[f0 - 1] = Vacant => DOMAIN EntryFor(d).parts = {} BY FeedOld
  <2> QED BY <2>1, <2>2 DEF Held
<1> PICK new : Fed(f0, i0, d, new) BY <1>0, FeedEffect
<1>w. /\ EntryOK(f0 - 1, new)
      /\ i0 \in DOMAIN new.parts
      /\ DOMAIN new.parts = DOMAIN EntryFor(d).parts \cup {i0}
      /\ DOMAIN EntryFor(d).parts \subseteq DOMAIN new.parts
      /\ pending' = [MakeRoom(f0 - 1) EXCEPT ![f0 - 1] =
                        IF new.received = new.total THEN Vacant ELSE new]
      /\ outs' = IF new.received = new.total THEN Append(outs, Frame(f0)) ELSE outs
      /\ shed' = IF MakeRoom(f0 - 1) = pending THEN shed
                 ELSE shed \cup UNION {FramesOf(pending[j]) : j \in Occupied}
  BY DEF Fed
<1> USE <1>w
<1>1. \A f \in 1 .. Len(sent) : Frame(f)' = Frame(f) BY <1>0 DEF Frame
<1>2. outs \in Seq({Frame(f) : f \in 1 .. Len(sent)}) BY DEF OutsOK
<1>3. MakeRoom(f0 - 1) = [id \in Ids |-> MakeRoom(f0 - 1)[id]]
      /\ \A id \in Ids : MakeRoom(f0 - 1)[id] \in {pending[id], Vacant}
  BY DEF MakeRoom, MapOK
\* Of another frame, no more is held, handed out or in flight than before.
<1>4. ASSUME NEW f \in 1 .. Len(sent), f # f0 PROVE Paid(f)'
  <2>1. Flying(f)' = Flying(f) BY <1>d, <1>4 DEF Deliver, Flying
  <2>2. dups \in Nat /\ dups' \in Nat /\ dups' >= dups BY DEF Deliver, CountInv
  <2>3. Times(f)' = Times(f)
    <3>1. CASE new.received = new.total
      <4>1. outs' = Append(outs, Frame(f0)) BY <3>1
      <4>2. Frame(f0) # Frame(f) BY <1>4, FramesDiffer
      <4>3. DOMAIN outs' = DOMAIN outs \cup {Len(outs) + 1}
            /\ (\A k \in DOMAIN outs : outs'[k] = outs[k]) /\ outs'[Len(outs) + 1] = Frame(f0)
        BY <1>2, <4>1
      <4>4. Times(f)' = {k \in DOMAIN outs' : outs'[k] = Frame(f)} BY <1>1 DEF Times
      <4> QED BY <4>2, <4>3, <4>4 DEF Times
    <3>2. CASE new.received # new.total BY <1>1, <3>2 DEF Times
    <3> QED BY <3>1, <3>2
  <2>4. Held(f)' \in SUBSET Held(f)
    <3>0. sent[f] \in Nat \ {0} BY CountedFinite
    <3>a. 0 \in 0 .. sent[f] - 1 BY <3>0
    <3>1. f - 1 \in Ids BY <3>a, Header
    <3>2. f - 1 # f0 - 1 BY <1>4
    <3>3. pending'[f - 1] \in {pending[f - 1], Vacant} BY <1>3, <3>1, <3>2
    <3> QED BY <3>3 DEF Held
  <2>5. /\ Cardinality(Times(f)) \in Nat /\ IsFiniteSet(Held(f)) /\ Cardinality(Held(f)) \in Nat
        /\ Cardinality(Flying(f)) \in Nat /\ sent[f] \in Nat
    BY CountedFinite
  <2>6. IsFiniteSet(Held(f)') /\ Cardinality(Held(f)') <= Cardinality(Held(f))
    BY <2>4, <2>5, FS_Subset
  <2>7. Cardinality(Held(f)') \in Nat BY <2>6, FS_CardinalityType
  <2>8. PICK t \in Nat : t = Cardinality(Times(f)) * sent[f] BY <2>5
  <2>9. t + Cardinality(Held(f)) + Cardinality(Flying(f)) <= sent[f] + dups
    BY <2>8 DEF CountInv, Paid
  <2>10. t + Cardinality(Held(f)') + Cardinality(Flying(f)) <= sent[f] + dups'
    BY <2>2, <2>5, <2>6, <2>7, <2>9, SMTT(40)
  <2> QED BY <1>0, <2>1, <2>3, <2>8, <2>10 DEF Paid
\* Of the frame itself, one chunk more is held.
<1>5. Paid(f0)'
  <2>1. /\ IsFiniteSet(Times(f0)) /\ Cardinality(Times(f0)) \in Nat
        /\ IsFiniteSet(Held(f0)) /\ Cardinality(Held(f0)) \in Nat
        /\ IsFiniteSet(Flying(f0)) /\ Cardinality(Flying(f0)) \in Nat
        /\ sent[f0] \in Nat /\ dups \in Nat
    BY CountedFinite DEF CountInv
  <2>2. /\ Cardinality(Flying(f0)') \in Nat /\ dups' \in Nat
        /\ Cardinality(Flying(f0)') + dups + 1 <= Cardinality(Flying(f0)) + dups'
    <3>1. CASE net' = net /\ dups' = dups + 1
      <4>1. Flying(f0)' = Flying(f0) BY <3>1 DEF Flying
      <4> QED BY <2>1, <3>1, <4>1
    <3>2. CASE net' = net \ {d} /\ dups' = dups
      <4>1. Flying(f0)' = Flying(f0) \ {d} /\ d \in Flying(f0) BY <1>d, <3>2 DEF Flying
      <4>2. /\ IsFiniteSet(Flying(f0) \ {d})
            /\ Cardinality(Flying(f0) \ {d}) = Cardinality(Flying(f0)) - 1
        BY <2>1, <4>1, FS_RemoveElement
      <4>3. Cardinality(Flying(f0) \ {d}) \in Nat BY <4>2, FS_CardinalityType
      <4> QED BY <2>1, <3>2, <4>1, <4>2, <4>3
    <3> QED BY <3>1, <3>2 DEF Deliver
  <2>3. /\ IsFiniteSet(DOMAIN new.parts) /\ Cardinality(DOMAIN new.parts) \in Nat
        /\ Cardinality(DOMAIN new.parts) <= Cardinality(Held(f0)) + 1
    <3>1. DOMAIN new.parts \in SUBSET (Held(f0) \cup {i0}) BY <1>h
    <3>2. /\ IsFiniteSet(Held(f0) \cup {i0})
          /\ Cardinality(Held(f0) \cup {i0}) =
                IF i0 \in Held(f0) THEN Cardinality(Held(f0)) ELSE Cardinality(Held(f0)) + 1
      BY <2>1, FS_AddElement
    <3>3. /\ IsFiniteSet(DOMAIN new.parts)
          /\ Cardinality(DOMAIN new.parts) <= Cardinality(Held(f0) \cup {i0})
      BY <3>1, <3>2, FS_Subset
    <3>4. Cardinality(DOMAIN new.parts) \in Nat BY <3>3, FS_CardinalityType
    <3> QED BY <2>1, <3>2, <3>3, <3>4
  <2>4. PICK t \in Nat : t = Cardinality(Times(f0)) * sent[f0] BY <2>1
  <2>5. t + Cardinality(Held(f0)) + Cardinality(Flying(f0)) <= sent[f0] + dups
    BY <2>4 DEF CountInv, Paid
  <2>6. CASE new.received = new.total
    <3>1. sent[f0] <= Cardinality(Held(f0)) + 1
      <4>1. f0 - 1 + 1 = f0 BY DEF SentOK
      <4>2. Cardinality(DOMAIN new.parts) = sent[f0] BY <2>6, <4>1 DEF EntryOK
      <4> QED BY <2>3, <4>2
    <3>2. pending'[f0 - 1] = Vacant BY <1>i, <1>3, <2>6
    <3>3. Held(f0)' = {} /\ Cardinality({}) = 0 BY <3>2, FS_EmptySet DEF Held
    <3>4. Cardinality(Times(f0)') = Cardinality(Times(f0)) + 1
      <4>1. outs' = Append(outs, Frame(f0)) BY <2>6
      <4>2. DOMAIN outs' = DOMAIN outs \cup {Len(outs) + 1} /\ Len(outs) + 1 \notin DOMAIN outs
            /\ (\A k \in DOMAIN outs : outs'[k] = outs[k]) /\ outs'[Len(outs) + 1] = Frame(f0)
        BY <1>2, <4>1
      <4>3. Times(f0)' = {k \in DOMAIN outs' : outs'[k] = Frame(f0)} BY <1>1 DEF Times
      <4>4. Times(f0)' = Times(f0) \cup {Len(outs) + 1} /\ Len(outs) + 1 \notin Times(f0)
        BY <4>2, <4>3 DEF Times
      <4> QED BY <2>1, <4>4, FS_AddElement
    <3>5. (Cardinality(Times(f0)) + 1) * sent[f0] = t + sent[f0]
      BY <2>1, <2>4, OneMore
    <3>6. t + sent[f0] + 0 + Cardinality(Flying(f0)') <= sent[f0] + dups'
      BY <2>1, <2>2, <2>5, <3>1, Balance
    <3> QED BY <1>0, <3>3, <3>4, <3>5, <3>6 DEF Paid
  <2>7. CASE new.received # new.total
    <3>1. Times(f0)' = Times(f0) BY <1>1, <2>7 DEF Times
    <3>2. pending'[f0 - 1] = new BY <1>i, <1>3, <2>7
    <3>3. new # Vacant BY VacantParts
    <3>4. Held(f0)' = DOMAIN new.parts BY <3>2, <3>3 DEF Held
    <3>5. t + Cardinality(DOMAIN new.parts) + Cardinality(Flying(f0)') <= sent[f0] + dups'
      <4>1. PICK x \in Nat : x = Cardinality(DOMAIN new.parts) BY <2>3
      <4>2. PICK h \in Nat : h = Cardinality(Held(f0)) BY <2>1
      <4>3. PICK g \in Nat : g = Cardinality(Flying(f0)) BY <2>1
      <4>4. PICK g2 \in Nat : g2 = Cardinality(Flying(f0)') BY <2>2
      <4>5. t + h + g <= sent[f0] + dups /\ g2 + dups + 1 <= g + dups' /\ x <= h + 1
        BY <2>2, <2>3, <2>5, <4>1, <4>2, <4>3, <4>4
      <4>6. t + x + g2 <= sent[f0] + dups'
        BY <2>1, <2>2, <4>5, Balance
      <4> QED BY <4>1, <4>4, <4>6
    <3> QED BY <1>0, <2>4, <3>1, <3>4, <3>5 DEF Paid
  <2> QED BY <2>6, <2>7
<1>6. dups' \in Nat BY DEF Deliver, CountInv
<1> QED BY <1>0, <1>4, <1>5, <1>6 DEF CountInv

\* Every step keeps the count.
LEMMA CountStep ==
  ASSUME NoWrap, ChunkInv, CountInv, [Next]_vars
  PROVE  CountInv'
<1>1. ASSUME NEW n \in 1 .. MaxLen, NEW k \in 0 .. n, SendChunked(n, k) PROVE CountInv'
  BY <1>1, CountSend
<1>2. ASSUME NEW d \in net, Lose(d) PROVE CountInv'
  <2>1. net' \subseteq net /\ UNCHANGED <<sent, dups, pending, outs>> BY <1>2 DEF Lose
  <2>2. ASSUME NEW f \in 1 .. Len(sent) PROVE Paid(f)'
    <3>1. Times(f)' = Times(f) /\ Held(f)' = Held(f) BY <2>1 DEF Times, Held, Frame
    <3>2. Flying(f)' \in SUBSET Flying(f) BY <2>1 DEF Flying
    <3>3. /\ Cardinality(Times(f)) \in Nat /\ Cardinality(Held(f)) \in Nat /\ sent[f] \in Nat
          /\ IsFiniteSet(Flying(f)) /\ Cardinality(Flying(f)) \in Nat
      BY CountedFinite
    <3>4. IsFiniteSet(Flying(f)') /\ Cardinality(Flying(f)') <= Cardinality(Flying(f))
      BY <3>2, <3>3, FS_Subset
    <3>5. Cardinality(Flying(f)') \in Nat BY <3>4, FS_CardinalityType
    <3>6. PICK t \in Nat : t = Cardinality(Times(f)) * sent[f] BY <3>3
    <3>7. t + Cardinality(Held(f)) + Cardinality(Flying(f)) <= sent[f] + dups /\ dups \in Nat
      BY <3>6 DEF CountInv, Paid
    <3>8. t + Cardinality(Held(f)) + Cardinality(Flying(f)') <= sent[f] + dups
      BY <3>3, <3>4, <3>5, <3>7
    <3> QED BY <2>1, <3>1, <3>6, <3>8 DEF Paid
  <2> QED BY <2>1, <2>2 DEF CountInv
<1>3. ASSUME NEW d \in net, Deliver(d) PROVE CountInv'
  BY <1>3, CountDeliver
<1>4. CASE UNCHANGED vars
  BY <1>4 DEF vars, CountInv, Paid, Times, Held, Flying, Frame
<1> QED BY <1>1, <1>2, <1>3, <1>4 DEF Next

\* As long as no header field wraps, reasm_feed hands out a frame again only
\* for as many repeated datagrams as the frame has chunks.
THEOREM FramesNotRepeated ==
  ASSUME NoWrap PROVE Spec => []NoRedelivery
<1>1. Init => CountInv
  BY DEF Init, CountInv
<1>2. ChunkInv /\ CountInv /\ [Next]_vars => CountInv' BY CountStep
<1>3. ChunkInv /\ CountInv => NoRedelivery
  <2> SUFFICES ASSUME ChunkInv, CountInv, NEW f \in DOMAIN sent
               PROVE  Cardinality(Times(f)) * sent[f] <= sent[f] + dups
    BY DEF NoRedelivery, Times
  <2>1. f \in 1 .. Len(sent) BY DEF ChunkInv, SentOK
  <2>2. /\ Cardinality(Times(f)) \in Nat /\ Cardinality(Held(f)) \in Nat
        /\ Cardinality(Flying(f)) \in Nat /\ sent[f] \in Nat
    BY <2>1, CountedFinite
  <2>3. PICK t \in Nat : t = Cardinality(Times(f)) * sent[f] BY <2>2
  <2>4. t + Cardinality(Held(f)) + Cardinality(Flying(f)) <= sent[f] + dups /\ dups \in Nat
    BY <2>1, <2>3 DEF CountInv, Paid
  <2>5. t <= sent[f] + dups BY <2>2, <2>4
  <2> QED BY <2>3, <2>5
<1> QED BY <1>1, <1>2, <1>3, ChunkInvariant, PTL DEF Spec

-----------------------------------------------------------------------------
\* A header field, cut to its width, stays within it, wrapped or not.
LEMMA ModInRange ==
  ASSUME NEW a \in Nat, NEW m \in Nat \ {0}
  PROVE  a % m \in 0 .. m - 1
  OBVIOUS

\* Frames, datagrams and the map keep their types: also when ids and lengths
\* wrap, a header is within its 32 and 16 bits and the map within the ids.
THEOREM ChunkTypes == Spec => []TypeOK
<1>1. Init => TypeOK
  <2> SUFFICES ASSUME Init PROVE TypeOK OBVIOUS
  <2>1. sent \in Seq(1 .. MaxLen) /\ Len(sent) = 0 BY DEF Init
  <2>2. net = {} /\ DOMAIN pending = Ids BY DEF Init
  <2>3. dups \in 0 .. MaxDup BY ChunkAssumption DEF Init
  <2>4. dead \in BOOLEAN BY Zenon DEF Init
  <2> QED BY <2>1, <2>2, <2>3, <2>4, ChunkAssumption DEF TypeOK
<1>2. TypeOK /\ [Next]_vars => TypeOK'
  <2> SUFFICES ASSUME TypeOK, [Next]_vars PROVE TypeOK' OBVIOUS
  <2>1. ASSUME NEW n \in 1 .. MaxLen, NEW k \in 0 .. n, SendChunked(n, k) PROVE TypeOK'
    <3> DEFINE f == Len(sent) + 1
    <3>1. f \in 1 .. MaxFrames /\ f - 1 \in Nat /\ n \in Nat
      BY <2>1, ChunkAssumption DEF SendChunked, TypeOK
    <3>2. sent' \in Seq(1 .. MaxLen) /\ Len(sent') <= MaxFrames
      BY <2>1, <3>1 DEF SendChunked, TypeOK
    <3>3. \A i \in 0 .. k - 1 :
             Datagram(f, i, n) \in [id : Ids, total : 0 .. LenMod - 1, index : 0 .. LenMod - 1,
                                    body : (1 .. MaxFrames) \X Nat]
      <4> SUFFICES ASSUME NEW i \in 0 .. k - 1
                   PROVE  Datagram(f, i, n) \in [id : Ids, total : 0 .. LenMod - 1,
                                                 index : 0 .. LenMod - 1,
                                                 body : (1 .. MaxFrames) \X Nat]
        OBVIOUS
      <4>1. i \in Nat OBVIOUS
      <4>2. (f - 1) % IdMod \in Ids BY <3>1, ModInRange, ChunkAssumption DEF Ids
      <4>3. n % LenMod \in 0 .. LenMod - 1 /\ i % LenMod \in 0 .. LenMod - 1
        BY <3>1, <4>1, ModInRange, ChunkAssumption
      <4>4. <<f, i>> \in (1 .. MaxFrames) \X Nat BY <3>1, <4>1
      <4> HIDE DEF f
      <4> QED BY <4>2, <4>3, <4>4 DEF Datagram
    <3>4. net' \subseteq [id : Ids, total : 0 .. LenMod - 1, index : 0 .. LenMod - 1,
                          body : (1 .. MaxFrames) \X Nat]
      BY <2>1, <3>3 DEF SendChunked, TypeOK
    <3>5. dead' \in BOOLEAN /\ UNCHANGED <<dups, pending>> BY <2>1 DEF SendChunked
    <3> QED BY <3>2, <3>4, <3>5 DEF TypeOK
  <2>2. ASSUME NEW d \in net, Lose(d) PROVE TypeOK' BY <2>2 DEF Lose, TypeOK
  <2>3. ASSUME NEW d \in net, Deliver(d) PROVE TypeOK'
    <3>1. net' \subseteq net /\ dups' \in 0 .. MaxDup /\ UNCHANGED <<sent, dead>>
      BY <2>3, ChunkAssumption DEF Deliver, TypeOK
    <3>2. DOMAIN MakeRoom(d.id) = Ids BY DEF MakeRoom, TypeOK
    <3>3. DOMAIN pending' = Ids BY <2>3, <3>2 DEF Deliver, ReasmFeed, TypeOK
    <3> QED BY <3>1, <3>3 DEF TypeOK
  <2>4. CASE UNCHANGED vars BY <2>4 DEF vars, TypeOK
  <2> QED BY <2>1, <2>2, <2>3, <2>4 DEF Next
<1> QED BY <1>1, <1>2, PTL DEF Spec
=============================================================================
