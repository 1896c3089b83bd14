---------------------- MODULE AppSubscriptions_proofs ----------------------
(***************************************************************************)
(* Theorems about SendPath and AppSubscriptions, for any number of         *)
(* devices, links, threads and calls.                                      *)
(***************************************************************************)
EXTENDS AppSubscriptions, FiniteSetTheorems, SequenceTheorems, TLAPS

-----------------------------------------------------------------------------
\* One entry of a map of maps is set.
LEMMA ExceptFacts ==
  ASSUME NEW D, NEW L, NEW S, NEW f \in [D -> [L -> S]], NEW d \in D, NEW l \in L, NEW v \in S
  PROVE  /\ [f EXCEPT ![d][l] = v] \in [D -> [L -> S]]
         /\ [f EXCEPT ![d][l] = v][d][l] = v
         /\ \A x \in D, y \in L : x # d \/ y # l => [f EXCEPT ![d][l] = v][x][y] = f[x][y]
  OBVIOUS

-----------------------------------------------------------------------------
\* Queues of frame numbers.

Distinct(s) == \A i, j \in 1 .. Len(s) : s[i] = s[j] => i = j
Rising(s) == \A i, j \in 1 .. Len(s) : i < j => s[i] < s[j]

\* What is in a queue is at some place of it.
LEMMA RangeFacts ==
  ASSUME NEW S, NEW s \in Seq(S)
  PROVE  /\ \A x \in Range(s) : x \in S /\ \E i \in 1 .. Len(s) : s[i] = x
         /\ \A i \in 1 .. Len(s) : s[i] \in Range(s)
  BY DEF Range

\* A frame that is queued comes last.
LEMMA AppendFacts ==
  ASSUME NEW S, NEW s \in Seq(S), NEW x \in S
  PROVE  /\ Append(s, x) \in Seq(S) /\ Len(Append(s, x)) = Len(s) + 1
         /\ Append(s, x)[Len(s) + 1] = x
         /\ \A i \in 1 .. Len(s) : Append(s, x)[i] = s[i]
         /\ Range(Append(s, x)) = Range(s) \cup {x}
<1>1. /\ Append(s, x) \in Seq(S) /\ Len(Append(s, x)) = Len(s) + 1
      /\ Append(s, x)[Len(s) + 1] = x
      /\ \A i \in 1 .. Len(s) : Append(s, x)[i] = s[i]
  OBVIOUS
<1>2. ASSUME NEW y \in Range(Append(s, x)) PROVE y \in Range(s) \cup {x}
  <2>1. PICK i \in 1 .. Len(s) + 1 : Append(s, x)[i] = y BY <1>1, RangeFacts
  <2>2. CASE i = Len(s) + 1 BY <1>1, <2>1, <2>2
  <2>3. CASE i # Len(s) + 1
    <3>1. i \in 1 .. Len(s) BY <2>3
    <3> QED BY <1>1, <2>1, <3>1, RangeFacts
  <2> QED BY <2>2, <2>3
<1>3. ASSUME NEW y \in Range(s) \cup {x} PROVE y \in Range(Append(s, x))
  <2>1. CASE y = x
    <3>1. Append(s, x) \in Seq(S) /\ Len(s) + 1 \in 1 .. Len(Append(s, x)) BY <1>1
    <3>2. Append(s, x)[Len(s) + 1] \in Range(Append(s, x)) BY <3>1, RangeFacts
    <3> QED BY <1>1, <2>1, <3>2
  <2>2. CASE y \in Range(s)
    <3>1. PICK i \in 1 .. Len(s) : s[i] = y BY <2>2, RangeFacts
    <3>2. i \in 1 .. Len(Append(s, x)) BY <1>1
    <3> QED BY <1>1, <3>1, <3>2, RangeFacts
  <2> QED BY <2>1, <2>2
<1> QED BY <1>1, <1>2, <1>3

\* Taking a frame out leaves the others, in their order.
LEMMA RemoveAtFacts ==
  ASSUME NEW s \in Seq(Nat), NEW i \in 1 .. Len(s)
  PROVE  /\ RemoveAt(s, i) \in Seq(Nat) /\ Len(RemoveAt(s, i)) = Len(s) - 1
         /\ \A j \in 1 .. Len(s) - 1 : RemoveAt(s, i)[j] = IF j < i THEN s[j] ELSE s[j + 1]
<1> DEFINE a == SubSeq(s, 1, i - 1)
           b == SubSeq(s, i + 1, Len(s))
<1>1. a \in Seq(Nat) /\ Len(a) = i - 1 /\ \A j \in 1 .. i - 1 : a[j] = s[j]
  OBVIOUS
<1>2. b \in Seq(Nat) /\ Len(b) = Len(s) - i /\ \A j \in 1 .. Len(s) - i : b[j] = s[i + j]
  OBVIOUS
<1>3. RemoveAt(s, i) = a \o b BY DEF RemoveAt
<1> HIDE DEF a, b
<1>4. Len(s) \in Nat OBVIOUS
<1>5. /\ a \o b \in Seq(Nat) /\ Len(a \o b) = Len(s) - 1
      /\ \A j \in 1 .. Len(s) - 1 : (a \o b)[j] = IF j <= i - 1 THEN a[j] ELSE b[j - (i - 1)]
  <2>1. Len(a) + Len(b) = Len(s) - 1 BY <1>1, <1>2, <1>4
  <2>2. a \in Seq(Nat) /\ b \in Seq(Nat) /\ Len(a) = i - 1 BY <1>1, <1>2
  <2>3. /\ a \o b \in Seq(Nat) /\ Len(a \o b) = Len(a) + Len(b)
        /\ \A j \in 1 .. Len(a) + Len(b) :
              (a \o b)[j] = IF j <= Len(a) THEN a[j] ELSE b[j - Len(a)]
    BY <2>2, ConcatProperties
  <2> QED BY <2>1, <2>2, <2>3
<1>6. ASSUME NEW j \in 1 .. Len(s) - 1, j < i PROVE (a \o b)[j] = s[j]
  <2>1. j \in 1 .. i - 1 /\ j <= i - 1 BY <1>4, <1>6
  <2> QED BY <1>1, <1>5, <2>1
<1>7. ASSUME NEW j \in 1 .. Len(s) - 1, ~(j < i) PROVE (a \o b)[j] = s[j + 1]
  <2>1. /\ ~(j <= i - 1) /\ j - (i - 1) \in 1 .. Len(s) - i /\ i + (j - (i - 1)) = j + 1
    BY <1>4, <1>7
  <2>2. (a \o b)[j] = b[j - (i - 1)] BY <1>5, <2>1
  <2> QED BY <1>2, <2>1, <2>2
<1> QED BY <1>3, <1>5, <1>6, <1>7

\* RemoveAt takes out one element, and leaves the others in their order.
LEMMA RemovedFacts ==
  ASSUME NEW s \in Seq(Nat), Distinct(s), NEW i \in 1 .. Len(s)
  PROVE  /\ Range(RemoveAt(s, i)) = Range(s) \ {s[i]}
         /\ Distinct(RemoveAt(s, i))
         /\ Rising(s) => Rising(RemoveAt(s, i))
<1> DEFINE r == RemoveAt(s, i)
           at(j) == IF j < i THEN j ELSE j + 1
<1>1. /\ r \in Seq(Nat) /\ Len(r) = Len(s) - 1 /\ Len(s) \in Nat
      /\ \A j \in 1 .. Len(r) : at(j) \in 1 .. Len(s) /\ at(j) # i /\ r[j] = s[at(j)]
  <2>1. Len(s) \in Nat /\ r \in Seq(Nat) /\ Len(r) = Len(s) - 1 BY RemoveAtFacts
  <2>2. ASSUME NEW j \in 1 .. Len(r)
        PROVE  at(j) \in 1 .. Len(s) /\ at(j) # i /\ r[j] = s[at(j)]
    <3>1. j \in 1 .. Len(s) - 1 BY <2>1
    <3>2. r[j] = IF j < i THEN s[j] ELSE s[j + 1] BY <3>1, RemoveAtFacts
    <3> QED BY <2>1, <3>1, <3>2
  <2> QED BY <2>1, <2>2
<1>2. \A j, k \in 1 .. Len(r) : (at(j) = at(k) => j = k) /\ (j < k => at(j) < at(k))
  BY <1>1
<1>3. \A k \in 1 .. Len(s) : k # i => \E j \in 1 .. Len(r) : at(j) = k
  <2>1. ASSUME NEW k \in 1 .. Len(s), k < i PROVE k \in 1 .. Len(r) /\ at(k) = k BY <1>1, <2>1
  <2>2. ASSUME NEW k \in 1 .. Len(s), k > i PROVE k - 1 \in 1 .. Len(r) /\ at(k - 1) = k
    BY <1>1, <2>2
  <2>3. \A k \in 1 .. Len(s) : k # i => k < i \/ k > i OBVIOUS
  <2> QED BY <2>1, <2>2, <2>3
<1> HIDE DEF r, at
<1>4. Distinct(r) BY <1>1, <1>2 DEF Distinct
<1>5. Rising(s) => Rising(r) BY <1>1, <1>2 DEF Rising
<1>6. Range(r) \subseteq Range(s) \ {s[i]}
  <2> SUFFICES ASSUME NEW x \in Range(r) PROVE x \in Range(s) /\ x # s[i] OBVIOUS
  <2>1. PICK j \in 1 .. Len(r) : r[j] = x BY <1>1, RangeFacts
  <2>2. at(j) \in 1 .. Len(s) /\ at(j) # i /\ x = s[at(j)] BY <1>1, <2>1
  <2> QED BY <2>2, RangeFacts DEF Distinct
<1>7. Range(s) \ {s[i]} \subseteq Range(r)
  <2> SUFFICES ASSUME NEW x \in Range(s), x # s[i] PROVE x \in Range(r) OBVIOUS
  <2>1. PICK k \in 1 .. Len(s) : s[k] = x BY RangeFacts
  <2>2. PICK j \in 1 .. Len(r) : at(j) = k BY <1>3, <2>1
  <2> QED BY <1>1, <2>1, <2>2, RangeFacts
<1> QED BY <1>4, <1>5, <1>6, <1>7 DEF r

\* The first frame of a queue, and those behind it.
LEMMA TailFacts ==
  ASSUME NEW s \in Seq(Nat), s # <<>>, Distinct(s)
  PROVE  /\ Head(s) \in Nat /\ Tail(s) \in Seq(Nat)
         /\ Range(s) = Range(Tail(s)) \cup {Head(s)} /\ Head(s) \notin Range(Tail(s))
         /\ Distinct(Tail(s))
         /\ Rising(s) => Rising(Tail(s)) /\ \A x \in Range(Tail(s)) : Head(s) < x
<1>1. /\ Len(s) \in Nat /\ Len(s) > 0 /\ Head(s) = s[1] /\ Tail(s) \in Seq(Nat)
      /\ Len(Tail(s)) = Len(s) - 1 /\ \A j \in 1 .. Len(Tail(s)) : Tail(s)[j] = s[j + 1]
  OBVIOUS
<1>2. \A j \in 1 .. Len(Tail(s)) : j + 1 \in 1 .. Len(s) /\ j + 1 > 1 BY <1>1
<1>3. \A k \in 1 .. Len(s) : k # 1 => k - 1 \in 1 .. Len(Tail(s)) /\ s[k] = Tail(s)[k - 1]
  BY <1>1
<1>4. \A x \in Range(Tail(s)) : \E k \in 1 .. Len(s) : k > 1 /\ x = s[k]
  <2> SUFFICES ASSUME NEW x \in Range(Tail(s))
               PROVE  \E k \in 1 .. Len(s) : k > 1 /\ x = s[k]
    OBVIOUS
  <2> DEFINE t == Tail(s)
  <2>0. t \in Seq(Nat) /\ x \in Range(t) BY <1>1
  <2> HIDE DEF t
  <2>1. PICK j \in 1 .. Len(t) : t[j] = x BY <2>0, RangeFacts
  <2> QED BY <1>1, <1>2, <2>1 DEF t
<1>5. 1 \in 1 .. Len(s) BY <1>1
<1>6. Head(s) \in Nat /\ Head(s) \in Range(s) BY <1>1, <1>5, RangeFacts
<1>7. Range(s) = Range(Tail(s)) \cup {Head(s)}
  <2>1. ASSUME NEW x \in Range(s) PROVE x \in Range(Tail(s)) \cup {Head(s)}
    <3>1. PICK k \in 1 .. Len(s) : s[k] = x BY RangeFacts
    <3> QED BY <1>1, <1>3, <3>1, RangeFacts
  <2>2. Range(Tail(s)) \subseteq Range(s) BY <1>4, RangeFacts
  <2> QED BY <1>6, <2>1, <2>2
<1>8. Head(s) \notin Range(Tail(s)) BY <1>1, <1>4, <1>5 DEF Distinct
<1>9. Distinct(Tail(s)) BY <1>1, <1>2 DEF Distinct
<1>10. Rising(s) => Rising(Tail(s)) BY <1>1, <1>2 DEF Rising
<1>11. Rising(s) => \A x \in Range(Tail(s)) : Head(s) < x BY <1>1, <1>4, <1>5 DEF Rising
<1> QED BY <1>1, <1>6, <1>7, <1>8, <1>9, <1>10, <1>11

-----------------------------------------------------------------------------
\* Types.

Lists == [apps : SUBSET Packages, ask : Nat, origin : Nat, subscribed : SUBSET Packages]
Bodies == {None} \cup Packages \cup (SUBSET Packages) \cup Lists
Texts == {x \in [type : Types, body : Bodies] :
             x.type = "subscribe_apps" => x.body \in SUBSET Packages}
JobRecs == [pc : {"idle", "send", "queue", "garbled", "done"}, dev : Devices \cup {None},
            todo : SUBSET Devices, to : Devices \cup {None}, text : Texts \cup {None},
            via : Links \cup {"WS", "UDP", "TCP", None}, key : Keys \cup {None},
            frame : Nat, ended : SUBSET Links]
Results == {"ok", "no key", "no link", "no peer", "failed", "closed"}
SentRecs == [from : Devices, to : Devices, text : Texts, via : Links \cup {"UDP", "TCP", None},
             key : Keys \cup {None}, res : Results, ended : BOOLEAN]
GotRecs == [frame : Nat, as : {"chat", "control", "locked"}]

\* A thread has what its next step needs.
JobOK(t) ==
    /\ job[t].pc \in {"send", "queue"} =>
          job[t].dev \in Devices /\ job[t].to \in Devices /\ job[t].text \in Texts
    /\ job[t].pc = "send" => job[t].via \in {"WS", "UDP", "TCP"}
    /\ job[t].pc = "queue" => job[t].via \in Links /\ job[t].key \in Keys
    /\ job[t].pc = "garbled" => t \in Receivers /\ job[t].frame \in Frames

SentOK(n) == IF Ok(n) THEN sent[n].via \in Links \cup {"UDP", "TCP"} /\ sent[n].key \in Keys
             ELSE sent[n].via = None

LinkTypes ==
    /\ slot \in [Devices -> [Devices -> Links \cup {None}]]
    /\ stage \in [Devices -> [Links -> {"new", "up", "closing", "left", "gone"}]]
    /\ queue \in [Devices -> [Links -> Seq(Nat)]] /\ wire \in [Devices -> [Links -> Seq(Nat)]]
    /\ air \subseteq Nat

SettingTypes ==
    /\ used \in Scenarios /\ changes \in 0 .. used.changes /\ repeats \in 0 .. used.repeats
    /\ key \in [Devices -> Keys \cup {None}] /\ directed \in [Devices -> {"UDP", "TCP"}]
    /\ installed \in [Devices -> SUBSET Packages]

SentTypes ==
    /\ job \in [Threads -> JobRecs] /\ \A t \in Threads : JobOK(t)
    /\ sent \in Seq(SentRecs) /\ \A n \in Frames : SentOK(n)

HandledTypes ==
    /\ got \in [Devices -> Seq(GotRecs)]
    /\ subs \in [Devices -> [Devices -> {None} \cup SUBSET Packages]]
    /\ origin \in [Devices -> [Devices -> Nat]]

Typed == LinkTypes /\ SettingTypes /\ SentTypes /\ HandledTypes

\* What a thread may do next once it has text for the devices todo.
NextJob(j, d, todo, text) ==
    IF todo = {} THEN j.pc \in {"idle", "done"}
    ELSE /\ j.pc = "send" /\ j.dev = d /\ j.to \in todo /\ j.todo = todo \ {j.to} /\ j.text = text
         /\ j.via = best_proto(d, j.to) /\ j.ended = Ended(d)

\* A link joins two devices.
LEMMA PairFacts ==
  ASSUME NEW x \in Ends
  PROVE  /\ x[1] \in Devices /\ x[2] \in Links /\ x = <<x[1], x[2]>>
         /\ Other(x[2], x[1]) \in Devices /\ Other(x[2], x[1]) # x[1]
         /\ <<Other(x[2], x[1]), x[2]>> \in Ends
         /\ Other(x[2], Other(x[2], x[1])) = x[1]
<1>1. x[1] \in Devices /\ x[2] \in Links /\ x = <<x[1], x[2]>> /\ x[1] \in Pair[x[2]]
  BY DEF Ends
<1>2. PICK d, e \in Devices : d # e /\ Pair[x[2]] = {d, e} BY <1>1, SendAssumption
<1>3. PICK y \in Devices : y # x[1] /\ Pair[x[2]] = {x[1], y} BY <1>1, <1>2
<1>4. Other(x[2], x[1]) = y BY <1>3 DEF Other
<1>5. Other(x[2], y) = x[1] BY <1>3 DEF Other
<1>6. <<y, x[2]>> \in Ends BY <1>1, <1>3 DEF Ends
<1> QED BY <1>1, <1>3, <1>4, <1>5, <1>6

\* A thread with nothing to do has a job record all the same.
LEMMA IdleFacts == Idle \in JobRecs /\ Idle.pc = "idle" /\ Idle.todo = {}
  BY DEF Idle, JobRecs

\* Jobs gives records of the right type.
LEMMA JobsFacts ==
  ASSUME Typed, NEW t, NEW d \in Devices, NEW todo \in SUBSET Devices, NEW text \in Texts,
         NEW j \in Jobs(t, d, todo, text)
  PROVE  j \in JobRecs /\ NextJob(j, d, todo, text)
         /\ (j.pc = "send" => j.via \in {"WS", "UDP", "TCP"})
<1>1. CASE todo = {}
  <2>1. j = [Idle EXCEPT !.pc = IF t \in Calls THEN "done" ELSE "idle"] BY <1>1 DEF Jobs
  <2>2. j \in JobRecs /\ j.pc \in {"idle", "done"} BY <2>1, IdleFacts DEF JobRecs
  <2> QED BY <1>1, <2>2 DEF NextJob
<1>2. CASE todo # {}
  <2>1. PICK e \in todo : j = [Idle EXCEPT !.pc = "send", !.dev = d, !.to = e,
                       !.todo = todo \ {e}, !.text = text,
                       !.via = best_proto(d, e), !.ended = Ended(d)]
    BY <1>2 DEF Jobs
  <2>2. best_proto(d, e) \in {"WS", "UDP", "TCP"}
    BY DEF best_proto, Typed, SettingTypes
  <2>3. Ended(d) \in SUBSET Links BY DEF Ended
  <2>4. j = [pc |-> "send", dev |-> d, todo |-> todo \ {e}, to |-> e, text |-> text,
             via |-> best_proto(d, e), key |-> None, frame |-> 0, ended |-> Ended(d)]
    BY <2>1 DEF Idle
  <2> QED BY <1>2, <2>2, <2>3, <2>4 DEF JobRecs, NextJob
<1> QED BY <1>1, <1>2

-----------------------------------------------------------------------------
\* The steps by what they do to messages and links.

core == <<links, air, job, sent, got, subs, origin>>

\* Thread t has sent r, or failed to, and goes on with j.
Sending(t, r, j) ==
    /\ t \in Threads /\ job[t].pc \in {"send", "queue"}
    /\ r \in SentRecs /\ sent' = Append(sent, r)
    /\ r.from = job[t].dev /\ r.to = job[t].to /\ r.text = job[t].text
    /\ r.ended = (r.res # "ok" /\ Ended(job[t].dev) # job[t].ended)
    /\ IF r.res = "ok" THEN r.via \in Links \cup {"UDP", "TCP"} /\ r.key \in Keys ELSE r.via = None
    /\ j \in JobRecs /\ job' = [job EXCEPT ![t] = j]
    /\ NextJob(j, job[t].dev, job[t].todo, job[t].text)
    /\ j.pc = "send" => j.via \in {"WS", "UDP", "TCP"}

\* The send is refused or fails.
Refuses(t) == \E r \in SentRecs, j \in JobRecs :
    /\ Sending(t, r, j) /\ r.res # "ok"
    /\ r.res = "no link" => /\ job[t].pc = "send" /\ job[t].via = "WS"
                            /\ slot[job[t].dev][job[t].to] = None
    /\ r.res = "closed" => job[t].pc = "queue" /\ stage[job[t].dev][job[t].via] = "gone"
    /\ UNCHANGED <<links, air, got, subs, origin>>

\* It goes out by TCP or UDP.
SendsDirect(t) == \E r \in SentRecs, j \in JobRecs :
    /\ Sending(t, r, j) /\ r.res = "ok" /\ r.via \in {"UDP", "TCP"}
    /\ air' = air \cup {Len(sent) + 1}
    /\ UNCHANGED <<links, got, subs, origin>>

\* It is queued on the driver's channel.
Queues(t) == \E r \in SentRecs, j \in JobRecs :
    LET d == job[t].dev
        l == job[t].via IN
    /\ Sending(t, r, j) /\ r.res = "ok" /\ r.via = l
    /\ job[t].pc = "queue" /\ stage[d][l] # "gone"
    /\ queue' = [queue EXCEPT ![d][l] = Append(@, Len(sent) + 1)]
    /\ UNCHANGED <<slot, stage, wire, air, got, subs, origin>>

\* It has found the slot.
Finds(t) == \E j \in JobRecs :
    /\ t \in Threads /\ job[t].pc = "send" /\ job[t].via = "WS"
    /\ slot[job[t].dev][job[t].to] # None
    /\ job' = [job EXCEPT ![t] = j] /\ j.pc = "queue"
    /\ j.dev = job[t].dev /\ j.to = job[t].to /\ j.todo = job[t].todo /\ j.text = job[t].text
    /\ j.ended = job[t].ended /\ j.via = slot[job[t].dev][job[t].to] /\ j.key \in Keys
    /\ UNCHANGED <<links, air, sent, got, subs, origin>>

\* A call begins; a notification of an app is for those who want it.
Begins(t) == \E d \in Devices, todo \in SUBSET Devices, text \in Texts, j \in JobRecs :
    /\ t \in Threads /\ job[t].pc = "idle"
    /\ job' = [job EXCEPT ![t] = j]
    /\ NextJob(j, d, todo, text) /\ (j.pc = "send" => j.via \in {"WS", "UDP", "TCP"})
    /\ text.type # "apps_list"
    /\ text.type = "notification" /\ text.body # None =>
          \A e \in todo : subs[d][e] # None /\ text.body \in subs[d][e]
    /\ UNCHANGED <<links, air, sent, got, subs, origin>>

\* A link comes up, writes, closes or goes.
LinkStep(d, l) == /\ Register(d, l) \/ Flush(d, l) \/ Close(d, l) \/ Release(d, l) \/ DropRx(d, l)
                  /\ UNCHANGED <<subs, origin>>

\* Receiver r takes frame n off its link or its socket.
Takes(r, n) ==
    /\ r \in Receivers /\ n \in Frames /\ job[r].pc = "idle"
    /\ Read(r, n) \/ RecvLoop(r, n)
    /\ sent' = sent

\* It cannot open it.
Garbles(r, n) ==
    /\ Takes(r, n)
    /\ \E j \in JobRecs : /\ job' = [job EXCEPT ![r] = j]
                          /\ j.pc = "garbled" /\ j.frame = n
    /\ UNCHANGED <<got, subs, origin>>

\* It handles it, and may have an answer to send.
Handles(r, n, as) == \E todo \in SUBSET Devices, text \in Texts, j \in JobRecs :
    LET d == r[1]
        from == sent[n].from IN
    /\ Takes(r, n)
    /\ as \in {"chat", "control"} /\ Done(r, n, as)
    /\ job' = [job EXCEPT ![r] = j]
    /\ NextJob(j, d, todo, text) /\ (j.pc = "send" => j.via \in {"WS", "UDP", "TCP"})
    /\ todo # {} => /\ as = "control" /\ sent[n].text.type = "apps_request"
                    /\ todo = {from} /\ text = AppsList(d, from, n)
    /\ IF as = "control" /\ sent[n].text.type = "subscribe_apps"
       THEN /\ subs' = [subs EXCEPT ![d][from] = sent[n].text.body]
            /\ origin' = [origin EXCEPT ![d][from] = n]
       ELSE UNCHANGED <<subs, origin>>

\* What it could not open it shows.
Shows(r) ==
    /\ r \in Receivers /\ job[r].pc = "garbled"
    /\ \E as \in {"chat", "locked"} : Done(r, job[r].frame, as)
    /\ job' = [job EXCEPT ![r] = Idle]
    /\ UNCHANGED <<links, air, sent, subs, origin>>

\* Returning from send_payload.
LEMMA ReturnFacts ==
  ASSUME Typed, NEW t \in Threads, job[t].pc \in {"send", "queue"},
         NEW via \in Links \cup {"UDP", "TCP", None}, NEW k \in Keys \cup {None},
         NEW res \in Results, Return(t, via, k, res),
         res = "ok" => via \in Links \cup {"UDP", "TCP"} /\ k \in Keys,
         res # "ok" => via = None
  PROVE  \E r \in SentRecs, j \in JobRecs : Sending(t, r, j) /\ r.via = via /\ r.res = res
<1> DEFINE jt == job[t]
           b == res # "ok" /\ Ended(jt.dev) # jt.ended
           r == [from |-> jt.dev, to |-> jt.to, text |-> jt.text, via |-> via, key |-> k,
                 res |-> res, ended |-> b]
<1>1. jt \in JobRecs /\ jt.dev \in Devices /\ jt.to \in Devices /\ jt.text \in Texts
  BY DEF Typed, SentTypes, JobOK
<1>2. jt.todo \in SUBSET Devices BY <1>1 DEF JobRecs
<1>3. b \in BOOLEAN OBVIOUS
<1>5. sent' = Append(sent, r) BY DEF Return
<1>6. PICK j \in Jobs(t, jt.dev, jt.todo, jt.text) : job' = [job EXCEPT ![t] = j]
  BY DEF Return
<1>7. j \in JobRecs /\ NextJob(j, jt.dev, jt.todo, jt.text)
      /\ (j.pc = "send" => j.via \in {"WS", "UDP", "TCP"})
  BY <1>1, <1>2, JobsFacts
<1> HIDE DEF b
<1>8. r \in SentRecs BY <1>1, <1>3 DEF SentRecs
<1>9. Sending(t, r, j) BY <1>5, <1>6, <1>7, <1>8 DEF Sending, b
<1>10. r.via = via /\ r.res = res OBVIOUS
<1> HIDE DEF r
<1> QED BY <1>7, <1>8, <1>9, <1>10

\* A send that fails is recorded with the error it returned.
LEMMA RefusalFacts ==
  ASSUME Typed, NEW t \in Threads, job[t].pc \in {"send", "queue"}, NEW k \in Keys \cup {None},
         NEW res \in Results \ {"ok"}, Return(t, None, k, res)
  PROVE  \E r \in SentRecs, j \in JobRecs : Sending(t, r, j) /\ r.res = res
<1>1. res \in Results /\ res # "ok" OBVIOUS
<1>2. None \in Links \cup {"UDP", "TCP", None} OBVIOUS
<1> QED BY <1>1, <1>2, ReturnFacts

\* send_payload refuses, sends, or has found a slot.
LEMMA SendPayloadCases ==
  ASSUME Typed, NEW t \in Threads, SendPayload(t), UNCHANGED appVars
  PROVE  Refuses(t) \/ SendsDirect(t) \/ Finds(t)
<1> DEFINE d == job[t].dev
           e == job[t].to
<1>1. /\ job[t].pc = "send" /\ job[t] \in JobRecs /\ d \in Devices /\ e \in Devices
      /\ job[t].via \in {"WS", "UDP", "TCP"} /\ UNCHANGED <<links, got, subs, origin>>
      /\ job \in [Threads -> JobRecs]
  BY DEF SendPayload, Typed, SentTypes, JobOK, appVars
<1>2. key[d] \in Keys \cup {None} BY <1>1 DEF Typed, SettingTypes
<1>3. slot[d][e] \in Links \cup {None} BY <1>1 DEF Typed, LinkTypes
<1>4. ASSUME key[d] = None, Return(t, None, None, "no key"), UNCHANGED air PROVE Refuses(t)
  <2>1. \E r \in SentRecs, j \in JobRecs : Sending(t, r, j) /\ r.res = "no key"
    <3>1. /\ job[t].pc \in {"send", "queue"} /\ None \in Keys \cup {None} /\ "no key" \in Results \ {"ok"}
      BY <1>1 DEF Results
    <3> QED BY <1>4, <3>1, RefusalFacts
  <2> QED BY <1>1, <1>4, <2>1 DEF Refuses
<1>5. ASSUME key[d] # None, job[t].via = "WS", slot[d][e] = None,
             Return(t, None, key[d], "no link"), UNCHANGED air
      PROVE  Refuses(t)
  <2>1. \E r \in SentRecs, j \in JobRecs : Sending(t, r, j) /\ r.res = "no link"
    <3>1. /\ job[t].pc \in {"send", "queue"} /\ "no link" \in Results \ {"ok"}
      BY <1>1 DEF Results
    <3> QED BY <1>2, <1>5, <3>1, RefusalFacts
  <2> QED BY <1>1, <1>5, <2>1 DEF Refuses
<1>6. ASSUME key[d] # None, job[t].via = "WS", slot[d][e] # None,
             job' = [job EXCEPT ![t].pc = "queue", ![t].via = slot[d][e], ![t].key = key[d]],
             UNCHANGED <<sent, air>>
      PROVE  Finds(t)
  <2> DEFINE j == [job[t] EXCEPT !.pc = "queue", !.via = slot[d][e], !.key = key[d]]
  <2>1. job' = [job EXCEPT ![t] = j] BY <1>1, <1>6
  <2>2. /\ j \in JobRecs /\ j.pc = "queue" /\ j.dev = d /\ j.to = e /\ j.todo = job[t].todo
        /\ j.text = job[t].text /\ j.ended = job[t].ended /\ j.via = slot[d][e]
        /\ j.key = key[d]
    BY <1>1, <1>2, <1>3 DEF JobRecs
  <2>3. key[d] \in Keys BY <1>2, <1>6
  <2> HIDE DEF j
  <2> QED BY <1>1, <1>6, <2>1, <2>2, <2>3 DEF Finds
<1>7. ASSUME key[d] # None, NEW res \in {"no peer", "failed"}, Return(t, None, key[d], res),
             UNCHANGED air
      PROVE  Refuses(t)
  <2>1. \E r \in SentRecs, j \in JobRecs : Sending(t, r, j) /\ r.res = res
    <3>1. /\ job[t].pc \in {"send", "queue"} /\ res \in Results \ {"ok"}
      BY <1>1, <1>7 DEF Results
    <3> QED BY <1>2, <1>7, <3>1, RefusalFacts
  <2> QED BY <1>1, <1>7, <2>1 DEF Refuses
<1>8. ASSUME key[d] # None, job[t].via # "WS", Return(t, job[t].via, key[d], "ok"),
             air' = air \cup {Len(sent) + 1}
      PROVE  SendsDirect(t)
  <2>1. \E r \in SentRecs, j \in JobRecs : Sending(t, r, j) /\ r.via = job[t].via /\ r.res = "ok"
    <3>1. /\ job[t].pc \in {"send", "queue"} /\ "ok" \in Results /\ key[d] \in Keys
          /\ job[t].via \in Links \cup {"UDP", "TCP"}
      BY <1>1, <1>2, <1>8 DEF Results
    <3> QED BY <1>2, <1>8, <3>1, ReturnFacts
  <2> QED BY <1>1, <1>8, <2>1 DEF SendsDirect
<1> QED BY <1>4, <1>5, <1>6, <1>7, <1>8 DEF SendPayload

\* sender.send fails if the driver has gone, or queues.
LEMMA EnqueueCases ==
  ASSUME Typed, NEW t \in Threads, Enqueue(t), UNCHANGED appVars PROVE Refuses(t) \/ Queues(t)
<1> DEFINE d == job[t].dev
           l == job[t].via
<1>1. /\ job[t].pc = "queue" /\ d \in Devices /\ l \in Links /\ job[t].key \in Keys
      /\ UNCHANGED <<slot, stage, wire, air, got, subs, origin>>
  BY DEF Enqueue, Typed, SentTypes, JobOK, appVars
<1>2. CASE stage[d][l] = "gone"
  <2>1. Return(t, None, job[t].key, "closed") /\ UNCHANGED queue BY <1>2 DEF Enqueue
  <2>2. \E r \in SentRecs, j \in JobRecs : Sending(t, r, j) /\ r.res = "closed"
    <3>1. /\ job[t].pc \in {"send", "queue"} /\ job[t].key \in Keys \cup {None}
          /\ "closed" \in Results \ {"ok"}
      BY <1>1 DEF Results
    <3> QED BY <2>1, <3>1, RefusalFacts
  <2> QED BY <1>1, <1>2, <2>1, <2>2 DEF Refuses, links
<1>3. CASE stage[d][l] # "gone"
  <2>1. /\ Return(t, l, job[t].key, "ok")
        /\ queue' = [queue EXCEPT ![d][l] = Append(@, Len(sent) + 1)]
    BY <1>3 DEF Enqueue
  <2>2. \E r \in SentRecs, j \in JobRecs : Sending(t, r, j) /\ r.via = l /\ r.res = "ok"
    <3>1. /\ job[t].pc \in {"send", "queue"} /\ job[t].key \in Keys \cup {None} /\ "ok" \in Results
          /\ l \in Links \cup {"UDP", "TCP"} /\ job[t].key \in Keys
      BY <1>1 DEF Results
    <3> QED BY <2>1, <3>1, ReturnFacts
  <2> QED BY <1>1, <1>3, <2>1, <2>2 DEF Queues
<1> QED BY <1>2, <1>3

\* The calls of the application.
LEMMA StartCases ==
  ASSUME Typed, NEW c \in Calls, NEW d \in Devices, Start(c, d)
  PROVE  Begins(c) /\ UNCHANGED <<settings, installed, used, repeats>>
<1>1. ASSUME NEW todo \in SUBSET Devices, NEW text \in Texts, Call(c, d, todo, text),
             text.type # "apps_list",
             text.type = "notification" /\ text.body # None =>
                \A e \in todo : subs[d][e] # None /\ text.body \in subs[d][e]
      PROVE  Begins(c) /\ UNCHANGED <<settings, installed, used, repeats>>
  <2>1. PICK j \in Jobs(c, d, todo, text) : job' = [job EXCEPT ![c] = j]
    BY <1>1 DEF Call
  <2>2. j \in JobRecs /\ NextJob(j, d, todo, text)
        /\ (j.pc = "send" => j.via \in {"WS", "UDP", "TCP"})
    BY JobsFacts
  <2>3. c \in Threads /\ job[c].pc = "idle" BY <1>1 DEF Call, Threads
  <2> QED BY <1>1, <2>1, <2>2, <2>3 DEF Begins, Call, appVars, fate
<1>2. used.devices \subseteq Devices
  BY SendAssumption DEF Typed, SettingTypes
<1>3. ASSUME NEW type \in Types \ {"subscribe_apps"} PROVE Text(type, None) \in Texts
  BY DEF Text, Texts, Bodies
<1>4. {"chat", "notification", "apps_request", "subscribe_apps", "apps_list"} \cup Shares = Types
  BY DEF Types
<1>5. ASSUME NEW e \in used.devices, send(c, d, e) \/ request_apps(c, d, e)
      PROVE  Begins(c) /\ UNCHANGED <<settings, installed, used, repeats>>
  BY <1>1, <1>2, <1>3, <1>4, <1>5 DEF send, request_apps, Text
<1>6. ASSUME NEW type \in Shares, broadcast_control(c, d, type)
      PROVE  Begins(c) /\ UNCHANGED <<settings, installed, used, repeats>>
  <2>1. type # "subscribe_apps" /\ type # "apps_list" BY ShareAssumption
  <2>2. Known[d] \cap used.devices \in SUBSET Devices BY <1>2
  <2> QED BY <1>1, <1>3, <1>4, <1>6, <2>1, <2>2 DEF broadcast_control, Text
<1>7. ASSUME NEW pkg \in Packages, share_app_notification(c, d, pkg)
      PROVE  Begins(c) /\ UNCHANGED <<settings, installed, used, repeats>>
  <2>1. Text("notification", pkg) \in Texts BY DEF Text, Texts, Types, Bodies
  <2> QED BY <1>1, <1>7, <2>1 DEF share_app_notification, Text
<1>8. ASSUME NEW e \in used.devices, NEW apps \in SUBSET Packages, subscribe_apps(c, d, e, apps)
      PROVE  Begins(c) /\ UNCHANGED <<settings, installed, used, repeats>>
  <2>1. Text("subscribe_apps", apps) \in Texts BY DEF Text, Texts, Types, Bodies
  <2> QED BY <1>1, <1>2, <1>8, <2>1 DEF subscribe_apps, Text
<1> QED BY <1>5, <1>6, <1>7, <1>8 DEF Start

\* A receiver is a thread of a device, for one link or for one listener.
LEMMA ReceiverFacts ==
  ASSUME NEW r \in Receivers
  PROVE  /\ r \in Threads /\ r \notin Calls /\ r[1] \in Devices /\ r = <<r[1], r[2]>>
         /\ r \in Ends \/ r[2] \in {"UDP"} \cup TcpThreads
  BY SendAssumption DEF Receivers, Threads, Ends

\* The list a device answers with.
LEMMA ListFacts ==
  ASSUME Typed, NEW d \in Devices, NEW from \in Devices, NEW n \in Frames
  PROVE  AppsList(d, from, n) \in Texts
<1> DEFINE c == IF subs[d][from] = None THEN {} ELSE subs[d][from]
           b == [apps |-> installed[d], ask |-> n, origin |-> origin[d][from], subscribed |-> c]
<1>1. n \in Nat BY DEF Typed, SentTypes, Frames
<1>2. installed[d] \in SUBSET Packages /\ origin[d][from] \in Nat
      /\ subs[d][from] \in {None} \cup SUBSET Packages
  BY DEF Typed, SettingTypes, HandledTypes
<1>3. c \in SUBSET Packages BY <1>2
<1> HIDE DEF c
<1>4. b \in Lists BY <1>1, <1>2, <1>3 DEF Lists
<1>5. AppsList(d, from, n) = [type |-> "apps_list", body |-> b] BY DEF AppsList, Text, c
<1> HIDE DEF b
<1>6. b \in Bodies BY <1>4 DEF Bodies
<1> QED BY <1>5, <1>6 DEF Texts, Types

\* A frame that is read is handled, or is found garbled when the keys differ.
LEMMA HandleIncomingCases ==
  ASSUME Typed, NEW r \in Receivers, HandleIncoming(r)
  PROVE  \E n \in Frames : Garbles(r, n) \/ \E as \in {"chat", "control"} : Handles(r, n, as)
<1>1. PICK n \in Frames :
          /\ Read(r, n) \/ RecvLoop(r, n)
          /\ IF key[r[1]] = sent[n].key THEN Dispatch(r, n)
             ELSE /\ job' = [job EXCEPT ![r] = [Idle EXCEPT !.pc = "garbled", !.frame = n]]
                  /\ UNCHANGED <<got, subs, origin>>
  BY DEF HandleIncoming
<1> DEFINE d == r[1]
           from == sent[n].from
           text == sent[n].text
<1>2. /\ n \in Nat /\ sent[n] \in SentRecs /\ from \in Devices /\ d \in Devices
      /\ r \in Threads /\ r \notin Calls
  <2>1. d \in Devices /\ r \in Threads /\ r \notin Calls BY ReceiverFacts
  <2>2. n \in Nat /\ sent[n] \in SentRecs BY DEF Typed, SentTypes, Frames
  <2> QED BY <2>1, <2>2 DEF SentRecs
<1>3. job[r].pc = "idle"
  <2>1. CASE Read(r, n)
    <3>1. r = <<r[1], r[2]>> BY ReceiverFacts
    <3>2. job[<<r[1], r[2]>>].pc = "idle" BY <2>1 DEF Read, Running
    <3> QED BY <3>1, <3>2
  <2>2. CASE RecvLoop(r, n) BY <2>2 DEF RecvLoop
  <2> QED BY <1>1, <2>1, <2>2
<1>4. Takes(r, n) BY <1>1, <1>3 DEF Takes, HandleIncoming
<1>5. CASE key[d] # sent[n].key
  <2> DEFINE j == [Idle EXCEPT !.pc = "garbled", !.frame = n]
  <2>1. j \in JobRecs /\ j.pc = "garbled" /\ j.frame = n BY <1>2 DEF Idle, JobRecs
  <2>2. job' = [job EXCEPT ![r] = j] /\ UNCHANGED <<got, subs, origin>> BY <1>1, <1>5
  <2> HIDE DEF j
  <2> QED BY <1>4, <2>1, <2>2 DEF Garbles
<1>6. CASE key[d] = sent[n].key /\ text.type \notin Registered(d)
  <2>1. /\ Done(r, n, "chat") /\ job' = [job EXCEPT ![r] = Idle] /\ UNCHANGED <<subs, origin>>
    BY <1>1, <1>6 DEF Dispatch
  <2>2. PICK x \in Texts : x = text BY <1>2 DEF SentRecs
  <2>3. NextJob(Idle, d, {}, x) /\ Idle.pc # "send" BY IdleFacts DEF NextJob
  <2>4. Handles(r, n, "chat") BY <1>4, <2>1, <2>3, IdleFacts DEF Handles
  <2> QED BY <2>4
<1>7. CASE key[d] = sent[n].key /\ text.type \in Registered(d)
  <2> DEFINE todo == IF text.type = "apps_request" THEN {from} ELSE {}
             list == AppsList(d, from, n)
  <2>1. Done(r, n, "control") /\ Handle(r, n) BY <1>1, <1>7 DEF Dispatch
  <2>2. PICK j \in Jobs(r, d, todo, list) : job' = [job EXCEPT ![r] = j]
    BY <2>1 DEF Handle
  <2>3. todo \in SUBSET Devices /\ list \in Texts BY <1>2, ListFacts
  <2>4. IF text.type = "subscribe_apps"
        THEN /\ subs' = [subs EXCEPT ![d][from] = text.body]
             /\ origin' = [origin EXCEPT ![d][from] = n]
        ELSE UNCHANGED <<subs, origin>>
    BY <2>1 DEF Handle
  <2>5. todo # {} => text.type = "apps_request" /\ todo = {from} /\ list = AppsList(d, from, n)
    OBVIOUS
  <2> HIDE DEF todo, list
  <2>6. j \in JobRecs /\ NextJob(j, d, todo, list)
        /\ (j.pc = "send" => j.via \in {"WS", "UDP", "TCP"})
    BY <1>2, <2>2, <2>3, JobsFacts
  <2>7. Handles(r, n, "control") BY <1>4, <2>1, <2>2, <2>3, <2>4, <2>5, <2>6 DEF Handles
  <2> QED BY <2>7
<1> QED BY <1>5, <1>6, <1>7

\* A garbled frame is shown as it is.
LEMMA ShowsCases ==
  ASSUME NEW r \in Receivers, EnvelopeToMessage(r), UNCHANGED appVars PROVE Shows(r)
  BY DEF EnvelopeToMessage, Shows, appVars

\* Settings and installed apps keep their types.
LEMMA SettingsCases ==
  ASSUME Typed,
         \/ /\ UNCHANGED appVars
            /\ \E d \in Devices :
                  \/ \E v \in {"UDP", "TCP"} : set_directed_transport(d, v)
                  \/ \E k \in Keys \cup {None} : SetKey(d, k)
         \/ \E d \in Devices, apps \in SUBSET Packages : set_installed_apps(d, apps)
  PROVE  UNCHANGED core /\ SettingTypes'
<1>1. used \in Scenarios /\ used.changes \in Nat BY SendAssumption DEF Typed, SettingTypes
<1>2. ASSUME NEW d \in Devices, Change(d), used' = used PROVE changes' \in 0 .. used'.changes
  BY <1>1, <1>2 DEF Change, Typed, SettingTypes
<1>3. ASSUME NEW d \in Devices, NEW v \in {"UDP", "TCP"}, set_directed_transport(d, v),
             UNCHANGED appVars
      PROVE  UNCHANGED core /\ SettingTypes'
  <2>1. changes' \in 0 .. used'.changes BY <1>2, <1>3 DEF set_directed_transport, appVars
  <2> QED BY <1>3, <2>1 DEF set_directed_transport, appVars, fate, core, Typed, SettingTypes
<1>4. ASSUME NEW d \in Devices, NEW k \in Keys \cup {None}, SetKey(d, k), UNCHANGED appVars
      PROVE  UNCHANGED core /\ SettingTypes'
  <2>1. changes' \in 0 .. used'.changes BY <1>2, <1>4 DEF SetKey, appVars
  <2> QED BY <1>4, <2>1 DEF SetKey, appVars, fate, core, Typed, SettingTypes
<1>5. ASSUME NEW d \in Devices, NEW apps \in SUBSET Packages, set_installed_apps(d, apps)
      PROVE  UNCHANGED core /\ SettingTypes'
  <2>1. changes' \in 0 .. used'.changes BY <1>2, <1>5 DEF set_installed_apps
  <2> QED BY <1>5, <2>1 DEF set_installed_apps, fate, core, Typed, SettingTypes
<1> QED BY <1>3, <1>4, <1>5

StepKinds ==
    \/ UNCHANGED core
    \/ \E t \in Threads : Refuses(t) \/ SendsDirect(t) \/ Queues(t) \/ Finds(t) \/ Begins(t)
    \/ \E d \in Devices, l \in Links : LinkStep(d, l)
    \/ \E r \in Receivers, n \in Frames :
          Garbles(r, n) \/ \E as \in {"chat", "control"} : Handles(r, n, as)
    \/ \E r \in Receivers : Shows(r)

\* Every step of the model is one of these.
LEMMA StepCases == Typed /\ [Next]_vars => StepKinds /\ SettingTypes'
<1> SUFFICES ASSUME Typed, [Next]_vars PROVE StepKinds /\ SettingTypes'
  OBVIOUS
<1>0. ASSUME UNCHANGED <<settings, installed, used>>, repeats' \in {repeats, repeats + 1},
             repeats' = repeats \/ repeats < used.repeats
      PROVE  SettingTypes'
  <2>1. used.repeats \in Nat /\ repeats \in 0 .. used.repeats
    BY SendAssumption DEF Typed, SettingTypes
  <2>2. repeats' \in 0 .. used'.repeats BY <1>0, <2>1
  <2> QED BY <1>0, <2>2 DEF Typed, SettingTypes, settings
<1>1. ASSUME NEW t \in Threads, SendPayload(t) \/ Enqueue(t), UNCHANGED appVars
      PROVE  StepKinds /\ SettingTypes'
  <2>1. SettingTypes' BY <1>0, <1>1 DEF SendPayload, Enqueue, appVars, fate
  <2>2. Refuses(t) \/ SendsDirect(t) \/ Queues(t) \/ Finds(t)
    BY <1>1, SendPayloadCases, EnqueueCases
  <2> QED BY <2>1, <2>2 DEF StepKinds
<1>2. ASSUME NEW d \in Devices, NEW l \in Links, UNCHANGED appVars,
             Register(d, l) \/ Flush(d, l) \/ Close(d, l) \/ Release(d, l) \/ DropRx(d, l)
      PROVE  StepKinds /\ SettingTypes'
  <2>1. SettingTypes' BY <1>0, <1>2 DEF Register, Flush, Close, Release, DropRx, appVars, fate
  <2>2. LinkStep(d, l) BY <1>2 DEF LinkStep, appVars
  <2> QED BY <2>1, <2>2 DEF StepKinds
<1>3. ASSUME NEW r \in Receivers, EnvelopeToMessage(r), UNCHANGED appVars
      PROVE  StepKinds /\ SettingTypes'
  <2>1. SettingTypes' BY <1>0, <1>3 DEF EnvelopeToMessage, appVars, fate
  <2>2. Shows(r) BY <1>3, ShowsCases
  <2> QED BY <2>1, <2>2 DEF StepKinds
<1>4. ASSUME NEW c \in Calls, NEW d \in Devices, Start(c, d) PROVE StepKinds /\ SettingTypes'
  <2>1. Begins(c) /\ SettingTypes' /\ c \in Threads BY <1>0, <1>4, StartCases DEF Threads
  <2> QED BY <2>1 DEF StepKinds
<1>5. ASSUME NEW r \in Receivers, HandleIncoming(r) PROVE StepKinds /\ SettingTypes'
  <2>1. SettingTypes'
    BY <1>0, <1>5 DEF HandleIncoming, Read, RecvLoop, Repeat, fate
  <2>2. \E n \in Frames : Garbles(r, n) \/ \E as \in {"chat", "control"} : Handles(r, n, as)
    BY <1>5, HandleIncomingCases
  <2> QED BY <2>1, <2>2 DEF StepKinds
<1>6. CASE UNCHANGED vars
  <2>1. UNCHANGED core /\ SettingTypes' BY <1>0, <1>6 DEF vars, sendVars, appVars, fate, core
  <2> QED BY <2>1 DEF StepKinds
<1>7. CASE SendNext /\ UNCHANGED appVars
  BY <1>1, <1>2, <1>3, <1>7, SettingsCases DEF SendNext, StepKinds
<1>8. CASE \E d \in Devices, apps \in SUBSET Packages : set_installed_apps(d, apps)
  BY <1>8, SettingsCases DEF StepKinds
<1> QED BY <1>4, <1>5, <1>6, <1>7, <1>8 DEF Next

-----------------------------------------------------------------------------
\* Types are kept.

\* One thread goes on; the others are as they were.
LEMMA JobStep ==
  ASSUME Typed, NEW t \in Threads, NEW j \in JobRecs, job' = [job EXCEPT ![t] = j],
         Frames \subseteq Frames',
         j.pc \in {"send", "queue"} => j.dev \in Devices /\ j.to \in Devices /\ j.text \in Texts,
         j.pc = "send" => j.via \in {"WS", "UDP", "TCP"},
         j.pc = "queue" => j.via \in Links /\ j.key \in Keys,
         j.pc = "garbled" => t \in Receivers /\ j.frame \in Frames'
  PROVE  /\ job' \in [Threads -> JobRecs] /\ \A u \in Threads : JobOK(u)'
         /\ job'[t] = j /\ \A u \in Threads : u # t => job'[u] = job[u]
<1>1. job \in [Threads -> JobRecs] /\ \A u \in Threads : JobOK(u) BY DEF Typed, SentTypes
<1>2. job' \in [Threads -> JobRecs] /\ job'[t] = j /\ \A u \in Threads : u # t => job'[u] = job[u]
  BY <1>1
<1>3. JobOK(t)' BY <1>2 DEF JobOK
<1>4. ASSUME NEW u \in Threads, u # t PROVE JobOK(u)'
  <2>1. JobOK(u) /\ job'[u] = job[u] BY <1>1, <1>2, <1>4
  <2> QED BY <2>1 DEF JobOK
<1> QED BY <1>2, <1>3, <1>4

\* One more send; the others are as they were.
LEMMA SentStep ==
  ASSUME Typed, NEW r \in SentRecs, sent' = Append(sent, r),
         IF r.res = "ok" THEN r.via \in Links \cup {"UDP", "TCP"} /\ r.key \in Keys
         ELSE r.via = None
  PROVE  /\ sent' \in Seq(SentRecs) /\ \A n \in Frames' : SentOK(n)'
         /\ Len(sent) \in Nat /\ Len(sent) + 1 \notin Frames
         /\ Frames = 1 .. Len(sent) /\ Frames' = Frames \cup {Len(sent) + 1}
         /\ sent'[Len(sent) + 1] = r /\ \A n \in Frames : sent'[n] = sent[n] /\ n < Len(sent) + 1
<1>1. sent \in Seq(SentRecs) /\ \A n \in Frames : SentOK(n) BY DEF Typed, SentTypes
<1>2. /\ sent' \in Seq(SentRecs) /\ Len(sent) \in Nat /\ Frames = 1 .. Len(sent)
      /\ Len(sent') = Len(sent) + 1 /\ Frames' = 1 .. Len(sent')
      /\ sent'[Len(sent) + 1] = r /\ \A n \in 1 .. Len(sent) : sent'[n] = sent[n]
  BY <1>1, AppendFacts DEF Frames
<1>3. Frames' = Frames \cup {Len(sent) + 1} /\ Len(sent) + 1 \notin Frames BY <1>2
<1>4. ASSUME NEW n \in Frames' PROVE SentOK(n)'
  <2>1. CASE n \in Frames
    <3>1. SentOK(n) /\ sent'[n] = sent[n] BY <1>1, <1>2, <2>1
    <3> QED BY <3>1 DEF SentOK, Ok
  <2>2. CASE n = Len(sent) + 1 BY <1>2, <2>2 DEF SentOK, Ok
  <2> QED BY <1>3, <2>1, <2>2
<1>5. \A n \in Frames : n < Len(sent) + 1 BY <1>2
<1> QED BY <1>2, <1>3, <1>4, <1>5

\* A send: both of the above.
LEMMA SendingStep ==
  ASSUME Typed, NEW t, NEW r, NEW j, Sending(t, r, j)
  PROVE  /\ SentTypes'
         /\ Len(sent) \in Nat /\ Len(sent) + 1 \notin Frames
         /\ Frames = 1 .. Len(sent) /\ Frames' = Frames \cup {Len(sent) + 1}
         /\ sent'[Len(sent) + 1] = r /\ \A n \in Frames : sent'[n] = sent[n] /\ n < Len(sent) + 1
         /\ job'[t] = j /\ \A u \in Threads : u # t => job'[u] = job[u]
<1>1. /\ t \in Threads /\ r \in SentRecs /\ j \in JobRecs /\ sent' = Append(sent, r)
      /\ (IF r.res = "ok" THEN r.via \in Links \cup {"UDP", "TCP"} /\ r.key \in Keys
          ELSE r.via = None)
      /\ job' = [job EXCEPT ![t] = j] /\ job[t].pc \in {"send", "queue"}
      /\ NextJob(j, job[t].dev, job[t].todo, job[t].text)
      /\ j.pc = "send" => j.via \in {"WS", "UDP", "TCP"}
  BY DEF Sending
<1>2. /\ sent' \in Seq(SentRecs) /\ \A n \in Frames' : SentOK(n)'
      /\ Len(sent) \in Nat /\ Len(sent) + 1 \notin Frames
      /\ Frames = 1 .. Len(sent) /\ Frames' = Frames \cup {Len(sent) + 1}
      /\ sent'[Len(sent) + 1] = r /\ \A n \in Frames : sent'[n] = sent[n] /\ n < Len(sent) + 1
  BY <1>1, SentStep
<1>3. /\ job[t] \in JobRecs /\ job[t].dev \in Devices /\ job[t].text \in Texts
  BY <1>1 DEF Typed, SentTypes, JobOK
<1>4. /\ j.pc \in {"send", "idle", "done"}
      /\ j.pc = "send" => j.dev \in Devices /\ j.to \in Devices /\ j.text \in Texts
  BY <1>1, <1>3 DEF NextJob, JobRecs
<1>5. Frames \subseteq Frames' BY <1>2
<1>6. /\ job' \in [Threads -> JobRecs] /\ \A u \in Threads : JobOK(u)'
      /\ job'[t] = j /\ \A u \in Threads : u # t => job'[u] = job[u]
  BY <1>1, <1>4, <1>5, JobStep
<1> QED BY <1>2, <1>6 DEF SentTypes

\* The next job, with nothing sent.
LEMMA GoesOn ==
  ASSUME Typed, NEW t \in Threads, NEW d \in Devices, NEW todo \in SUBSET Devices,
         NEW text \in Texts, NEW j \in JobRecs, job' = [job EXCEPT ![t] = j],
         NextJob(j, d, todo, text), j.pc = "send" => j.via \in {"WS", "UDP", "TCP"}, sent' = sent
  PROVE  /\ SentTypes' /\ job'[t] = j /\ \A u \in Threads : u # t => job'[u] = job[u]
<1>1. Frames' = Frames BY DEF Frames
<1>2. /\ j.pc \in {"send", "idle", "done"}
      /\ j.pc = "send" => j.dev \in Devices /\ j.to \in Devices /\ j.text \in Texts
  BY DEF NextJob
<1>3. Frames \subseteq Frames' BY <1>1
<1>4. /\ job' \in [Threads -> JobRecs] /\ \A u \in Threads : JobOK(u)'
      /\ job'[t] = j /\ \A u \in Threads : u # t => job'[u] = job[u]
  BY <1>2, <1>3, JobStep
<1>5. sent' \in Seq(SentRecs) /\ \A n \in Frames' : SentOK(n)'
  BY DEF Typed, SentTypes, SentOK, Ok, Frames
<1> QED BY <1>4, <1>5 DEF SentTypes

\* What a reader takes, and from where.
LEMMA TakesCases ==
  ASSUME Typed, NEW r, NEW n, Takes(r, n)
  PROVE  \/ LET l == r[2]
                e == Other(l, r[1]) IN
            /\ r \in Ends /\ r = <<r[1], l>> /\ r[1] \in Devices /\ l \in Links /\ e \in Devices
            /\ <<e, l>> \in Ends /\ Other(l, e) = r[1] /\ stage[r[1]][l] = "up"
            /\ wire[e][l] \in Seq(Nat)
            /\ \E i \in 1 .. Len(wire[e][l]) :
                  /\ i = 1 \/ Kind[l] = "punch"
                  /\ n = wire[e][l][i]
                  /\ \/ wire' = [wire EXCEPT ![e][l] = RemoveAt(wire[e][l], i)]
                     \/ Kind[l] = "punch" /\ n \in again' /\ wire' = wire
            /\ UNCHANGED <<slot, stage, queue, air>>
         \/ /\ r \notin Ends /\ r[1] \in Devices
            /\ n \in air /\ sent[n].to = r[1] /\ sent[n].via \in {"UDP", "TCP"}
            /\ air' = air \ {n} \/ (n \in again' /\ air' = air)
            /\ UNCHANGED links
<1>1. r \in Receivers /\ (Read(r, n) \/ RecvLoop(r, n)) BY DEF Takes
<1>2. CASE Read(r, n)
  <2> DEFINE l == r[2]
             e == Other(l, r[1])
  <2>1. /\ r \in Ends /\ Running(r[1], l)
        /\ \E i \in DOMAIN wire[e][l] :
              /\ i = 1 \/ Kind[l] = "punch"
              /\ n = wire[e][l][i]
              /\ \/ wire' = [wire EXCEPT ![e][l] = RemoveAt(@, i)]
                 \/ Kind[l] = "punch" /\ n \in again' /\ wire' = wire
        /\ UNCHANGED <<slot, stage, queue, air>>
    BY <1>2 DEF Read, Repeat
  <2>2. /\ r[1] \in Devices /\ l \in Links /\ r = <<r[1], l>> /\ e \in Devices
        /\ <<e, l>> \in Ends /\ Other(l, e) = r[1]
    BY <2>1, PairFacts
  <2>3. wire[e][l] \in Seq(Nat) /\ DOMAIN wire[e][l] = 1 .. Len(wire[e][l])
    BY <2>2 DEF Typed, LinkTypes
  <2>4. stage[r[1]][l] = "up" BY <2>1 DEF Running
  <2>5. PICK i \in 1 .. Len(wire[e][l]) :
              /\ i = 1 \/ Kind[l] = "punch"
              /\ n = wire[e][l][i]
              /\ \/ wire' = [wire EXCEPT ![e][l] = RemoveAt(@, i)]
                 \/ Kind[l] = "punch" /\ n \in again' /\ wire' = wire
    BY <2>1, <2>3
  <2>6. \/ wire' = [wire EXCEPT ![e][l] = RemoveAt(wire[e][l], i)]
        \/ Kind[l] = "punch" /\ n \in again' /\ wire' = wire
    BY <2>2, <2>5 DEF Typed, LinkTypes
  <2> HIDE DEF e, l
  <2>7. \E k \in 1 .. Len(wire[e][l]) :
                  /\ k = 1 \/ Kind[l] = "punch"
                  /\ n = wire[e][l][k]
                  /\ \/ wire' = [wire EXCEPT ![e][l] = RemoveAt(wire[e][l], k)]
                     \/ Kind[l] = "punch" /\ n \in again' /\ wire' = wire
    BY <2>5, <2>6
  <2> QED BY <2>1, <2>2, <2>3, <2>4, <2>7 DEF e, l
<1>3. CASE RecvLoop(r, n)
  <2>1. r[2] \in {"UDP"} \cup TcpThreads /\ r[1] \in Devices BY <1>1, <1>3, ReceiverFacts DEF RecvLoop
  <2>2. r \notin Ends BY <2>1, PairFacts, SendAssumption
  <2>3. air' = air \ {n} \/ (n \in again' /\ air' = air) BY <1>3 DEF RecvLoop, Repeat
  <2>4. n \in air /\ sent[n].to = r[1] /\ sent[n].via \in {"UDP", "TCP"} /\ UNCHANGED links
    BY <1>3 DEF RecvLoop
  <2> QED BY <2>1, <2>2, <2>3, <2>4
<1> QED BY <1>1, <1>2, <1>3

\* Every kind of step keeps the types.
LEMMA TypeStep ==
  ASSUME Typed, StepKinds, SettingTypes' PROVE Typed'
<1>1. CASE UNCHANGED core
  <2>1. LinkTypes' /\ HandledTypes' BY <1>1 DEF core, links, Typed, LinkTypes, HandledTypes
  <2>2. SentTypes' BY <1>1 DEF core, Typed, SentTypes, JobOK, SentOK, Frames, Ok
  <2> QED BY <2>1, <2>2 DEF Typed
<1>a. ASSUME UNCHANGED <<links, air>> PROVE LinkTypes' BY <1>a DEF links, Typed, LinkTypes
<1>b. ASSUME UNCHANGED <<got, subs, origin>> PROVE HandledTypes' BY <1>b DEF Typed, HandledTypes
<1>2. ASSUME NEW t \in Threads, Refuses(t) PROVE Typed'
  <2>1. PICK r \in SentRecs, j \in JobRecs : Sending(t, r, j) BY <1>2 DEF Refuses
  <2>2. SentTypes' BY <2>1, SendingStep
  <2>3. LinkTypes' /\ HandledTypes' BY <1>2, <1>a, <1>b DEF Refuses
  <2> QED BY <2>2, <2>3 DEF Typed
<1>3. ASSUME NEW t \in Threads, SendsDirect(t) PROVE Typed'
  <2>1. PICK r \in SentRecs, j \in JobRecs : Sending(t, r, j) BY <1>3 DEF SendsDirect
  <2>2. SentTypes' /\ Len(sent) \in Nat BY <2>1, SendingStep
  <2>3. LinkTypes'
    <3>1. air' = air \cup {Len(sent) + 1} /\ UNCHANGED links BY <1>3 DEF SendsDirect
    <3>2. Len(sent) + 1 \in Nat BY <2>2
    <3>3. air' \subseteq Nat BY <3>1, <3>2 DEF Typed, LinkTypes
    <3> QED BY <3>1, <3>3 DEF links, Typed, LinkTypes
  <2>4. HandledTypes' BY <1>3, <1>b DEF SendsDirect
  <2> QED BY <2>2, <2>3, <2>4 DEF Typed
<1>4. ASSUME NEW t \in Threads, Queues(t) PROVE Typed'
  <2> DEFINE d == job[t].dev
             l == job[t].via
  <2>1. PICK r \in SentRecs, j \in JobRecs : Sending(t, r, j) BY <1>4 DEF Queues
  <2>2. SentTypes' /\ Len(sent) + 1 \in Nat BY <2>1, SendingStep
  <2>3. d \in Devices /\ l \in Links BY <1>4 DEF Queues, Typed, SentTypes, JobOK
  <2>4. /\ queue' = [queue EXCEPT ![d][l] = Append(queue[d][l], Len(sent) + 1)]
        /\ UNCHANGED <<slot, stage, wire, air, got, subs, origin>>
    BY <1>4 DEF Queues
  <2>5. Append(queue[d][l], Len(sent) + 1) \in Seq(Nat) BY <2>2, <2>3 DEF Typed, LinkTypes
  <2> HIDE DEF d, l
  <2>6. queue' \in [Devices -> [Links -> Seq(Nat)]] BY <2>3, <2>4, <2>5 DEF Typed, LinkTypes
  <2>7. LinkTypes' BY <2>4, <2>6 DEF Typed, LinkTypes
  <2>8. HandledTypes' BY <1>b, <2>4
  <2> QED BY <2>2, <2>7, <2>8 DEF Typed
<1>5. ASSUME NEW t \in Threads, Finds(t) PROVE Typed'
  <2>1. PICK j \in JobRecs :
          /\ job[t].pc = "send" /\ slot[job[t].dev][job[t].to] # None
          /\ job' = [job EXCEPT ![t] = j] /\ j.pc = "queue"
          /\ j.dev = job[t].dev /\ j.to = job[t].to /\ j.text = job[t].text
          /\ j.via = slot[job[t].dev][job[t].to] /\ j.key \in Keys
          /\ UNCHANGED <<links, air, sent, got, subs, origin>>
    BY <1>5 DEF Finds
  <2>2. job[t].dev \in Devices /\ job[t].to \in Devices /\ job[t].text \in Texts
    BY <2>1 DEF Typed, SentTypes, JobOK
  <2>3. j.via \in Links BY <2>1, <2>2 DEF Typed, LinkTypes
  <2>4. Frames' = Frames BY <2>1 DEF Frames
  <2>5. job' \in [Threads -> JobRecs] /\ \A u \in Threads : JobOK(u)'
    BY <2>1, <2>2, <2>3, <2>4, JobStep
  <2>6. SentTypes' BY <2>1, <2>5 DEF Typed, SentTypes, SentOK, Ok, Frames
  <2>7. LinkTypes' /\ HandledTypes' BY <2>1, <1>a, <1>b
  <2> QED BY <2>6, <2>7 DEF Typed
<1>6. ASSUME NEW t \in Threads, Begins(t) PROVE Typed'
  <2>1. SentTypes' BY <1>6, GoesOn DEF Begins
  <2>2. LinkTypes' /\ HandledTypes' BY <1>6, <1>a, <1>b DEF Begins
  <2> QED BY <2>1, <2>2 DEF Typed
<1>7. ASSUME NEW d \in Devices, NEW l \in Links, LinkStep(d, l) PROVE Typed'
  <2>1. UNCHANGED <<air, job, sent, got, subs, origin>>
    BY <1>7 DEF LinkStep, Register, Flush, Close, Release, DropRx
  <2>2. SentTypes' BY <2>1 DEF Typed, SentTypes, JobOK, SentOK, Frames, Ok
  <2>3. HandledTypes' BY <1>b, <2>1
  <2>4. CASE Register(d, l)
    <3>1. Other(l, d) \in Devices BY <2>4, PairFacts DEF Register
    <3> QED BY <2>2, <2>3, <2>4, <3>1 DEF Register, Typed, LinkTypes
  <2>5. CASE Flush(d, l)
    <3>1. Head(queue[d][l]) \in Nat /\ Tail(queue[d][l]) \in Seq(Nat)
      BY <2>5 DEF Flush, Typed, LinkTypes
    <3>2. Append(wire[d][l], Head(queue[d][l])) \in Seq(Nat)
      BY <3>1 DEF Typed, LinkTypes
    <3>3. /\ queue' = [queue EXCEPT ![d][l] = Tail(queue[d][l])]
          /\ \/ wire' = [wire EXCEPT ![d][l] = Append(wire[d][l], Head(queue[d][l]))]
             \/ wire' = wire
          /\ UNCHANGED <<slot, stage, air>>
      BY <2>5 DEF Flush
    <3>4. queue' \in [Devices -> [Links -> Seq(Nat)]] BY <3>1, <3>3 DEF Typed, LinkTypes
    <3>5. wire' \in [Devices -> [Links -> Seq(Nat)]]
      <4>1. CASE wire' = [wire EXCEPT ![d][l] = Append(wire[d][l], Head(queue[d][l]))]
        BY <3>2, <4>1 DEF Typed, LinkTypes
      <4>2. CASE wire' = wire BY <4>2 DEF Typed, LinkTypes
      <4> QED BY <3>3, <4>1, <4>2
    <3> QED BY <2>2, <2>3, <3>3, <3>4, <3>5 DEF Typed, LinkTypes
  <2>6. CASE Close(d, l) BY <2>2, <2>3, <2>6 DEF Close, Typed, LinkTypes
  <2>7. CASE Release(d, l) BY <2>2, <2>3, <2>7 DEF Release, Typed, LinkTypes
  <2>8. CASE DropRx(d, l)
    <3>1. <<>> \in Seq(Nat) OBVIOUS
    <3> QED BY <2>2, <2>3, <2>8, <3>1 DEF DropRx, Typed, LinkTypes
  <2> QED BY <1>7, <2>4, <2>5, <2>6, <2>7, <2>8 DEF LinkStep
<1>c. ASSUME NEW r, NEW n, Takes(r, n) PROVE LinkTypes'
  <2>1. CASE r \in Ends
    <3> DEFINE l == r[2]
               e == Other(l, r[1])
    <3>1. PICK i \in 1 .. Len(wire[e][l]) :
              wire' = [wire EXCEPT ![e][l] = RemoveAt(wire[e][l], i)] \/ wire' = wire
      BY <1>c, <2>1, TakesCases
    <3>2. e \in Devices /\ l \in Links /\ wire[e][l] \in Seq(Nat) /\ UNCHANGED <<slot, stage, queue, air>>
      BY <1>c, <2>1, TakesCases
    <3> HIDE DEF e, l
    <3>3. RemoveAt(wire[e][l], i) \in Seq(Nat) BY <3>2, RemoveAtFacts
    <3>4. wire' \in [Devices -> [Links -> Seq(Nat)]]
      <4>1. CASE wire' = [wire EXCEPT ![e][l] = RemoveAt(wire[e][l], i)]
        BY <3>2, <3>3, <4>1 DEF Typed, LinkTypes
      <4>2. CASE wire' = wire BY <4>2 DEF Typed, LinkTypes
      <4> QED BY <3>1, <4>1, <4>2
    <3> QED BY <3>2, <3>4 DEF Typed, LinkTypes
  <2>2. CASE r \notin Ends
    <3>1. (air' = air \ {n} \/ air' = air) /\ UNCHANGED links BY <1>c, <2>2, TakesCases
    <3> QED BY <3>1 DEF links, Typed, LinkTypes
  <2> QED BY <2>1, <2>2
<1>d. ASSUME NEW d \in Devices, NEW n \in Nat, NEW as \in {"chat", "control", "locked"},
             got' = [got EXCEPT ![d] = Append(@, [frame |-> n, as |-> as])]
      PROVE  got' \in [Devices -> Seq(GotRecs)]
  <2>1. [frame |-> n, as |-> as] \in GotRecs BY DEF GotRecs
  <2>2. Append(got[d], [frame |-> n, as |-> as]) \in Seq(GotRecs)
    BY <2>1 DEF Typed, HandledTypes
  <2> QED BY <1>d, <2>2 DEF Typed, HandledTypes
<1>e. \A n \in Frames : n \in Nat /\ sent[n] \in SentRecs BY DEF Typed, SentTypes, Frames
<1>8. ASSUME NEW r \in Receivers, NEW n \in Frames, Garbles(r, n) PROVE Typed'
  <2>1. PICK j \in JobRecs : job' = [job EXCEPT ![r] = j] /\ j.pc = "garbled" /\ j.frame = n
    BY <1>8 DEF Garbles
  <2>2. Takes(r, n) /\ sent' = sent /\ UNCHANGED <<got, subs, origin>> BY <1>8 DEF Garbles, Takes
  <2>3. Frames' = Frames BY <2>2 DEF Frames
  <2>4. r \in Threads BY ReceiverFacts
  <2>5. job' \in [Threads -> JobRecs] /\ \A u \in Threads : JobOK(u)'
    BY <2>1, <2>3, <2>4, JobStep
  <2>6. SentTypes' BY <2>2, <2>5 DEF Typed, SentTypes, SentOK, Ok, Frames
  <2> QED BY <2>2, <2>6, <1>b, <1>c DEF Typed
<1>9. ASSUME NEW r \in Receivers, NEW n \in Frames, NEW as, Handles(r, n, as) PROVE Typed'
  <2> DEFINE d == r[1]
             from == sent[n].from
  <2>1. PICK todo \in SUBSET Devices, text \in Texts, j \in JobRecs :
          /\ Takes(r, n) /\ as \in {"chat", "control"} /\ Done(r, n, as)
          /\ job' = [job EXCEPT ![r] = j] /\ NextJob(j, d, todo, text)
          /\ j.pc = "send" => j.via \in {"WS", "UDP", "TCP"}
          /\ IF as = "control" /\ sent[n].text.type = "subscribe_apps"
             THEN /\ subs' = [subs EXCEPT ![d][from] = sent[n].text.body]
                  /\ origin' = [origin EXCEPT ![d][from] = n]
             ELSE UNCHANGED <<subs, origin>>
    BY <1>9 DEF Handles
  <2>2. sent' = sent /\ LinkTypes' BY <2>1, <1>c DEF Takes
  <2>3. r \in Threads /\ d \in Devices BY ReceiverFacts
  <2>4. SentTypes' BY <2>1, <2>2, <2>3, GoesOn
  <2>5. n \in Nat /\ from \in Devices /\ sent[n].text \in Texts BY <1>e DEF SentRecs
  <2>6. got' \in [Devices -> Seq(GotRecs)] BY <1>d, <2>1, <2>3, <2>5 DEF Done
  <2>7. sent[n].text.type = "subscribe_apps" => sent[n].text.body \in SUBSET Packages
    BY <2>5 DEF Texts
  <2> HIDE DEF d, from
  <2>8. origin' \in [Devices -> [Devices -> Nat]]
    <3>1. CASE origin' = [origin EXCEPT ![d][from] = n]
      BY <2>3, <2>5, <3>1 DEF Typed, HandledTypes
    <3>2. CASE origin' = origin BY <3>2 DEF Typed, HandledTypes
    <3> QED BY <2>1, <3>1, <3>2
  <2>9. subs' \in [Devices -> [Devices -> {None} \cup SUBSET Packages]]
    <3>1. CASE as = "control" /\ sent[n].text.type = "subscribe_apps"
      <4>1. subs' = [subs EXCEPT ![d][from] = sent[n].text.body] BY <2>1, <3>1
      <4>2. sent[n].text.body \in {None} \cup SUBSET Packages BY <2>7, <3>1
      <4>3. subs \in [Devices -> [Devices -> {None} \cup SUBSET Packages]]
        BY DEF Typed, HandledTypes
      <4> QED BY <2>3, <2>5, <4>1, <4>2, <4>3, ExceptFacts
    <3>2. CASE ~(as = "control" /\ sent[n].text.type = "subscribe_apps")
      <4>1. subs' = subs BY <2>1, <3>2
      <4> QED BY <4>1 DEF Typed, HandledTypes
    <3> QED BY <3>1, <3>2
  <2> QED BY <2>2, <2>4, <2>6, <2>8, <2>9 DEF Typed, HandledTypes
<1>10. ASSUME NEW r \in Receivers, Shows(r) PROVE Typed'
  <2>1. r \in Threads /\ r[1] \in Devices BY ReceiverFacts
  <2>2. job[r].frame \in Frames BY <1>10, <2>1 DEF Shows, Typed, SentTypes, JobOK
  <2>3. PICK as \in {"chat", "locked"} : Done(r, job[r].frame, as) BY <1>10 DEF Shows
  <2>4. got' \in [Devices -> Seq(GotRecs)] BY <1>d, <1>e, <2>1, <2>2, <2>3 DEF Done
  <2>5. job' = [job EXCEPT ![r] = Idle] /\ UNCHANGED <<links, air, sent, subs, origin>>
    BY <1>10 DEF Shows
  <2>6. Frames' = Frames BY <2>5 DEF Frames
  <2>7. job' \in [Threads -> JobRecs] /\ \A u \in Threads : JobOK(u)'
    BY <2>1, <2>5, <2>6, JobStep, IdleFacts
  <2>8. SentTypes' BY <2>5, <2>7 DEF Typed, SentTypes, SentOK, Ok, Frames
  <2>9. HandledTypes' BY <2>4, <2>5 DEF Typed, HandledTypes
  <2> QED BY <1>a, <2>5, <2>8, <2>9 DEF Typed
<1> QED BY <1>1, <1>2, <1>3, <1>4, <1>5, <1>6, <1>7, <1>8, <1>9, <1>10 DEF StepKinds

-----------------------------------------------------------------------------
\* What holds of links and of the threads that use them.

\* A slot holds a link to the peer that has not gone; only the two ends of a
\* link ever have a driver for it.
SlotInv ==
    /\ \A d, e \in Devices : slot[d][e] # None =>
          /\ <<d, slot[d][e]>> \in Ends /\ Other(slot[d][e], d) = e
          /\ stage[d][slot[d][e]] \in {"up", "closing"}
    /\ \A d \in Devices, l \in Links : stage[d][l] # "new" => <<d, l>> \in Ends

\* A thread about to look up the slot finds one unless a link has ended since
\* it chose the transport; the link it found had not ended when it chose.
ChoiceOK(j) ==
    /\ j.pc = "send" => /\ j.ended \subseteq Ended(j.dev)
                        /\ j.via = "WS" /\ Ended(j.dev) = j.ended => slot[j.dev][j.to] # None
    /\ j.pc = "queue" => <<j.dev, j.via>> \in Ends /\ Other(j.via, j.dev) = j.to /\ j.via \notin j.ended
ChoiceInv == \A t \in Threads : ChoiceOK(job[t])

-----------------------------------------------------------------------------
\* Where frames are.

Queued(d, l) == Range(queue[d][l])
Written(d, l) == Range(wire[d][l])
Garbled(r, n) == job[r].pc = "garbled" /\ job[r].frame = n
Handled(d) == {got[d][i].frame : i \in DOMAIN got[d]}

\* A frame is only where it was sent to.
AddressInv ==
    /\ \A n \in Frames : sent[n].via \in Links =>
          <<sent[n].from, sent[n].via>> \in Ends /\ sent[n].to = Other(sent[n].via, sent[n].from)
    /\ \A n \in air : n \in Frames /\ Ok(n) /\ sent[n].via \in {"UDP", "TCP"}
    /\ \A d \in Devices, l \in Links : \A n \in Queued(d, l) \cup Written(d, l) :
          n \in Frames /\ Ok(n) /\ sent[n].via = l /\ sent[n].from = d
    /\ \A r \in Receivers : job[r].pc = "garbled" =>
          LET n == job[r].frame IN
          /\ n \in Frames /\ Ok(n) /\ sent[n].to = r[1]
          /\ IF r \in Ends THEN sent[n].via = r[2] ELSE sent[n].via \in {"UDP", "TCP"}
    /\ \A d \in Devices : \A n \in Handled(d) : n \in Frames /\ Ok(n) /\ sent[n].to = d

\* Only a datagram comes again.
Repeatable(n) == sent[n].via = "UDP" \/ (sent[n].via \in Links /\ Kind[sent[n].via] = "punch")
AgainGrows == /\ again \subseteq again'
              /\ \A n \in again' \ again : n \in Frames /\ Repeatable(n)

\* A frame is nowhere twice, unless the network has repeated it.
TwiceInv ==
    /\ \A d \in Devices, l \in Links : Distinct(queue[d][l]) /\ Distinct(wire[d][l])
    /\ \A d \in Devices : \A i, j \in DOMAIN got[d] :
          got[d][i].frame = got[d][j].frame /\ got[d][i].frame \notin again => i = j

\* It is in one place, unless the network has repeated it.
OnceInv ==
    /\ \A n \in again : n \in Frames /\ Repeatable(n)
    /\ \A d \in Devices, l \in Links : Queued(d, l) \cap Written(d, l) = {}
    /\ \A r \in Receivers, n \in Frames : Garbled(r, n) /\ n \notin again =>
          /\ n \notin air /\ n \notin Handled(r[1])
          /\ \A d \in Devices, l \in Links : n \notin Queued(d, l) \cup Written(d, l)
          /\ \A u \in Receivers : Garbled(u, n) => u = r
    /\ \A d \in Devices : \A n \in Handled(d) \ again :
          /\ n \notin air
          /\ \A x \in Devices, l \in Links : n \notin Queued(x, l) \cup Written(x, l)

\* It is somewhere, unless it was lost.
PresentInv ==
    \A n \in Frames : Ok(n) =>
        \/ n \in air
        \/ /\ sent[n].via \in Links
           /\ \/ n \in Queued(sent[n].from, sent[n].via) \cup Written(sent[n].from, sent[n].via)
              \/ LinkEnded(n) \/ Kind[sent[n].via] = "webrtc"
        \/ \E r \in Receivers : Garbled(r, n)
        \/ n \in Handled(sent[n].to)

\* The way from d over l: what was sent, what has come and been handled, and
\* what is being opened.
Over(n, d, l) == sent[n].via = l /\ sent[n].from = d
SentOver(d, l) == {n \in Frames : Over(n, d, l)}
Came(d, l) == {n \in Handled(Other(l, d)) : Over(n, d, l)}
Opening(d, l) == {n \in Frames : Garbled(<<Other(l, d), l>>, n)}

\* Frames in the order handled, being opened, written, queued; none is missing
\* before one that is there, and none at all as long as the sender's driver is.
Below(S, T) == \A n \in S, m \in T : n < m
Chain(C, G, W, Q, all, s) ==
    /\ C \cup G \cup W \cup Q \subseteq all
    /\ Below(C, G \cup W \cup Q) /\ Below(G, W \cup Q) /\ Below(W, Q)
    /\ s = "gone" \/ all \subseteq C \cup G \cup W \cup Q
    /\ \A n \in C \cup G \cup W \cup Q, m \in all : m < n => m \in C \cup G \cup W \cup Q

\* Over a WebSocket frames keep their order all the way.
CameInOrder(d, l) ==
    LET handled == got[Other(l, d)] IN
    \A i, j \in DOMAIN handled :
        Over(handled[i].frame, d, l) /\ Over(handled[j].frame, d, l) /\ i < j =>
            handled[i].frame < handled[j].frame
Ordered(d, l) ==
    /\ Rising(queue[d][l]) /\ Rising(wire[d][l]) /\ CameInOrder(d, l)
    /\ Chain(Came(d, l), Opening(d, l), Written(d, l), Queued(d, l), SentOver(d, l),
             stage[d][l])
OrderInv == \A x \in Ends : Kind[x[2]] = "ws" => Ordered(x[1], x[2])

-----------------------------------------------------------------------------
\* Subscriptions.

OfApp(text) == text.type = "notification" /\ text.body # None

\* Frame m is a subscription of e with d, and d has handled it.
Subscribes(m, d, e) ==
    sent[m].from = e /\ sent[m].to = d /\ sent[m].text.type = "subscribe_apps"
Wants(m, d, e) == Subscribes(m, d, e) /\ m \in Handled(d)
SubInv ==
    /\ \A d, e \in Devices :
          LET m == origin[d][e] IN
          IF m = 0 THEN subs[d][e] = None
          ELSE m \in Frames /\ Wants(m, d, e) /\ subs[d][e] = sent[m].text.body
    /\ \A t \in Threads : job[t].pc \in {"send", "queue"} /\ OfApp(job[t].text) =>
          \A e \in job[t].todo \cup {job[t].to} : \E m \in Frames :
              Wants(m, job[t].dev, e) /\ job[t].text.body \in sent[m].text.body
    /\ \A n \in Frames : OfApp(sent[n].text) => \E m \in Frames :
          m < n /\ Wants(m, sent[n].from, sent[n].to) /\ sent[n].text.body \in sent[m].text.body

\* d took m for a control message.
Controlled(m, d) == \E i \in DOMAIN got[d] : got[d][i].frame = m /\ got[d][i].as = "control"

\* What d has handled from e over a WebSocket is no later than the subscription
\* it keeps, unless that one came another way.
OriginInv ==
    \A d, e \in Devices, m \in Frames :
        Subscribes(m, d, e) /\ Controlled(m, d) /\ SameSocket(m, m) =>
            origin[d][e] # 0 /\ (origin[d][e] >= m \/ sent[origin[d][e]].via # sent[m].via)

\* The subscriptions e sent to d before frame n.
Earlier(n) == {m \in Frames : m < n /\ Ok(m) /\ Subscribes(m, sent[n].to, sent[n].from)}
\* A list says what ReadsItsSubscription asks of it, and always will.
ListOK(text) ==
    LET ask == text.body.ask IN
    /\ ask \in Frames
    /\ (\A m \in Earlier(ask) : SameSocket(m, ask)) =>
          \A m \in Earlier(ask) :
             /\ m \in Handled(sent[ask].to)
             /\ Controlled(m, sent[ask].to) => text.body.origin >= m
ListInv ==
    /\ \A t \in Threads : job[t].pc \in {"send", "queue"} /\ job[t].text.type = "apps_list"
          => ListOK(job[t].text)
    /\ \A n \in Frames : sent[n].text.type = "apps_list" => ListOK(sent[n].text)

-----------------------------------------------------------------------------
\* Slots and refusals.

\* Only the drivers change slots and stages.
LEMMA LinksKept ==
  ASSUME Typed, StepKinds
  PROVE  \/ UNCHANGED <<slot, stage>>
         \/ \E d \in Devices, l \in Links : LinkStep(d, l)
<1>1. ASSUME NEW r, NEW n, Takes(r, n) PROVE UNCHANGED <<slot, stage>>
  BY <1>1, TakesCases DEF links
<1>2. CASE UNCHANGED core BY <1>2 DEF core, links
<1>3. ASSUME NEW t \in Threads,
             Refuses(t) \/ SendsDirect(t) \/ Queues(t) \/ Finds(t) \/ Begins(t)
      PROVE  UNCHANGED <<slot, stage>>
  BY <1>3 DEF Refuses, SendsDirect, Queues, Finds, Begins, links
<1>4. ASSUME NEW r \in Receivers, NEW n \in Frames, NEW as,
             Garbles(r, n) \/ Handles(r, n, as)
      PROVE  UNCHANGED <<slot, stage>>
  BY <1>1, <1>4 DEF Garbles, Handles
<1>5. ASSUME NEW r \in Receivers, Shows(r) PROVE UNCHANGED <<slot, stage>>
  BY <1>5 DEF Shows, links
<1> QED BY <1>2, <1>3, <1>4, <1>5 DEF StepKinds

\* What the drivers do to slots and stages.
LEMMA LinkStepCases ==
  ASSUME Typed, NEW d \in Devices, NEW l \in Links, LinkStep(d, l)
  PROVE  /\ UNCHANGED <<air, job, sent, got, subs, origin>>
         /\ \/ /\ <<d, l>> \in Ends /\ Other(l, d) \in Devices /\ stage[d][l] = "new"
               /\ slot[d][Other(l, d)] = None \/ Kind[l] = "webrtc"
               /\ stage' = [stage EXCEPT ![d][l] = "up"]
               /\ slot' = [slot EXCEPT ![d][Other(l, d)] = l]
               /\ UNCHANGED <<queue, wire>>
            \/ /\ <<d, l>> \in Ends /\ stage[d][l] = "new"
               /\ slot[d][Other(l, d)] # None /\ Kind[l] # "webrtc"
               /\ stage' = [stage EXCEPT ![d][l] = "gone"]
               /\ UNCHANGED <<slot, queue, wire>>
            \/ /\ <<d, l>> \in Ends /\ stage[d][l] = "up" /\ UNCHANGED <<slot, stage>>
               /\ queue[d][l] # <<>>
               /\ queue' = [queue EXCEPT ![d][l] = Tail(queue[d][l])]
               /\ \/ wire' = [wire EXCEPT ![d][l] = Append(wire[d][l], Head(queue[d][l]))]
                  \/ Kind[l] = "webrtc" /\ wire' = wire
            \/ /\ <<d, l>> \in Ends /\ stage[d][l] = "up"
               /\ stage' = [stage EXCEPT ![d][l] = "closing"]
               /\ UNCHANGED <<slot, queue, wire>>
            \/ /\ stage[d][l] = "closing"
               /\ stage' = [stage EXCEPT ![d][l] = "left"]
               /\ slot' = [slot EXCEPT ![d] =
                              [e \in Devices |-> IF slot[d][e] = l THEN None ELSE slot[d][e]]]
               /\ UNCHANGED <<queue, wire>>
            \/ /\ stage[d][l] = "left"
               /\ stage' = [stage EXCEPT ![d][l] = "gone"]
               /\ queue' = [queue EXCEPT ![d][l] = <<>>]
               /\ UNCHANGED <<slot, wire>>
<1>1. UNCHANGED <<air, job, sent, got, subs, origin>>
  BY DEF LinkStep, Register, Flush, Close, Release, DropRx
<1>2. CASE Register(d, l)
  <2>1. Other(l, d) \in Devices BY <1>2, PairFacts DEF Register
  <2> QED BY <1>1, <1>2, <2>1 DEF Register
<1>3. CASE Flush(d, l) BY <1>1, <1>3 DEF Flush, Running
<1>4. CASE Close(d, l) BY <1>1, <1>4 DEF Close, Running
<1>5. CASE Release(d, l)
  <2>1. slot' = [slot EXCEPT ![d] =
                    [e \in Devices |-> IF slot[d][e] = l THEN None ELSE slot[d][e]]]
    BY <1>5 DEF Release
  <2> QED BY <1>1, <1>5, <2>1 DEF Release
<1>6. CASE DropRx(d, l) BY <1>1, <1>6 DEF DropRx
<1> QED BY <1>2, <1>3, <1>4, <1>5, <1>6 DEF LinkStep

\* What they do to them, entry by entry.
StageEffect(d, l) ==
    /\ \A x \in Devices, y \in Links : x # d \/ y # l => stage'[x][y] = stage[x][y]
    /\ \A x, e \in Devices : x # d => slot'[x][e] = slot[x][e]
    /\ \/ /\ <<d, l>> \in Ends /\ stage[d][l] = "new" /\ stage'[d][l] = "up"
          /\ slot[d][Other(l, d)] = None \/ Kind[l] = "webrtc"
          /\ \A e \in Devices : slot'[d][e] = IF e = Other(l, d) THEN l ELSE slot[d][e]
       \/ /\ <<d, l>> \in Ends /\ stage[d][l] = "new" /\ stage'[d][l] = "gone"
          /\ slot[d][Other(l, d)] # None /\ Kind[l] # "webrtc" /\ slot' = slot
       \/ stage[d][l] = "up" /\ stage'[d][l] \in {"up", "closing"} /\ slot' = slot
       \/ /\ stage[d][l] = "closing" /\ stage'[d][l] = "left"
          /\ \A e \in Devices : slot'[d][e] = IF slot[d][e] = l THEN None ELSE slot[d][e]
       \/ stage[d][l] = "left" /\ stage'[d][l] = "gone" /\ slot' = slot

\* Every step of a link end moves its stage, and its slot, as StageEffect says.
LEMMA StageFacts ==
  ASSUME Typed, NEW d \in Devices, NEW l \in Links, LinkStep(d, l) PROVE StageEffect(d, l)
<1>1. /\ slot \in [Devices -> [Devices -> Links \cup {None}]]
      /\ stage \in [Devices -> [Links -> {"new", "up", "closing", "left", "gone"}]]
  BY DEF Typed, LinkTypes
<1>2. CASE /\ <<d, l>> \in Ends /\ Other(l, d) \in Devices /\ stage[d][l] = "new"
           /\ slot[d][Other(l, d)] = None \/ Kind[l] = "webrtc"
           /\ stage' = [stage EXCEPT ![d][l] = "up"]
           /\ slot' = [slot EXCEPT ![d][Other(l, d)] = l]
  BY <1>1, <1>2 DEF StageEffect
<1>3. CASE /\ <<d, l>> \in Ends /\ stage[d][l] = "new"
           /\ slot[d][Other(l, d)] # None /\ Kind[l] # "webrtc"
           /\ stage' = [stage EXCEPT ![d][l] = "gone"] /\ slot' = slot
  BY <1>1, <1>3 DEF StageEffect
<1>4. CASE stage[d][l] = "up" /\ UNCHANGED <<slot, stage>> BY <1>1, <1>4 DEF StageEffect
<1>5. CASE stage[d][l] = "up" /\ stage' = [stage EXCEPT ![d][l] = "closing"] /\ slot' = slot
  BY <1>1, <1>5 DEF StageEffect
<1>6. CASE /\ stage[d][l] = "closing" /\ stage' = [stage EXCEPT ![d][l] = "left"]
           /\ slot' = [slot EXCEPT ![d] =
                              [e \in Devices |-> IF slot[d][e] = l THEN None ELSE slot[d][e]]]
  BY <1>1, <1>6 DEF StageEffect
<1>7. CASE stage[d][l] = "left" /\ stage' = [stage EXCEPT ![d][l] = "gone"] /\ slot' = slot
  BY <1>1, <1>7 DEF StageEffect
<1> QED BY LinkStepCases, <1>2, <1>3, <1>4, <1>5, <1>6, <1>7

\* A slot holds a link of its peer that is up or closing, after every step too.
LEMMA SlotStep == ASSUME Typed, SlotInv, StepKinds PROVE SlotInv'
<1>1. CASE UNCHANGED <<slot, stage>> BY <1>1 DEF SlotInv
<1>2. ASSUME NEW d \in Devices, NEW l \in Links, LinkStep(d, l) PROVE SlotInv'
  <2>0. StageEffect(d, l) BY <1>2, StageFacts
  <2>1. ASSUME NEW x \in Devices, NEW e \in Devices, slot'[x][e] # None
        PROVE  /\ <<x, slot'[x][e]>> \in Ends /\ Other(slot'[x][e], x) = e
               /\ stage'[x][slot'[x][e]] \in {"up", "closing"}
    <3>1. slot'[x][e] = slot[x][e] \/ (x = d /\ slot'[x][e] = l) BY <2>0, <2>1 DEF StageEffect
    <3>2. CASE x = d /\ slot'[x][e] = l /\ slot[x][e] # l
      <4>1. <<d, l>> \in Ends /\ e = Other(l, d) /\ stage'[d][l] = "up"
        BY <2>0, <2>1, <3>2 DEF StageEffect
      <4> QED BY <3>2, <4>1
    <3>3. CASE slot'[x][e] = slot[x][e]
      <4>1. /\ <<x, slot[x][e]>> \in Ends /\ Other(slot[x][e], x) = e
            /\ stage[x][slot[x][e]] \in {"up", "closing"} /\ slot[x][e] \in Links
        BY <2>1, <3>3 DEF SlotInv, Typed, LinkTypes
      <4>2. stage'[x][slot[x][e]] \in {"up", "closing"}
        BY <2>0, <2>1, <3>3, <4>1, SendAssumption DEF StageEffect
      <4> QED BY <3>3, <4>1, <4>2
    <3> QED BY <3>1, <3>2, <3>3
  <2>2. ASSUME NEW x \in Devices, NEW y \in Links, stage'[x][y] # "new" PROVE <<x, y>> \in Ends
    <3>1. CASE x = d /\ y = l BY <2>0, <3>1 DEF SlotInv, StageEffect
    <3>2. CASE ~(x = d /\ y = l) BY <2>0, <2>2, <3>2 DEF SlotInv, StageEffect
    <3> QED BY <3>1, <3>2
  <2> QED BY <2>1, <2>2 DEF SlotInv
<1> QED BY <1>1, <1>2, LinksKept

\* Links that have ended stay so, and a slot that is freed is freed by one that
\* ends.
LEMMA EndedGrows ==
  ASSUME Typed, SlotInv, StepKinds, NEW x \in Devices
  PROVE  /\ Ended(x) \subseteq Ended(x)'
         /\ Ended(x)' = Ended(x) => \A e \in Devices : slot[x][e] # None => slot'[x][e] # None
<1>1. CASE UNCHANGED <<slot, stage>> BY <1>1 DEF Ended
<1>2. ASSUME NEW d \in Devices, NEW l \in Links, LinkStep(d, l)
      PROVE  /\ Ended(x) \subseteq Ended(x)'
             /\ Ended(x)' = Ended(x) => \A e \in Devices : slot[x][e] # None => slot'[x][e] # None
  <2>1. StageEffect(d, l) BY <1>2, StageFacts
  <2>2. Ended(x) \subseteq Ended(x)' BY <2>1 DEF StageEffect, Ended
  <2>3. CASE x # d BY <2>1, <2>2, <2>3 DEF StageEffect
  <2>4. CASE x = d /\ stage'[d][l] \in {"left", "gone"} /\ stage[d][l] \notin {"left", "gone"}
    BY <2>2, <2>4 DEF Ended
  <2>5. CASE x = d /\ ~(stage'[d][l] \in {"left", "gone"} /\ stage[d][l] \notin {"left", "gone"})
    BY <2>1, <2>2, <2>5, SendAssumption DEF StageEffect
  <2> QED BY <2>3, <2>4, <2>5
<1> QED BY <1>1, <1>2, LinksKept

\* A job that has just begun.
LEMMA NewChoice ==
  ASSUME Typed, NEW d \in Devices, NEW todo, NEW text, NEW j, NextJob(j, d, todo, text),
         todo \subseteq Devices, UNCHANGED <<slot, stage>>
  PROVE  ChoiceOK(j)'
<1>1. Ended(d)' = Ended(d) BY DEF Ended
<1>2. CASE todo = {}
  <2>1. j.pc \in {"idle", "done"} BY <1>2 DEF NextJob
  <2> QED BY <2>1 DEF ChoiceOK
<1>3. CASE todo # {}
  <2>1. /\ j.pc = "send" /\ j.dev = d /\ j.to \in Devices
        /\ j.via = best_proto(d, j.to) /\ j.ended = Ended(d)
    BY <1>3 DEF NextJob
  <2>2. directed[d] # "WS" BY DEF Typed, SettingTypes
  <2>3. j.via = "WS" => slot[d][j.to] # None BY <2>1, <2>2 DEF best_proto
  <2>4. j.ended = Ended(d)' BY <1>1, <2>1
  <2> QED BY <2>1, <2>3, <2>4 DEF ChoiceOK
<1> QED BY <1>2, <1>3

\* A slot that a send has chosen is still taken, unless a link has ended since.
LEMMA ChoiceStep == ASSUME Typed, SlotInv, ChoiceInv, StepKinds PROVE ChoiceInv'
<1>1. ASSUME NEW u \in Threads, job'[u] = job[u] PROVE ChoiceOK(job[u])'
  <2>1. ChoiceOK(job[u]) BY DEF ChoiceInv
  <2>2. CASE job[u].pc = "send"
    <3>1. job[u].dev \in Devices /\ job[u].to \in Devices BY <2>2 DEF Typed, SentTypes, JobOK
    <3>2. /\ Ended(job[u].dev) \subseteq Ended(job[u].dev)'
          /\ Ended(job[u].dev)' = Ended(job[u].dev) =>
                \A e \in Devices : slot[job[u].dev][e] # None => slot'[job[u].dev][e] # None
      <4> DEFINE x == job[u].dev
      <4>1. x \in Devices BY <3>1
      <4>2. x' = x BY <1>1
      <4> HIDE DEF x
      <4>3. /\ Ended(x) \subseteq {l \in Links : stage'[x][l] \in {"left", "gone"}}
            /\ {l \in Links : stage'[x][l] \in {"left", "gone"}} = Ended(x) =>
                  \A e \in Devices : slot[x][e] # None => slot'[x][e] # None
        BY <4>1, EndedGrows DEF Ended
      <4> QED BY <4>2, <4>3 DEF Ended, x
    <3> QED BY <1>1, <2>1, <2>2, <3>1, <3>2 DEF ChoiceOK
  <2>3. CASE job[u].pc # "send" BY <1>1, <2>1, <2>3 DEF ChoiceOK
  <2> QED BY <2>2, <2>3
<1>2. CASE UNCHANGED job BY <1>1, <1>2 DEF ChoiceInv
<1>3. ASSUME NEW t \in Threads, NEW j \in JobRecs, job' = [job EXCEPT ![t] = j], ChoiceOK(j)'
      PROVE  ChoiceInv'
  <2>1. job'[t] = j /\ \A u \in Threads : u # t => job'[u] = job[u]
    BY <1>3 DEF Typed, SentTypes
  <2>2. ChoiceOK(job[t])' BY <1>3, <2>1 DEF ChoiceOK
  <2> QED BY <1>1, <2>1, <2>2 DEF ChoiceInv
<1>4. ASSUME NEW t, NEW r, NEW j, Sending(t, r, j), UNCHANGED <<slot, stage>> PROVE ChoiceInv'
  <2>1. /\ t \in Threads /\ j \in JobRecs /\ job' = [job EXCEPT ![t] = j]
        /\ job[t].pc \in {"send", "queue"} /\ NextJob(j, job[t].dev, job[t].todo, job[t].text)
    BY <1>4 DEF Sending
  <2>2. job[t].dev \in Devices /\ job[t].todo \subseteq Devices
    BY <2>1 DEF Typed, SentTypes, JobOK, JobRecs
  <2>3. ChoiceOK(j)' BY <1>4, <2>1, <2>2, NewChoice
  <2> QED BY <1>3, <2>1, <2>3
<1>5. ASSUME NEW t \in Threads, Finds(t) PROVE ChoiceInv'
  <2>1. PICK j \in JobRecs :
          /\ job[t].pc = "send" /\ slot[job[t].dev][job[t].to] # None
          /\ job' = [job EXCEPT ![t] = j] /\ j.pc = "queue"
          /\ j.dev = job[t].dev /\ j.to = job[t].to
          /\ j.ended = job[t].ended /\ j.via = slot[job[t].dev][job[t].to]
    BY <1>5 DEF Finds
  <2>2. job[t].dev \in Devices /\ job[t].to \in Devices BY <2>1 DEF Typed, SentTypes, JobOK
  <2>3. /\ <<j.dev, j.via>> \in Ends /\ Other(j.via, j.dev) = j.to
        /\ stage[j.dev][j.via] \in {"up", "closing"}
    BY <2>1, <2>2 DEF SlotInv
  <2>4. j.ended \subseteq Ended(j.dev) BY <2>1 DEF ChoiceInv, ChoiceOK
  <2>5. j.via \notin j.ended BY <2>3, <2>4 DEF Ended
  <2>6. ChoiceOK(j)' BY <2>1, <2>3, <2>5 DEF ChoiceOK
  <2> QED BY <1>3, <2>1, <2>6
<1>6. ASSUME NEW t \in Threads, Begins(t) PROVE ChoiceInv'
  <2>1. PICK d \in Devices, todo \in SUBSET Devices, text \in Texts, j \in JobRecs :
          job' = [job EXCEPT ![t] = j] /\ NextJob(j, d, todo, text)
    BY <1>6 DEF Begins
  <2>2. UNCHANGED <<slot, stage>> BY <1>6 DEF Begins, links
  <2>3. ChoiceOK(j)' BY <2>1, <2>2, NewChoice
  <2> QED BY <1>3, <2>1, <2>3
<1>7. ASSUME NEW r \in Receivers, NEW n \in Frames, Garbles(r, n) PROVE ChoiceInv'
  <2>1. PICK j \in JobRecs : job' = [job EXCEPT ![r] = j] /\ j.pc = "garbled"
    BY <1>7 DEF Garbles
  <2>2. ChoiceOK(j)' BY <2>1 DEF ChoiceOK
  <2> QED BY <1>3, <2>1, <2>2, ReceiverFacts
<1>8. ASSUME NEW r \in Receivers, NEW n \in Frames, NEW as, Handles(r, n, as) PROVE ChoiceInv'
  <2>1. PICK todo \in SUBSET Devices, text \in Texts, j \in JobRecs :
          Takes(r, n) /\ job' = [job EXCEPT ![r] = j] /\ NextJob(j, r[1], todo, text)
    BY <1>8 DEF Handles
  <2>2. UNCHANGED <<slot, stage>> BY <2>1, TakesCases DEF links
  <2>3. r \in Threads /\ r[1] \in Devices BY ReceiverFacts
  <2>4. ChoiceOK(j)' BY <2>1, <2>2, <2>3, NewChoice
  <2> QED BY <1>3, <2>1, <2>3, <2>4
<1>9. ASSUME NEW r \in Receivers, Shows(r) PROVE ChoiceInv'
  <2>1. job' = [job EXCEPT ![r] = Idle] /\ r \in Threads BY <1>9, ReceiverFacts DEF Shows
  <2>2. ChoiceOK(Idle)' BY IdleFacts DEF ChoiceOK, Idle
  <2> QED BY <1>3, <2>1, <2>2, IdleFacts
<1>10. ASSUME NEW t \in Threads, Refuses(t) \/ SendsDirect(t) \/ Queues(t) PROVE ChoiceInv'
  <2>1. \E r, j : Sending(t, r, j) BY <1>10 DEF Refuses, SendsDirect, Queues
  <2>2. UNCHANGED <<slot, stage>> BY <1>10 DEF Refuses, SendsDirect, Queues, links
  <2> QED BY <1>4, <2>1, <2>2
<1>11. ASSUME NEW d \in Devices, NEW l \in Links, LinkStep(d, l) PROVE ChoiceInv'
  BY <1>2, <1>11, LinkStepCases
<1>12. CASE UNCHANGED core BY <1>2, <1>12 DEF core
<1> QED BY <1>5, <1>6, <1>7, <1>8, <1>9, <1>10, <1>11, <1>12 DEF StepKinds

\* A new refusal comes with a link that has ended.
LEMMA RefusedStep ==
  ASSUME Typed, SlotInv, ChoiceInv, RefusedOnlyIfEnded, StepKinds PROVE RefusedOnlyIfEnded'
<1>1. CASE sent' = sent BY <1>1 DEF RefusedOnlyIfEnded, Frames
<1>2. ASSUME NEW t, NEW r, NEW j, Sending(t, r, j), r.res \in {"no link", "closed"} => r.ended
      PROVE  RefusedOnlyIfEnded'
  <2>1. /\ Frames' = Frames \cup {Len(sent) + 1}
        /\ sent'[Len(sent) + 1] = r /\ \A n \in Frames : sent'[n] = sent[n]
    BY <1>2, SendingStep
  <2> QED BY <1>2, <2>1 DEF RefusedOnlyIfEnded
<1>3. ASSUME NEW t \in Threads, Refuses(t) PROVE RefusedOnlyIfEnded'
  <2>1. PICK r \in SentRecs, j \in JobRecs :
          /\ Sending(t, r, j) /\ r.res # "ok"
          /\ r.res = "no link" => /\ job[t].pc = "send" /\ job[t].via = "WS"
                                  /\ slot[job[t].dev][job[t].to] = None
          /\ r.res = "closed" => job[t].pc = "queue" /\ stage[job[t].dev][job[t].via] = "gone"
    BY <1>3 DEF Refuses
  <2>2. r.ended = (Ended(job[t].dev) # job[t].ended) BY <2>1 DEF Sending
  <2>3. ASSUME r.res = "no link" PROVE Ended(job[t].dev) # job[t].ended
    BY <2>1, <2>3 DEF ChoiceInv, ChoiceOK
  <2>4. ASSUME r.res = "closed" PROVE Ended(job[t].dev) # job[t].ended
    <3>1. job[t].via \in Links BY <2>1, <2>4 DEF Typed, SentTypes, JobOK
    <3>2. job[t].via \notin job[t].ended BY <2>1, <2>4 DEF ChoiceInv, ChoiceOK
    <3>3. job[t].via \in Ended(job[t].dev) BY <2>1, <2>4, <3>1 DEF Ended
    <3> QED BY <3>2, <3>3
  <2>5. r.res \in {"no link", "closed"} => r.ended BY <2>2, <2>3, <2>4
  <2> QED BY <1>2, <2>1, <2>5
<1>4. ASSUME NEW t \in Threads, SendsDirect(t) \/ Queues(t) PROVE RefusedOnlyIfEnded'
  <2>1. PICK r, j : Sending(t, r, j) /\ r.res = "ok" BY <1>4 DEF SendsDirect, Queues
  <2>2. r.res \in {"no link", "closed"} => r.ended BY <2>1
  <2> QED BY <1>2, <2>1, <2>2
<1>5. \/ sent' = sent
      \/ \E t \in Threads : Refuses(t) \/ SendsDirect(t) \/ Queues(t)
  <2>1. CASE UNCHANGED core BY <2>1 DEF core
  <2>2. ASSUME NEW t \in Threads, Finds(t) \/ Begins(t) PROVE sent' = sent
    BY <2>2 DEF Finds, Begins
  <2>3. ASSUME NEW d \in Devices, NEW l \in Links, LinkStep(d, l) PROVE sent' = sent
    BY <2>3, LinkStepCases
  <2>4. ASSUME NEW r \in Receivers, NEW n \in Frames, NEW as, Garbles(r, n) \/ Handles(r, n, as)
        PROVE  sent' = sent
    BY <2>4 DEF Garbles, Handles, Takes
  <2>5. ASSUME NEW r \in Receivers, Shows(r) PROVE sent' = sent BY <2>5 DEF Shows
  <2> QED BY <2>1, <2>2, <2>3, <2>4, <2>5 DEF StepKinds
<1> QED BY <1>1, <1>3, <1>4, <1>5

-----------------------------------------------------------------------------
\* The steps by what they do to the places of frames.

QueuedSame == \A x \in Devices, y \in Links : Queued(x, y)' = Queued(x, y)
WrittenSame == \A x \in Devices, y \in Links : Written(x, y)' = Written(x, y)
QueuedTo(d, l, S) ==
    \A x \in Devices, y \in Links : Queued(x, y)' = IF x = d /\ y = l THEN S ELSE Queued(x, y)
WrittenTo(d, l, S) ==
    \A x \in Devices, y \in Links : Written(x, y)' = IF x = d /\ y = l THEN S ELSE Written(x, y)
Rests(T) == \A r \in Receivers \ T, n \in Nat : Garbled(r, n)' <=> Garbled(r, n)
HandledSame == \A x \in Devices : Handled(x)' = Handled(x)
HandledTo(d, n) ==
    \A x \in Devices : Handled(x)' = IF x = d THEN Handled(x) \cup {n} ELSE Handled(x)
NewFrame(n) == /\ n \in Nat /\ n \notin Frames /\ Frames' = Frames \cup {n}
               /\ \A m \in Frames : sent'[m] = sent[m] /\ m < n

\* Nothing but a refused send.
PNothing == /\ QueuedSame /\ WrittenSame /\ HandledSame /\ Rests({}) /\ air' = air
            /\ sent' = sent \/ \E n \in Nat : NewFrame(n) /\ ~Ok(n)'
PDirect(n) == /\ QueuedSame /\ WrittenSame /\ HandledSame /\ Rests({})
              /\ NewFrame(n) /\ Ok(n)' /\ sent'[n].via \in {"UDP", "TCP"}
              /\ air' = air \cup {n}
PQueued(n, d, l) == /\ WrittenSame /\ HandledSame /\ Rests({}) /\ air' = air
                    /\ NewFrame(n) /\ Ok(n)' /\ sent'[n].via = l /\ sent'[n].from = d
                    /\ <<d, l>> \in Ends /\ sent'[n].to = Other(l, d) /\ stage[d][l] # "gone"
                    /\ QueuedTo(d, l, Queued(d, l) \cup {n})
\* Written, or dropped by a data channel that refuses it.
PWritten(n, d, l) == /\ HandledSame /\ Rests({}) /\ air' = air /\ sent' = sent
                     /\ <<d, l>> \in Ends /\ n \in Queued(d, l)
                     /\ QueuedTo(d, l, Queued(d, l) \ {n})
                     /\ \/ WrittenTo(d, l, Written(d, l) \cup {n})
                        \/ Kind[l] = "webrtc" /\ WrittenSame
                     /\ Rising(queue[d][l]) => \A m \in Queued(d, l) \ {n} : n < m
PReleased(d, l) == /\ HandledSame /\ Rests({}) /\ air' = air /\ sent' = sent /\ WrittenSame
                   /\ QueuedTo(d, l, {}) /\ stage'[d][l] = "gone"
PTaken(n, r) ==
    LET l == r[2]
        e == Other(l, r[1]) IN
    /\ r \in Receivers /\ n \in Frames /\ sent' = sent /\ QueuedSame /\ job[r].pc = "idle"
    /\ IF r \in Ends
       THEN /\ n \in Written(e, l) /\ air' = air
            /\ \/ WrittenTo(e, l, Written(e, l) \ {n})
               \/ Kind[l] = "punch" /\ n \in again' /\ WrittenSame
            /\ Kind[l] = "ws" /\ Rising(wire[e][l]) => \A m \in Written(e, l) \ {n} : n < m
       ELSE /\ WrittenSame /\ n \in air /\ sent[n].to = r[1]
            /\ air' = air \ {n} \/ (n \in again' /\ air' = air)
PGarbled(n, r) == /\ PTaken(n, r) /\ HandledSame /\ Rests({r})
                  /\ \A m \in Nat : Garbled(r, m)' <=> m = n
PHandled(n, r) == PTaken(n, r) /\ Rests({}) /\ HandledTo(r[1], n)
PShown(n, r) == /\ QueuedSame /\ WrittenSame /\ air' = air /\ sent' = sent
                /\ r \in Receivers /\ n \in Frames /\ Garbled(r, n) /\ Rests({r})
                /\ \A m \in Nat : ~Garbled(r, m)'
                /\ HandledTo(r[1], n)

PlaceStep ==
    \/ PNothing
    \/ \E n \in Nat : PDirect(n)
    \/ \E n \in Nat, d \in Devices, l \in Links : PQueued(n, d, l) \/ PWritten(n, d, l)
    \/ \E d \in Devices, l \in Links : PReleased(d, l)
    \/ \E n \in Frames, r \in Receivers : PGarbled(n, r) \/ PHandled(n, r) \/ PShown(n, r)

\* Threads that open no frame before nor after.
LEMMA RestFacts ==
  ASSUME Typed, NEW t \in Threads, NEW j \in JobRecs, job' = [job EXCEPT ![t] = j],
         job[t].pc # "garbled"
  PROVE  Rests({t}) /\ (j.pc # "garbled" => Rests({}))
<1>1. job'[t] = j /\ \A u \in Threads : u # t => job'[u] = job[u] BY DEF Typed, SentTypes
<1>2. \A r \in Receivers : r \in Threads BY ReceiverFacts
<1> QED BY <1>1, <1>2 DEF Rests, Garbled

\* A send makes one new frame, and puts it where its way begins.
LEMMA SendingPlaces ==
  ASSUME Typed, NEW t, NEW r, NEW j, Sending(t, r, j)
  PROVE  \E n \in Nat : n = Len(sent) + 1 /\ Rests({}) /\ NewFrame(n) /\ sent'[n] = r
<1>1. /\ Len(sent) \in Nat /\ Len(sent) + 1 \notin Frames
      /\ Frames' = Frames \cup {Len(sent) + 1}
      /\ sent'[Len(sent) + 1] = r /\ \A n \in Frames : sent'[n] = sent[n] /\ n < Len(sent) + 1
  BY SendingStep
<1>2. /\ t \in Threads /\ j \in JobRecs /\ job' = [job EXCEPT ![t] = j] /\ j.pc # "garbled"
      /\ job[t].pc # "garbled"
  BY DEF Sending, NextJob
<1>3. Rests({}) BY <1>2, RestFacts
<1>4. Len(sent) + 1 \in Nat BY <1>1
<1> QED BY <1>1, <1>3, <1>4 DEF NewFrame

\* Frames are known by their numbers.
LEMMA FrameNumbers == ASSUME Typed, NEW n \in Frames PROVE n \in Nat
  BY DEF Typed, SentTypes, Frames

\* The list of what d has handled has grown by n.
Grown(d, n, as) ==
    /\ Len(got[d]) \in Nat /\ DOMAIN got[d] = 1 .. Len(got[d])
    /\ DOMAIN got'[d] = 1 .. Len(got[d]) + 1
    /\ got'[d][Len(got[d]) + 1] = [frame |-> n, as |-> as]
    /\ \A k \in DOMAIN got[d] : got'[d][k] = got[d][k]
    /\ \A y \in Devices : y # d => got'[y] = got[y]

\* A device's list of handled frames grows by one.
LEMMA DoneFacts ==
  ASSUME Typed, NEW r \in Receivers, NEW n \in Nat, NEW as, Done(r, n, as)
  PROVE  HandledTo(r[1], n) /\ Grown(r[1], n, as)
<1> DEFINE d == r[1]
           g == [frame |-> n, as |-> as]
<1>1. d \in Devices /\ got \in [Devices -> Seq(GotRecs)] BY ReceiverFacts DEF Typed, HandledTypes
<1>2. got' = [got EXCEPT ![d] = Append(got[d], g)] BY DEF Done
<1>3. got'[d] = Append(got[d], g) /\ \A x \in Devices : x # d => got'[x] = got[x]
  BY <1>1, <1>2
<1>4. got[d] \in Seq(GotRecs) BY <1>1
<1> HIDE DEF d
<1>5. /\ Len(got[d]) \in Nat /\ DOMAIN got[d] = 1 .. Len(got[d])
      /\ DOMAIN got'[d] = 1 .. Len(got[d]) + 1
      /\ got'[d][Len(got[d]) + 1] = g
      /\ \A i \in DOMAIN got[d] : got'[d][i] = got[d][i]
  BY <1>3, <1>4
<1>6. g.frame = n OBVIOUS
<1> HIDE DEF g
<1>7. Handled(d)' = Handled(d) \cup {n}
  <2>1. \A x \in Handled(d)' : x \in Handled(d) \cup {n}
    <3> SUFFICES ASSUME NEW i \in DOMAIN got'[d] PROVE got'[d][i].frame \in Handled(d) \cup {n}
      BY DEF Handled, d
    <3>1. CASE i = Len(got[d]) + 1 BY <1>5, <1>6, <3>1
    <3>2. CASE i # Len(got[d]) + 1
      <4>1. i \in DOMAIN got[d] BY <1>5, <3>2
      <4> QED BY <1>5, <4>1 DEF Handled
    <3> QED BY <3>1, <3>2
  <2>2. \A x \in Handled(d) : x \in Handled(d)'
    <3> SUFFICES ASSUME NEW i \in DOMAIN got[d] PROVE got[d][i].frame \in Handled(d)'
      BY DEF Handled
    <3>1. i \in DOMAIN got'[d] /\ got'[d][i] = got[d][i] BY <1>5
    <3> QED BY <3>1 DEF Handled, d
  <2>3. n \in Handled(d)'
    <3>1. Len(got[d]) + 1 \in DOMAIN got'[d] BY <1>5
    <3> QED BY <1>5, <1>6, <3>1 DEF Handled, d
  <2> QED BY <2>1, <2>2, <2>3
<1>8. \A x \in Devices : x # d => Handled(x)' = Handled(x) BY <1>3 DEF Handled
<1>9. HandledTo(d, n) BY <1>7, <1>8 DEF HandledTo, d
<1>10. Grown(d, n, as) BY <1>3, <1>5 DEF Grown, g
<1> QED BY <1>9, <1>10 DEF d

\* A receiver takes its frame from one place, and holds it nowhere else.
LEMMA TakesPlaces ==
  ASSUME Typed, TwiceInv, NEW r \in Receivers, NEW n \in Frames, Takes(r, n) PROVE PTaken(n, r)
<1> DEFINE l == r[2]
           e == Other(l, r[1])
<1>1. job[r].pc = "idle" /\ sent' = sent BY DEF Takes
<1>2. CASE r \in Ends
  <2>1. /\ e \in Devices /\ l \in Links /\ wire[e][l] \in Seq(Nat) /\ UNCHANGED <<queue, air>>
        /\ \E i \in 1 .. Len(wire[e][l]) :
              /\ i = 1 \/ Kind[l] = "punch"
              /\ n = wire[e][l][i]
              /\ \/ wire' = [wire EXCEPT ![e][l] = RemoveAt(wire[e][l], i)]
                 \/ Kind[l] = "punch" /\ n \in again' /\ wire' = wire
    BY <1>2, TakesCases
  <2>2. PICK i \in 1 .. Len(wire[e][l]) :
              /\ i = 1 \/ Kind[l] = "punch"
              /\ n = wire[e][l][i]
              /\ \/ wire' = [wire EXCEPT ![e][l] = RemoveAt(wire[e][l], i)]
                 \/ Kind[l] = "punch" /\ n \in again' /\ wire' = wire
    BY <2>1
  <2> HIDE DEF l, e
  <2>3. Distinct(wire[e][l]) BY <2>1 DEF TwiceInv
  <2>4. Range(RemoveAt(wire[e][l], i)) = Range(wire[e][l]) \ {n}
    BY <2>1, <2>2, <2>3, RemovedFacts
  <2>5. n \in Written(e, l) BY <2>1, <2>2, RangeFacts DEF Written
  <2>6. ASSUME wire' = [wire EXCEPT ![e][l] = RemoveAt(wire[e][l], i)]
        PROVE  WrittenTo(e, l, Written(e, l) \ {n})
    <3>1. /\ wire'[e][l] = RemoveAt(wire[e][l], i)
          /\ \A x \in Devices, y \in Links : x # e \/ y # l => wire'[x][y] = wire[x][y]
      BY <2>1, <2>6 DEF Typed, LinkTypes
    <3>2. \A x \in Devices, y \in Links : Range(wire'[x][y]) =
             IF x = e /\ y = l THEN Range(wire[e][l]) \ {n} ELSE Range(wire[x][y])
      BY <2>4, <3>1
    <3> QED BY <3>2 DEF WrittenTo, Written
  <2>7. \/ WrittenTo(e, l, Written(e, l) \ {n})
        \/ Kind[l] = "punch" /\ n \in again' /\ WrittenSame
    BY <2>2, <2>6 DEF WrittenSame, Written
  <2>8. ASSUME Kind[l] = "ws", Rising(wire[e][l]), NEW m \in Written(e, l) \ {n} PROVE n < m
    <3>1. i = 1 BY <2>2, <2>8
    <3>2. PICK k \in 1 .. Len(wire[e][l]) : wire[e][l][k] = m BY <2>1, <2>8, RangeFacts DEF Written
    <3>3. k # 1 BY <2>2, <2>8, <3>1, <3>2
    <3>4. 1 < k /\ 1 \in 1 .. Len(wire[e][l]) BY <3>2, <3>3, <2>1
    <3> QED BY <2>2, <2>8, <3>1, <3>2, <3>4 DEF Rising
  <2>9. QueuedSame BY <2>1 DEF QueuedSame, Queued
  <2> QED BY <1>1, <1>2, <2>1, <2>5, <2>7, <2>8, <2>9 DEF PTaken, e, l
<1>3. CASE r \notin Ends
  <2>1. /\ n \in air /\ sent[n].to = r[1] /\ UNCHANGED <<queue, wire>>
        /\ air' = air \ {n} \/ (n \in again' /\ air' = air)
    BY <1>3, TakesCases DEF links
  <2> QED BY <1>1, <1>3, <2>1 DEF PTaken, QueuedSame, WrittenSame, Queued, Written
<1> QED BY <1>2, <1>3

\* A frame that is handled at once goes from its place into the handled ones.
LEMMA HandlesPlaces ==
  ASSUME Typed, TwiceInv, NEW r \in Receivers, NEW n \in Frames, NEW as, Handles(r, n, as)
  PROVE  PHandled(n, r)
<1>1. PICK j \in JobRecs : /\ job' = [job EXCEPT ![r] = j] /\ j.pc # "garbled"
                           /\ Takes(r, n) /\ Done(r, n, as)
  BY DEF Handles, NextJob
<1>2. r \in Threads /\ job[r].pc # "garbled" BY <1>1, ReceiverFacts DEF Takes
<1>3. PTaken(n, r) /\ Rests({}) BY <1>1, <1>2, RestFacts, TakesPlaces
<1>4. HandledTo(r[1], n)
  <2>1. n \in Nat BY DEF Typed, SentTypes, Frames
  <2> QED BY <1>1, <2>1, DoneFacts
<1> QED BY <1>3, <1>4 DEF PHandled

\* A frame that was garbled goes from its receiver into the handled ones.
LEMMA ShowsPlaces ==
  ASSUME Typed, NEW r \in Receivers, Shows(r)
  PROVE  \E n \in Frames : n = job[r].frame /\ PShown(n, r)
<1>1. r \in Threads BY ReceiverFacts
<1>2. PICK n \in Frames : job[r].pc = "garbled" /\ n = job[r].frame
  BY <1>1 DEF Shows, Typed, SentTypes, JobOK
<1>3. job' = [job EXCEPT ![r] = Idle] /\ UNCHANGED <<links, air, sent>> BY DEF Shows
<1>4. PICK as : Done(r, n, as) BY <1>2 DEF Shows
<1>5. HandledTo(r[1], n)
  <2>1. n \in Nat BY DEF Typed, SentTypes, Frames
  <2> QED BY <1>4, <2>1, DoneFacts
<1>6. job'[r] = Idle /\ \A u \in Threads : u # r => job'[u] = job[u]
  BY <1>1, <1>3 DEF Typed, SentTypes
<1>7. Rests({r}) /\ \A m \in Nat : ~Garbled(r, m)'
  <2>1. \A u \in Receivers : u \in Threads BY ReceiverFacts
  <2> QED BY <1>6, <2>1, IdleFacts DEF Rests, Garbled
<1>8. Garbled(r, n) BY <1>2 DEF Garbled
<1>9. PShown(n, r) BY <1>2, <1>3, <1>5, <1>7, <1>8
  DEF PShown, links, QueuedSame, WrittenSame, Queued, Written
<1> QED BY <1>2, <1>9

\* Every step is one of these.
LEMMA Places == ASSUME Typed, TwiceInv, ChoiceInv, StepKinds PROVE PlaceStep
<1>1. ASSUME UNCHANGED <<queue, wire>> PROVE QueuedSame /\ WrittenSame
  BY <1>1 DEF QueuedSame, WrittenSame, Queued, Written
<1>2. ASSUME got' = got PROVE HandledSame BY <1>2 DEF HandledSame, Handled
<1>3. ASSUME job' = job PROVE Rests({}) BY <1>3 DEF Rests, Garbled
<1>4. CASE UNCHANGED core
  BY <1>1, <1>2, <1>3, <1>4 DEF core, links, PlaceStep, PNothing
<1>5. ASSUME NEW t \in Threads, Refuses(t) PROVE PlaceStep
  <2>1. PICK r \in SentRecs, j \in JobRecs : Sending(t, r, j) /\ r.res # "ok"
    BY <1>5 DEF Refuses
  <2>2. PICK n \in Nat : Rests({}) /\ NewFrame(n) /\ sent'[n] = r BY <2>1, SendingPlaces
  <2>3. ~Ok(n)' BY <2>1, <2>2 DEF Ok
  <2> QED BY <1>1, <1>2, <1>5, <2>2, <2>3 DEF Refuses, links, PlaceStep, PNothing
<1>6. ASSUME NEW t \in Threads, SendsDirect(t) PROVE PlaceStep
  <2>1. PICK r \in SentRecs, j \in JobRecs :
          Sending(t, r, j) /\ r.res = "ok" /\ r.via \in {"UDP", "TCP"}
    BY <1>6 DEF SendsDirect
  <2>2. PICK n \in Nat : n = Len(sent) + 1 /\ Rests({}) /\ NewFrame(n) /\ sent'[n] = r
    BY <2>1, SendingPlaces
  <2>3. air' = air \cup {n} /\ UNCHANGED <<links, got>> BY <1>6, <2>2 DEF SendsDirect
  <2>4. PDirect(n) BY <1>1, <1>2, <2>1, <2>2, <2>3 DEF links, PDirect, Ok
  <2> QED BY <2>4 DEF PlaceStep
<1>7. ASSUME NEW t \in Threads, Queues(t) PROVE PlaceStep
  <2>5. PICK d \in Devices, l \in Links : d = job[t].dev /\ l = job[t].via
    BY <1>7 DEF Queues, Typed, SentTypes, JobOK
  <2>1. PICK r \in SentRecs, j \in JobRecs : Sending(t, r, j) /\ r.res = "ok" /\ r.via = l
    BY <1>7, <2>5 DEF Queues
  <2>2. PICK n \in Nat : n = Len(sent) + 1 /\ Rests({}) /\ NewFrame(n) /\ sent'[n] = r
    BY <2>1, SendingPlaces
  <2>3. r.from = d /\ r.to = job[t].to BY <2>1, <2>5 DEF Sending
  <2>4. /\ job[t].pc = "queue" /\ stage[d][l] # "gone"
        /\ queue' = [queue EXCEPT ![d][l] = Append(queue[d][l], n)]
        /\ UNCHANGED <<wire, air, got>>
    BY <1>7, <2>2, <2>5 DEF Queues
  <2>6. <<d, l>> \in Ends /\ Other(l, d) = job[t].to BY <2>4, <2>5 DEF ChoiceInv, ChoiceOK
  <2>7. WrittenSame /\ HandledSame BY <1>2, <2>4 DEF WrittenSame, Written
  <2>9. QueuedTo(d, l, Queued(d, l) \cup {n})
    <3>1. /\ queue'[d][l] = Append(queue[d][l], n)
          /\ \A x \in Devices, y \in Links : x # d \/ y # l => queue'[x][y] = queue[x][y]
      BY <2>4 DEF Typed, LinkTypes
    <3>2. queue[d][l] \in Seq(Nat) BY DEF Typed, LinkTypes
    <3>3. Range(queue'[d][l]) = Range(queue[d][l]) \cup {n} BY <3>1, <3>2, AppendFacts
    <3>4. \A x \in Devices, y \in Links :
             Range(queue'[x][y]) = IF x = d /\ y = l THEN Range(queue[d][l]) \cup {n} ELSE Range(queue[x][y])
      BY <3>1, <3>3
    <3> QED BY <3>4 DEF QueuedTo, Queued
  <2>10. PQueued(n, d, l)
    BY <2>1, <2>2, <2>3, <2>4, <2>6, <2>7, <2>9 DEF PQueued, Ok
  <2> QED BY <2>10 DEF PlaceStep
<1>8. ASSUME NEW t \in Threads, Finds(t) \/ Begins(t) PROVE PlaceStep
  <2>1. PICK j \in JobRecs : /\ job' = [job EXCEPT ![t] = j]
                             /\ job[t].pc # "garbled" /\ j.pc # "garbled"
    BY <1>8 DEF Finds, Begins, NextJob
  <2>2. Rests({}) BY <2>1, RestFacts
  <2> QED BY <1>1, <1>2, <1>8, <2>2 DEF Finds, Begins, links, PlaceStep, PNothing
<1>9. ASSUME NEW d \in Devices, NEW l \in Links, LinkStep(d, l) PROVE PlaceStep
  <2>1. HandledSame /\ Rests({}) /\ air' = air /\ sent' = sent
    BY <1>2, <1>3, <1>9, LinkStepCases
  <2>2. CASE UNCHANGED <<queue, wire>> BY <1>1, <2>1, <2>2 DEF PlaceStep, PNothing
  <2>3. CASE /\ <<d, l>> \in Ends /\ queue[d][l] # <<>>
             /\ queue' = [queue EXCEPT ![d][l] = Tail(queue[d][l])]
             /\ \/ wire' = [wire EXCEPT ![d][l] = Append(wire[d][l], Head(queue[d][l]))]
                \/ Kind[l] = "webrtc" /\ wire' = wire
    <3> DEFINE n == Head(queue[d][l])
    <3>1. queue[d][l] \in Seq(Nat) /\ wire[d][l] \in Seq(Nat) /\ Distinct(queue[d][l])
      BY DEF Typed, LinkTypes, TwiceInv
    <3>2. /\ n \in Nat /\ Range(queue[d][l]) = Range(Tail(queue[d][l])) \cup {n}
          /\ n \notin Range(Tail(queue[d][l]))
          /\ Rising(queue[d][l]) => \A x \in Range(Tail(queue[d][l])) : n < x
      BY <2>3, <3>1, TailFacts
    <3> HIDE DEF n
    <3>3. n \in Queued(d, l) /\ Range(Tail(queue[d][l])) = Queued(d, l) \ {n}
      BY <3>2 DEF Queued
    <3>4. /\ queue'[d][l] = Tail(queue[d][l])
          /\ \A x \in Devices, y \in Links : x # d \/ y # l => queue'[x][y] = queue[x][y]
      BY <2>3 DEF Typed, LinkTypes
    <3>5. QueuedTo(d, l, Queued(d, l) \ {n})
      <4>1. \A x \in Devices, y \in Links : Range(queue'[x][y]) =
               IF x = d /\ y = l THEN Queued(d, l) \ {n} ELSE Range(queue[x][y])
        BY <3>3, <3>4
      <4> QED BY <4>1 DEF QueuedTo, Queued
    <3>6. CASE wire' = [wire EXCEPT ![d][l] = Append(wire[d][l], Head(queue[d][l]))]
      <4>1. /\ wire'[d][l] = Append(wire[d][l], n)
            /\ \A x \in Devices, y \in Links : x # d \/ y # l => wire'[x][y] = wire[x][y]
        BY <3>6 DEF Typed, LinkTypes, n
      <4>2. Range(wire'[d][l]) = Range(wire[d][l]) \cup {n} BY <3>1, <3>2, <4>1, AppendFacts
      <4>3. \A x \in Devices, y \in Links : Range(wire'[x][y]) =
               IF x = d /\ y = l THEN Range(wire[d][l]) \cup {n} ELSE Range(wire[x][y])
        BY <4>1, <4>2
      <4>4. WrittenTo(d, l, Written(d, l) \cup {n}) BY <4>3 DEF WrittenTo, Written
      <4>5. PWritten(n, d, l) BY <2>1, <2>3, <3>2, <3>3, <3>5, <4>4 DEF PWritten
      <4> QED BY <3>2, <4>5 DEF PlaceStep
    <3>7. CASE Kind[l] = "webrtc" /\ wire' = wire
      <4>1. WrittenSame BY <3>7 DEF WrittenSame, Written
      <4>2. PWritten(n, d, l) BY <2>1, <2>3, <3>2, <3>3, <3>5, <3>7, <4>1 DEF PWritten
      <4> QED BY <3>2, <4>2 DEF PlaceStep
    <3> QED BY <2>3, <3>6, <3>7
  <2>4. CASE /\ stage' = [stage EXCEPT ![d][l] = "gone"]
             /\ queue' = [queue EXCEPT ![d][l] = <<>>] /\ wire' = wire
    <3>1. /\ queue'[d][l] = <<>> /\ stage'[d][l] = "gone"
          /\ \A x \in Devices, y \in Links : x # d \/ y # l => queue'[x][y] = queue[x][y]
      BY <2>4 DEF Typed, LinkTypes
    <3>2. Range(<<>>) = {} BY DEF Range
    <3>3. QueuedTo(d, l, {}) BY <3>1, <3>2 DEF QueuedTo, Queued
    <3>4. WrittenSame BY <2>4 DEF WrittenSame, Written
    <3>5. PReleased(d, l) BY <2>1, <3>1, <3>3, <3>4 DEF PReleased
    <3> QED BY <3>5 DEF PlaceStep
  <2> QED BY <1>9, <2>2, <2>3, <2>4, LinkStepCases
<1>10. ASSUME NEW r \in Receivers, NEW n \in Frames, Garbles(r, n) PROVE PlaceStep
  <2>1. PICK j \in JobRecs : job' = [job EXCEPT ![r] = j] /\ j.pc = "garbled" /\ j.frame = n
    BY <1>10 DEF Garbles
  <2>2. r \in Threads /\ Takes(r, n) /\ job[r].pc # "garbled" /\ got' = got
    BY <1>10, ReceiverFacts DEF Garbles, Takes
  <2>3. PTaken(n, r) /\ HandledSame /\ Rests({r}) BY <1>2, <2>1, <2>2, RestFacts, TakesPlaces
  <2>4. job'[r] = j BY <2>1, <2>2 DEF Typed, SentTypes
  <2>5. \A m \in Nat : Garbled(r, m)' <=> m = n BY <2>1, <2>4 DEF Garbled
  <2>6. PGarbled(n, r) BY <2>3, <2>5 DEF PGarbled
  <2> QED BY <2>6 DEF PlaceStep
<1>11. ASSUME NEW r \in Receivers, NEW n \in Frames, NEW as, Handles(r, n, as) PROVE PlaceStep
  BY <1>11, HandlesPlaces DEF PlaceStep
<1>12. ASSUME NEW r \in Receivers, Shows(r) PROVE PlaceStep
  BY <1>12, ShowsPlaces DEF PlaceStep
<1> QED BY <1>4, <1>5, <1>6, <1>7, <1>8, <1>9, <1>10, <1>11, <1>12 DEF StepKinds

-----------------------------------------------------------------------------
\* No frame comes twice.

\* A new and larger number at the end keeps a sequence free of repetitions and
\* rising.
LEMMA AppendOrder ==
  ASSUME NEW s \in Seq(Nat), NEW x \in Nat
  PROVE  /\ Distinct(s) /\ x \notin Range(s) => Distinct(Append(s, x))
         /\ Rising(s) /\ (\A y \in Range(s) : y < x) => Rising(Append(s, x))
<1>1. /\ Append(s, x) \in Seq(Nat) /\ Len(Append(s, x)) = Len(s) + 1 /\ Len(s) \in Nat
      /\ Append(s, x)[Len(s) + 1] = x
      /\ \A i \in 1 .. Len(s) : Append(s, x)[i] = s[i] /\ s[i] \in Range(s)
  BY AppendFacts, RangeFacts
<1> DEFINE a == Append(s, x)
<1> HIDE DEF a
<1>2. ASSUME NEW i \in 1 .. Len(a) PROVE i \in 1 .. Len(s) \/ i = Len(s) + 1 BY <1>1 DEF a
<1>3. ASSUME Distinct(s), x \notin Range(s), NEW i \in 1 .. Len(a), NEW j \in 1 .. Len(a), a[i] = a[j]
      PROVE  i = j
  BY <1>1, <1>2, <1>3 DEF a, Distinct
<1>4. ASSUME Rising(s), \A y \in Range(s) : y < x, NEW i \in 1 .. Len(a), NEW j \in 1 .. Len(a), i < j
      PROVE  a[i] < a[j]
  <2>1. i \in 1 .. Len(s) BY <1>1, <1>2, <1>4 DEF a
  <2> QED BY <1>1, <1>2, <1>4, <2>1 DEF a, Rising
<1> QED BY <1>3, <1>4 DEF a, Distinct, Rising

\* What one step does to one queue and to one wire.
LEMMA QueueCases ==
  ASSUME Typed, AddressInv, StepKinds, NEW d \in Devices, NEW l \in Links
  PROVE  /\ \/ queue'[d][l] = queue[d][l]
            \/ \E n \in Nat : /\ queue'[d][l] = Append(queue[d][l], n)
                              /\ \A m \in Queued(d, l) : m < n
            \/ queue[d][l] # <<>> /\ queue'[d][l] = Tail(queue[d][l])
            \/ queue'[d][l] = <<>>
         /\ \/ wire'[d][l] = wire[d][l]
            \/ queue[d][l] # <<>> /\ wire'[d][l] = Append(wire[d][l], Head(queue[d][l]))
            \/ \E i \in 1 .. Len(wire[d][l]) : wire'[d][l] = RemoveAt(wire[d][l], i)
<1>0. /\ queue \in [Devices -> [Links -> Seq(Nat)]] /\ wire \in [Devices -> [Links -> Seq(Nat)]]
  BY DEF Typed, LinkTypes
<1>1. CASE UNCHANGED core BY <1>1 DEF core, links
<1>2. ASSUME NEW t \in Threads, Refuses(t) \/ SendsDirect(t) \/ Finds(t) \/ Begins(t)
      PROVE  UNCHANGED <<queue, wire>>
  BY <1>2 DEF Refuses, SendsDirect, Finds, Begins, links
<1>3. ASSUME NEW t \in Threads, Queues(t)
      PROVE  /\ wire' = wire
             /\ \/ queue'[d][l] = queue[d][l]
                \/ \E n \in Nat : /\ queue'[d][l] = Append(queue[d][l], n)
                                  /\ \A m \in Queued(d, l) : m < n
  <2>1. PICK n \in Nat : n = Len(sent) + 1 /\ NewFrame(n)
    BY <1>3, SendingPlaces DEF Queues
  <2>2. \A m \in Queued(d, l) : m < n BY <2>1 DEF NewFrame, AddressInv
  <2>3. PICK x \in Devices, y \in Links : x = job[t].dev /\ y = job[t].via
    BY <1>3 DEF Queues, Typed, SentTypes, JobOK
  <2>4. queue' = [queue EXCEPT ![x][y] = Append(queue[x][y], n)] /\ wire' = wire
    BY <1>3, <2>1, <2>3 DEF Queues
  <2>5. CASE x = d /\ y = l
    <3>1. queue'[d][l] = Append(queue[d][l], n) BY <1>0, <2>4, <2>5
    <3> QED BY <2>2, <2>4, <3>1
  <2>6. CASE ~(x = d /\ y = l)
    <3>1. queue'[d][l] = queue[d][l] BY <1>0, <2>4, <2>6
    <3> QED BY <2>4, <3>1
  <2> QED BY <2>5, <2>6
<1>4. ASSUME NEW x \in Devices, NEW y \in Links, LinkStep(x, y)
      PROVE  /\ \/ queue'[d][l] = queue[d][l]
                \/ queue[d][l] # <<>> /\ queue'[d][l] = Tail(queue[d][l])
                \/ queue'[d][l] = <<>>
             /\ \/ wire'[d][l] = wire[d][l]
                \/ queue[d][l] # <<>> /\ wire'[d][l] = Append(wire[d][l], Head(queue[d][l]))
  <2>1. \/ UNCHANGED <<queue, wire>>
        \/ /\ queue[x][y] # <<>>
           /\ queue' = [queue EXCEPT ![x][y] = Tail(queue[x][y])]
           /\ \/ wire' = [wire EXCEPT ![x][y] = Append(wire[x][y], Head(queue[x][y]))]
              \/ wire' = wire
        \/ queue' = [queue EXCEPT ![x][y] = <<>>] /\ wire' = wire
    BY <1>4, LinkStepCases
  <2>2. CASE x = d /\ y = l
    <3>1. CASE UNCHANGED <<queue, wire>> BY <3>1
    <3>2. CASE /\ queue[d][l] # <<>> /\ queue' = [queue EXCEPT ![d][l] = Tail(queue[d][l])]
               /\ wire' = [wire EXCEPT ![d][l] = Append(wire[d][l], Head(queue[d][l]))]
      BY <1>0, <3>2
    <3>3. CASE /\ queue[d][l] # <<>> /\ queue' = [queue EXCEPT ![d][l] = Tail(queue[d][l])]
               /\ wire' = wire
      BY <1>0, <3>3
    <3>4. CASE queue' = [queue EXCEPT ![d][l] = <<>>] /\ wire' = wire BY <1>0, <3>4
    <3> QED BY <2>1, <2>2, <3>1, <3>2, <3>3, <3>4
  <2>3. CASE ~(x = d /\ y = l) BY <1>0, <2>1, <2>3
  <2> QED BY <2>2, <2>3
<1>5. ASSUME NEW r \in Receivers, NEW n \in Frames, Takes(r, n)
      PROVE  /\ queue' = queue
             /\ \/ wire'[d][l] = wire[d][l]
                \/ \E i \in 1 .. Len(wire[d][l]) : wire'[d][l] = RemoveAt(wire[d][l], i)
  <2>1. CASE r \notin Ends BY <1>5, <2>1, TakesCases DEF links
  <2>2. CASE r \in Ends
    <3> DEFINE y == r[2]
               x == Other(y, r[1])
    <3>1. /\ x \in Devices /\ y \in Links /\ queue' = queue
          /\ \E i \in 1 .. Len(wire[x][y]) :
                wire' = [wire EXCEPT ![x][y] = RemoveAt(wire[x][y], i)] \/ wire' = wire
      BY <1>5, <2>2, TakesCases
    <3> HIDE DEF x, y
    <3>2. PICK i \in 1 .. Len(wire[x][y]) :
              wire' = [wire EXCEPT ![x][y] = RemoveAt(wire[x][y], i)] \/ wire' = wire
      BY <3>1
    <3>3. CASE x = d /\ y = l
      <4>1. wire'[d][l] = RemoveAt(wire[d][l], i) \/ wire'[d][l] = wire[d][l] BY <1>0, <3>2, <3>3
      <4> QED BY <3>1, <3>2, <3>3, <4>1
    <3>4. CASE ~(x = d /\ y = l)
      <4>1. CASE wire' = wire BY <3>1, <4>1
      <4>2. CASE wire' = [wire EXCEPT ![x][y] = RemoveAt(wire[x][y], i)]
        BY <1>0, <3>1, <3>4, <4>2
      <4> QED BY <3>1, <3>2, <4>1, <4>2
    <3> QED BY <3>3, <3>4
  <2> QED BY <2>1, <2>2
<1>6. ASSUME NEW r \in Receivers, NEW n \in Frames, NEW as, Garbles(r, n) \/ Handles(r, n, as)
      PROVE  Takes(r, n)
  BY <1>6 DEF Garbles, Handles
<1>7. ASSUME NEW r \in Receivers, Shows(r) PROVE UNCHANGED <<queue, wire>>
  BY <1>7 DEF Shows, links
<1> QED BY <1>1, <1>2, <1>3, <1>4, <1>5, <1>6, <1>7 DEF StepKinds

\* The network repeats datagrams, and nothing else.
LEMMA AgainStep == ASSUME Typed, AddressInv, [Next]_vars PROVE AgainGrows
<1>1. CASE again' = again BY <1>1 DEF AgainGrows
<1>2. ASSUME NEW r \in Receivers, HandleIncoming(r) PROVE AgainGrows
  <2>1. PICK n \in Frames : Read(r, n) \/ RecvLoop(r, n) BY <1>2 DEF HandleIncoming
  <2>2. CASE Read(r, n)
    <3> DEFINE l == r[2]
               e == Other(l, r[1])
    <3>1. /\ r \in Ends /\ n \in {wire[e][l][i] : i \in DOMAIN wire[e][l]}
          /\ again' = again \/ (Kind[l] = "punch" /\ again' = again \cup {n})
      BY <2>2 DEF Read, Repeat, fate
    <3>2. e \in Devices /\ l \in Links BY <3>1, PairFacts
    <3>3. n \in Written(e, l)
      <4>1. wire[e][l] \in Seq(Nat) BY <3>2 DEF Typed, LinkTypes
      <4> QED BY <3>1, <4>1, RangeFacts DEF Written
    <3>4. sent[n].via = l BY <3>2, <3>3 DEF AddressInv
    <3> QED BY <1>1, <3>1, <3>2, <3>4 DEF AgainGrows, Repeatable
  <2>3. CASE RecvLoop(r, n)
    <3>1. again' = again \/ (sent[n].via = "UDP" /\ again' = again \cup {n})
      BY <2>3 DEF RecvLoop, Repeat, fate
    <3> QED BY <1>1, <3>1 DEF AgainGrows, Repeatable
  <2> QED BY <2>1, <2>2, <2>3
<1>3. CASE SendNext /\ UNCHANGED appVars BY <1>1, <1>3 DEF appVars, fate
<1>4. ASSUME NEW c \in Calls, NEW d \in Devices, Start(c, d) PROVE again' = again
  BY <1>4 DEF Start, send, broadcast_control, share_app_notification, request_apps, subscribe_apps,
     Call, appVars, fate
<1>5. ASSUME NEW d \in Devices, NEW apps, set_installed_apps(d, apps) PROVE again' = again
  BY <1>5 DEF set_installed_apps, fate
<1>6. CASE UNCHANGED vars BY <1>1, <1>6 DEF vars, appVars, fate
<1> QED BY <1>1, <1>2, <1>3, <1>4, <1>5, <1>6 DEF Next

\* Queues and wires stay free of repetitions, and rising where they were.
LEMMA QueueStep ==
  ASSUME Typed, AddressInv, TwiceInv, OnceInv, AgainGrows, StepKinds, NEW d \in Devices, NEW l \in Links
  PROVE  /\ Distinct(queue'[d][l]) /\ Distinct(wire'[d][l])
         /\ Rising(queue[d][l]) => Rising(queue'[d][l])
         /\ /\ Rising(wire[d][l])
            /\ \A n \in Written(d, l), m \in Queued(d, l) : n < m
            => Rising(wire'[d][l])
<1> DEFINE q == queue[d][l]
           w == wire[d][l]
<1>1. /\ q \in Seq(Nat) /\ w \in Seq(Nat) /\ Distinct(q) /\ Distinct(w)
  BY DEF Typed, LinkTypes, TwiceInv
<1>2. Range(q) \cap Range(w) = {} BY DEF OnceInv, Queued, Written
<1>3. Queued(d, l) = Range(q) /\ Written(d, l) = Range(w) BY DEF Queued, Written
<1>4. /\ \/ queue'[d][l] = q
         \/ \E n \in Nat : queue'[d][l] = Append(q, n) /\ \A m \in Range(q) : m < n
         \/ q # <<>> /\ queue'[d][l] = Tail(q)
         \/ queue'[d][l] = <<>>
      /\ \/ wire'[d][l] = w
         \/ q # <<>> /\ wire'[d][l] = Append(w, Head(q))
         \/ \E i \in 1 .. Len(w) : wire'[d][l] = RemoveAt(w, i)
  BY <1>3, QueueCases
<1> HIDE DEF q, w
<1>5. Distinct(queue'[d][l]) /\ (Rising(q) => Rising(queue'[d][l]))
  <2>1. CASE queue'[d][l] = q BY <1>1, <2>1
  <2>2. ASSUME NEW n \in Nat, queue'[d][l] = Append(q, n), \A m \in Range(q) : m < n
        PROVE  Distinct(queue'[d][l]) /\ (Rising(q) => Rising(queue'[d][l]))
    <3>1. n \notin Range(q) BY <2>2
    <3> QED BY <1>1, <2>2, <3>1, AppendOrder
  <2>3. CASE q # <<>> /\ queue'[d][l] = Tail(q) BY <1>1, <2>3, TailFacts
  <2>4. CASE queue'[d][l] = <<>> BY <2>4 DEF Distinct, Rising
  <2> QED BY <1>4, <2>1, <2>2, <2>3, <2>4
<1>6. /\ Distinct(wire'[d][l])
      /\ Rising(w) /\ (\A n \in Range(w), m \in Range(q) : n < m) => Rising(wire'[d][l])
  <2>1. CASE wire'[d][l] = w BY <1>1, <2>1
  <2>2. CASE q # <<>> /\ wire'[d][l] = Append(w, Head(q))
    <3>1. Head(q) \in Nat /\ Head(q) \in Range(q) BY <1>1, <2>2, TailFacts
    <3>2. Head(q) \notin Range(w) BY <1>2, <3>1
    <3> QED BY <1>1, <2>2, <3>1, <3>2, AppendOrder
  <2>3. ASSUME NEW i \in 1 .. Len(w), wire'[d][l] = RemoveAt(w, i)
        PROVE  Distinct(wire'[d][l]) /\ (Rising(w) => Rising(wire'[d][l]))
    BY <1>1, <2>3, RemovedFacts
  <2> QED BY <1>4, <2>1, <2>2, <2>3
<1> QED BY <1>3, <1>5, <1>6 DEF q, w


\* Every frame keeps what it was sent as.
LEMMA SentFacts ==
  ASSUME Typed, PlaceStep
  PROVE  /\ \A n \in Frames : n \in Nat /\ n \in Frames' /\ sent'[n] = sent[n] /\ Ok(n)' = Ok(n)
         /\ sent' = sent \/ \E n \in Nat : NewFrame(n)
<1>1. sent' = sent \/ \E n \in Nat : NewFrame(n)
  BY DEF PlaceStep, PNothing, PDirect, PQueued, PWritten, PReleased, PGarbled, PHandled, PTaken, PShown
<1>2. \A n \in Frames : n \in Nat BY DEF Typed, SentTypes, Frames
<1>3. \A n \in Frames : n \in Frames' /\ sent'[n] = sent[n] BY <1>1 DEF NewFrame, Frames
<1> QED BY <1>1, <1>2, <1>3 DEF Ok

\* What is written to a link is for the other end.
LEMMA WayFacts ==
  ASSUME AddressInv, NEW x \in Ends, NEW n \in Written(Other(x[2], x[1]), x[2])
  PROVE  /\ n \in Frames /\ Ok(n) /\ sent[n].via = x[2] /\ sent[n].from = Other(x[2], x[1])
         /\ sent[n].to = x[1]
<1> DEFINE e == Other(x[2], x[1])
           l == x[2]
<1>1. e \in Devices /\ l \in Links /\ Other(l, e) = x[1] BY PairFacts
<1>2. n \in Frames /\ Ok(n) /\ sent[n].via = l /\ sent[n].from = e BY <1>1 DEF AddressInv
<1>3. \A m \in Frames : sent[m].via \in Links => sent[m].to = Other(sent[m].via, sent[m].from)
  BY DEF AddressInv
<1> HIDE DEF e, l
<1>4. sent[n].to = Other(l, e) BY <1>1, <1>2, <1>3
<1> QED BY <1>1, <1>2, <1>4 DEF e, l

\* What does not grow.
LEMMA TakenLess ==
  ASSUME NEW n, NEW r, PTaken(n, r)
  PROVE  /\ air' \subseteq air
         /\ \A x \in Devices, y \in Links :
               Queued(x, y)' = Queued(x, y) /\ Written(x, y)' \subseteq Written(x, y)
  BY DEF PTaken, QueuedSame, WrittenSame, WrittenTo

\* Where a frame can be next.
LEMMA AddressStep ==
  ASSUME Typed, Typed', AddressInv, PlaceStep PROVE AddressInv'
<1>0. \A n \in Frames : n \in Nat /\ n \in Frames' /\ sent'[n] = sent[n] /\ Ok(n)' = Ok(n)
  BY SentFacts
<1>1. ASSUME NEW n \in Frames', sent'[n].via \in Links
      PROVE  /\ <<sent'[n].from, sent'[n].via>> \in Ends
             /\ sent'[n].to = Other(sent'[n].via, sent'[n].from)
  <2>1. CASE n \in Frames BY <1>0, <1>1, <2>1 DEF AddressInv
  <2>2. CASE n \notin Frames
    <3>1. SentOK(n)' BY DEF Typed, SentTypes
    <3>2. Ok(n)' BY <1>1, <3>1, SendAssumption DEF SentOK
    <3>3. NewFrame(n)
      <4>1. sent' # sent BY <2>2 DEF Frames
      <4>2. PICK m \in Nat : NewFrame(m) BY <4>1, SentFacts
      <4> QED BY <2>2, <4>2 DEF NewFrame
    <3>4. \E d \in Devices, l \in Links : PQueued(n, d, l)
      <4>1. sent' # sent /\ \A m \in Nat : NewFrame(m) => m = n
        BY <2>2, <3>3 DEF NewFrame, Frames
      <4>2. ~PNothing BY <3>2, <4>1 DEF PNothing
      <4>3. \A m \in Nat : ~PDirect(m) BY <1>1, <4>1, SendAssumption DEF PDirect
      <4>4. \A d \in Devices, l \in Links, m \in Nat : ~PWritten(m, d, l) /\ ~PReleased(d, l)
        BY <4>1 DEF PWritten, PReleased
      <4>5. \A m \in Frames, r \in Receivers : ~PGarbled(m, r) /\ ~PHandled(m, r) /\ ~PShown(m, r)
        BY <4>1 DEF PGarbled, PHandled, PTaken, PShown
      <4>6. PICK m \in Nat, d \in Devices, l \in Links : PQueued(m, d, l)
        BY <4>2, <4>3, <4>4, <4>5 DEF PlaceStep
      <4>7. m = n BY <4>1, <4>6 DEF PQueued
      <4> QED BY <4>6, <4>7
    <3> QED BY <3>4 DEF PQueued
  <2> QED BY <2>1, <2>2
<1>2. ASSUME NEW n \in air'
      PROVE  n \in Frames' /\ Ok(n)' /\ sent'[n].via \in {"UDP", "TCP"}
  <2>1. CASE n \in air BY <1>0, <2>1 DEF AddressInv
  <2>2. CASE n \notin air
    <3>0. \A m, r : ~PTaken(m, r) BY <1>2, <2>2, TakenLess
    <3>1. \E m \in Nat : PDirect(m)
      BY <1>2, <2>2, <3>0
      DEF PlaceStep, PNothing, PQueued, PWritten, PReleased, PGarbled, PHandled, PShown
    <3>2. PDirect(n) BY <1>2, <2>2, <3>1 DEF PDirect
    <3> QED BY <3>2 DEF PDirect, NewFrame
  <2> QED BY <2>1, <2>2
<1>3. ASSUME NEW d \in Devices, NEW l \in Links, NEW n \in Queued(d, l)' \cup Written(d, l)'
      PROVE  n \in Frames' /\ Ok(n)' /\ sent'[n].via = l /\ sent'[n].from = d
  <2>1. CASE n \in Queued(d, l) \cup Written(d, l) BY <1>0, <2>1 DEF AddressInv
  <2>2. CASE n \notin Queued(d, l) \cup Written(d, l)
    <3>0. \A m, r : ~PTaken(m, r) BY <1>3, <2>2, TakenLess
    <3>1. \E m \in Nat, x \in Devices, y \in Links : PQueued(m, x, y)
      BY <1>3, <2>2, <3>0
      DEF PlaceStep, PNothing, PDirect, PWritten, PReleased, PGarbled, PHandled, PShown,
          QueuedSame, WrittenSame, QueuedTo, WrittenTo
    <3>2. PQueued(n, d, l) BY <1>3, <2>2, <3>1 DEF PQueued, WrittenSame, QueuedTo
    <3> QED BY <3>2 DEF PQueued, NewFrame
  <2> QED BY <2>1, <2>2
<1>4. ASSUME NEW r \in Receivers, job'[r].pc = "garbled"
      PROVE  LET n == job'[r].frame IN
             /\ n \in Frames' /\ sent'[n].res = "ok" /\ sent'[n].to = r[1]
             /\ IF r \in Ends THEN sent'[n].via = r[2] ELSE sent'[n].via \in {"UDP", "TCP"}
  <2>1. r \in Threads /\ r[1] \in Devices BY ReceiverFacts
  <2>2. PICK n \in Nat : n = job'[r].frame BY <2>1 DEF Typed, SentTypes, JobRecs
  <2>3. Garbled(r, n)' BY <1>4, <2>2 DEF Garbled
  <2>4. /\ n \in Frames /\ Ok(n) /\ sent[n].to = r[1]
        /\ IF r \in Ends THEN sent[n].via = r[2] ELSE sent[n].via \in {"UDP", "TCP"}
    <3>1. CASE Garbled(r, n) BY <3>1 DEF Garbled, AddressInv
    <3>2. CASE ~Garbled(r, n)
      <4>1. \E m \in Frames, u \in Receivers : PGarbled(m, u)
        BY <2>3, <3>2
        DEF PlaceStep, PNothing, PDirect, PQueued, PWritten, PReleased, PHandled, PShown, Rests
      <4>2. PGarbled(n, r) BY <2>3, <3>2, <4>1 DEF PGarbled, Rests
      <4>3. CASE r \in Ends
        <5>1. n \in Written(Other(r[2], r[1]), r[2]) BY <4>2, <4>3 DEF PGarbled, PTaken
        <5> QED BY <4>3, <5>1, WayFacts
      <4>4. CASE r \notin Ends BY <4>2, <4>4 DEF PGarbled, PTaken, AddressInv
      <4> QED BY <4>3, <4>4
    <3> QED BY <3>1, <3>2
  <2> QED BY <1>0, <2>2, <2>4 DEF Ok
<1>5. ASSUME NEW d \in Devices, NEW n \in Handled(d)'
      PROVE  n \in Frames' /\ Ok(n)' /\ sent'[n].to = d
  <2>1. n \in Frames /\ Ok(n) /\ sent[n].to = d
    <3>1. CASE n \in Handled(d) BY <3>1 DEF AddressInv
    <3>2. CASE n \notin Handled(d)
      <4>1. \E m \in Frames, u \in Receivers : PHandled(m, u) \/ PShown(m, u)
        BY <1>5, <3>2
        DEF PlaceStep, PNothing, PDirect, PQueued, PWritten, PReleased, PGarbled, HandledSame
      <4>2. PICK r \in Receivers : (PHandled(n, r) \/ PShown(n, r)) /\ d = r[1] /\ n \in Frames
        BY <1>5, <3>2, <4>1 DEF PHandled, PShown, HandledTo
      <4>3. CASE PHandled(n, r) /\ r \in Ends
        <5>1. n \in Written(Other(r[2], r[1]), r[2]) BY <4>3 DEF PHandled, PTaken
        <5> QED BY <4>2, <4>3, <5>1, WayFacts
      <4>4. CASE PHandled(n, r) /\ r \notin Ends BY <4>2, <4>4 DEF PHandled, PTaken, AddressInv
      <4>5. CASE PShown(n, r) BY <4>2, <4>5 DEF PShown, Garbled, AddressInv
      <4> QED BY <4>2, <4>3, <4>4, <4>5
    <3> QED BY <3>1, <3>2
  <2> QED BY <1>0, <2>1
<1> QED BY <1>1, <1>2, <1>3, <1>4, <1>5 DEF AddressInv, Ok

\* A frame that is taken was only there, unless it has been repeated.
LEMMA TakenAway ==
  ASSUME Typed, AddressInv, OnceInv, AgainGrows, NEW n, NEW r, PTaken(n, r), n \notin again'
  PROVE  /\ n \notin air' /\ (\A x \in Devices, y \in Links : n \notin Queued(x, y)' \cup Written(x, y)')
         /\ \A u \in Receivers : ~Garbled(u, n)
         /\ \A d \in Devices : n \notin Handled(d)
<1> DEFINE l == r[2]
           e == Other(l, r[1])
<1>1. r \in Receivers /\ n \in Frames BY DEF PTaken
<1>2. ASSUME n \in air \/ \E x \in Devices, y \in Links : n \in Written(x, y)
      PROVE  (\A u \in Receivers : ~Garbled(u, n)) /\ \A d \in Devices : n \notin Handled(d)
  BY <1>1, <1>2 DEF OnceInv, AgainGrows
<1>3. CASE r \in Ends
  <2>1. /\ n \in Written(e, l) /\ WrittenTo(e, l, Written(e, l) \ {n}) /\ QueuedSame /\ air' = air
    BY <1>3 DEF PTaken
  <2>2. e \in Devices /\ l \in Links BY <1>3, PairFacts
  <2>3. sent[n].via = l /\ sent[n].from = e BY <2>1, <2>2 DEF AddressInv
  <2>4. n \notin air BY <2>2, <2>3, SendAssumption DEF AddressInv
  <2>5. \A x \in Devices, y \in Links : n \in Queued(x, y) \cup Written(x, y) => x = e /\ y = l
    BY <2>3 DEF AddressInv
  <2>6. n \notin Queued(e, l) BY <2>1, <2>2 DEF OnceInv
  <2> HIDE DEF e, l
  <2>7. \A x \in Devices, y \in Links : n \notin Queued(x, y)' \cup Written(x, y)'
    BY <2>1, <2>5, <2>6 DEF QueuedSame, WrittenTo
  <2> QED BY <1>2, <2>1, <2>2, <2>4, <2>7
<1>4. CASE r \notin Ends
  <2>1. n \in air /\ air' = air \ {n} /\ QueuedSame /\ WrittenSame BY <1>4 DEF PTaken
  <2>2. sent[n].via \in {"UDP", "TCP"} BY <2>1 DEF AddressInv
  <2>3. \A x \in Devices, y \in Links : n \notin Queued(x, y) \cup Written(x, y)
    BY <2>2, SendAssumption DEF AddressInv
  <2> QED BY <1>2, <2>1, <2>3 DEF QueuedSame, WrittenSame
<1> QED BY <1>3, <1>4

\* After every step, too, a frame is in one place only.
LEMMA OnceStep == ASSUME Typed, AddressInv, OnceInv, AgainGrows, PlaceStep PROVE OnceInv'
<1>1. /\ \A r \in Receivers, n \in Nat : Garbled(r, n) => n \in Frames
      /\ \A d \in Devices : \A n \in Handled(d) : n \in Frames
      /\ \A d \in Devices, l \in Links : \A n \in Queued(d, l) \cup Written(d, l) : n \in Frames
  BY DEF AddressInv, Garbled
<1>2. \A n \in Frames : n \in Nat BY DEF Typed, SentTypes, Frames
<1>3. \A n \in Frames' : n \in Nat
  <2>1. sent' = sent \/ \E n \in Nat : NewFrame(n) BY SentFacts
  <2> QED BY <1>2, <2>1 DEF NewFrame, Frames
<1>a. \A n \in again' : (n \in Frames /\ Repeatable(n))'
  <2>1. \A n \in again' : n \in Frames /\ Repeatable(n) BY DEF OnceInv, AgainGrows
  <2> QED BY <2>1, SentFacts DEF Repeatable
<1>b. \A n : n \notin again' => n \notin again BY DEF AgainGrows
<1>4. CASE PNothing \/ \E n \in Nat : PDirect(n)
  <2>1. /\ QueuedSame /\ WrittenSame /\ HandledSame /\ Rests({})
        /\ \A n \in air' : n \in air \/ (n \in Nat /\ n \notin Frames)
    BY <1>4 DEF PNothing, PDirect, NewFrame
  <2>2. \A d \in Devices, l \in Links : Queued(d, l)' = Queued(d, l) /\ Written(d, l)' = Written(d, l)
    BY <2>1 DEF QueuedSame, WrittenSame
  <2>3. \A d \in Devices : Handled(d)' = Handled(d) BY <2>1 DEF HandledSame
  <2>4. \A r \in Receivers, n \in Nat : Garbled(r, n)' <=> Garbled(r, n) BY <2>1 DEF Rests
  <2> QED BY <1>a, <1>b, <1>1, <1>3, <2>1, <2>2, <2>3, <2>4, ReceiverFacts DEF OnceInv
<1>5. ASSUME NEW n \in Nat, NEW d \in Devices, NEW l \in Links, PQueued(n, d, l) PROVE OnceInv'
  <2>1. /\ n \notin Frames /\ air' = air
        /\ \A x \in Devices, y \in Links :
              /\ Queued(x, y)' \subseteq Queued(x, y) \cup {n} /\ Written(x, y)' = Written(x, y)
    BY <1>5 DEF PQueued, NewFrame, QueuedTo, WrittenSame
  <2>2. \A x \in Devices : Handled(x)' = Handled(x) BY <1>5 DEF PQueued, HandledSame
  <2>3. \A r \in Receivers, m \in Nat : Garbled(r, m)' <=> Garbled(r, m) BY <1>5 DEF PQueued, Rests
  <2> QED BY <1>a, <1>b, <1>1, <1>3, <2>1, <2>2, <2>3, ReceiverFacts DEF OnceInv
<1>6. ASSUME NEW n \in Nat, NEW d \in Devices, NEW l \in Links, PWritten(n, d, l) PROVE OnceInv'
  <2>1. /\ air' = air /\ Frames' = Frames
        /\ \A x \in Devices, y \in Links :
              Queued(x, y)' \cup Written(x, y)' \subseteq Queued(x, y) \cup Written(x, y)
    BY <1>6 DEF PWritten, QueuedTo, WrittenTo, WrittenSame, Frames
  <2>2. \A x \in Devices, y \in Links : Queued(x, y)' \cap Written(x, y)' = {}
    BY <1>6 DEF PWritten, QueuedTo, WrittenTo, WrittenSame, OnceInv
  <2>3. \A x \in Devices : Handled(x)' = Handled(x) BY <1>6 DEF PWritten, HandledSame
  <2>4. \A r \in Receivers, m \in Nat : Garbled(r, m)' <=> Garbled(r, m) BY <1>6 DEF PWritten, Rests
  <2> QED BY <1>a, <1>b, <1>2, <2>1, <2>2, <2>3, <2>4, ReceiverFacts DEF OnceInv
<1>7. ASSUME NEW d \in Devices, NEW l \in Links, PReleased(d, l) PROVE OnceInv'
  <2>1. /\ air' = air /\ Frames' = Frames
        /\ \A x \in Devices, y \in Links :
              Queued(x, y)' \subseteq Queued(x, y) /\ Written(x, y)' = Written(x, y)
    BY <1>7 DEF PReleased, QueuedTo, WrittenSame, Frames
  <2>3. \A x \in Devices : Handled(x)' = Handled(x) BY <1>7 DEF PReleased, HandledSame
  <2>4. \A r \in Receivers, m \in Nat : Garbled(r, m)' <=> Garbled(r, m) BY <1>7 DEF PReleased, Rests
  <2> QED BY <1>a, <1>b, <1>2, <2>1, <2>3, <2>4, ReceiverFacts DEF OnceInv
<1>8. ASSUME NEW n \in Frames, NEW r \in Receivers, PGarbled(n, r) PROVE OnceInv'
  <2>1. PTaken(n, r) /\ Frames' = Frames BY <1>8 DEF PGarbled, PTaken, Frames
  <2>2. n \notin again' =>
           /\ n \notin air' /\ (\A x \in Devices, y \in Links : n \notin Queued(x, y)' \cup Written(x, y)')
           /\ (\A u \in Receivers : ~Garbled(u, n)) /\ \A d \in Devices : n \notin Handled(d)
    BY <2>1, TakenAway
  <2>3. /\ air' \subseteq air
        /\ \A x \in Devices, y \in Links :
               Queued(x, y)' = Queued(x, y) /\ Written(x, y)' \subseteq Written(x, y)
    BY <2>1, TakenLess
  <2>4. \A x \in Devices : Handled(x)' = Handled(x) BY <1>8 DEF PGarbled, HandledSame
  <2>5. \A u \in Receivers, m \in Nat : Garbled(u, m)' <=> IF u = r THEN m = n ELSE Garbled(u, m)
    BY <1>8 DEF PGarbled, Rests
  <2>6. \A u \in Receivers : u[1] \in Devices BY ReceiverFacts
  <2> QED BY <1>a, <1>b, <1>2, <2>1, <2>2, <2>3, <2>4, <2>5, <2>6 DEF OnceInv
<1>9. ASSUME NEW n \in Frames, NEW r \in Receivers, PHandled(n, r) PROVE OnceInv'
  <2>1. PTaken(n, r) /\ Frames' = Frames BY <1>9 DEF PHandled, PTaken, Frames
  <2>2. n \notin again' =>
           /\ n \notin air' /\ (\A x \in Devices, y \in Links : n \notin Queued(x, y)' \cup Written(x, y)')
           /\ (\A u \in Receivers : ~Garbled(u, n)) /\ \A d \in Devices : n \notin Handled(d)
    BY <2>1, TakenAway
  <2>3. /\ air' \subseteq air
        /\ \A x \in Devices, y \in Links :
               Queued(x, y)' = Queued(x, y) /\ Written(x, y)' \subseteq Written(x, y)
    BY <2>1, TakenLess
  <2>4. \A x \in Devices : Handled(x)' \subseteq Handled(x) \cup {n} BY <1>9 DEF PHandled, HandledTo
  <2>5. \A u \in Receivers, m \in Nat : Garbled(u, m)' <=> Garbled(u, m) BY <1>9 DEF PHandled, Rests
  <2>6. \A u \in Receivers : u[1] \in Devices BY ReceiverFacts
  <2> QED BY <1>a, <1>b, <1>2, <2>1, <2>2, <2>3, <2>4, <2>5, <2>6 DEF OnceInv
<1>10. ASSUME NEW n \in Frames, NEW r \in Receivers, PShown(n, r) PROVE OnceInv'
  <2>1. /\ air' = air /\ Frames' = Frames /\ Garbled(r, n)
        /\ \A x \in Devices, y \in Links : Queued(x, y)' = Queued(x, y) /\ Written(x, y)' = Written(x, y)
    BY <1>10 DEF PShown, Frames, QueuedSame, WrittenSame
  <2>2. \A x \in Devices : Handled(x)' \subseteq Handled(x) \cup {n} BY <1>10 DEF PShown, HandledTo
  <2>3. \A u \in Receivers, m \in Nat : Garbled(u, m)' <=> (u # r /\ Garbled(u, m))
    BY <1>10 DEF PShown, Rests
  <2>4. \A u \in Receivers : u[1] \in Devices BY ReceiverFacts
  <2>5. n \notin again =>
           /\ n \notin air /\ \A u \in Receivers : Garbled(u, n) => u = r
           /\ \A x \in Devices, y \in Links : n \notin Queued(x, y) \cup Written(x, y)
    BY <2>1 DEF OnceInv
  <2> QED BY <1>a, <1>b, <1>2, <2>1, <2>2, <2>3, <2>4, <2>5 DEF OnceInv
<1> QED BY <1>4, <1>5, <1>6, <1>7, <1>8, <1>9, <1>10 DEF PlaceStep

\* What a device has handled grows by a frame it had not, or by a datagram again.
LEMMA GotCases ==
  ASSUME Typed, AddressInv, TwiceInv, OnceInv, AgainGrows, StepKinds
  PROVE  \/ got' = got
         \/ \E r \in Receivers, n \in Frames, as \in {"chat", "control", "locked"} :
               /\ Done(r, n, as) /\ sent' = sent
               /\ n \in Handled(r[1]) => n \in again' /\ Repeatable(n)
               /\ \/ Handles(r, n, as) /\ PHandled(n, r)
                  \/ Shows(r) /\ PShown(n, r) /\ as # "control"
<1>1. CASE UNCHANGED core BY <1>1 DEF core
<1>2. ASSUME NEW t \in Threads,
             Refuses(t) \/ SendsDirect(t) \/ Queues(t) \/ Finds(t) \/ Begins(t)
      PROVE  got' = got
  BY <1>2 DEF Refuses, SendsDirect, Queues, Finds, Begins
<1>3. ASSUME NEW d \in Devices, NEW l \in Links, LinkStep(d, l) PROVE got' = got
  BY <1>3, LinkStepCases
<1>4. ASSUME NEW r \in Receivers, NEW n \in Frames, Garbles(r, n) PROVE got' = got
  BY <1>4 DEF Garbles
<1>5. ASSUME NEW r \in Receivers, NEW n \in Frames, NEW as \in {"chat", "control"}, Handles(r, n, as)
      PROVE  /\ Done(r, n, as) /\ sent' = sent /\ PHandled(n, r)
             /\ n \in Handled(r[1]) => n \in again' /\ Repeatable(n)
  <2>1. Done(r, n, as) /\ PHandled(n, r) BY <1>5, HandlesPlaces DEF Handles
  <2>2. PTaken(n, r) BY <2>1 DEF PHandled
  <2>3. n \notin again' => n \notin Handled(r[1]) BY <2>2, TakenAway, ReceiverFacts
  <2>4. n \in again' => Repeatable(n) BY DEF OnceInv, AgainGrows
  <2> QED BY <2>1, <2>2, <2>3, <2>4 DEF PTaken
<1>6. ASSUME NEW r \in Receivers, Shows(r)
      PROVE  \E n \in Frames, as \in {"chat", "locked"} :
                /\ Done(r, n, as) /\ sent' = sent /\ PShown(n, r)
                /\ n \in Handled(r[1]) => n \in again' /\ Repeatable(n)
  <2>1. PICK n \in Frames : n = job[r].frame /\ PShown(n, r) BY <1>6, ShowsPlaces
  <2>2. PICK as \in {"chat", "locked"} : Done(r, n, as) BY <1>6, <2>1 DEF Shows
  <2>3. n \in Handled(r[1]) => n \in again BY <2>1 DEF PShown, OnceInv
  <2>4. sent' = sent BY <2>1 DEF PShown
  <2>5. n \in again => n \in again' /\ Repeatable(n) BY DEF OnceInv, AgainGrows
  <2> QED BY <2>1, <2>2, <2>3, <2>4, <2>5
<1>7. CASE \E r \in Receivers, n \in Frames, as \in {"chat", "control"} : Handles(r, n, as)
  <2>1. PICK r \in Receivers, n \in Frames, as \in {"chat", "control"} : Handles(r, n, as) BY <1>7
  <2> QED BY <1>5, <2>1
<1>8. CASE \E r \in Receivers : Shows(r)
  <2>1. PICK r \in Receivers : Shows(r) BY <1>8
  <2>2. PICK n \in Frames, as \in {"chat", "locked"} :
                /\ Done(r, n, as) /\ sent' = sent /\ PShown(n, r)
                /\ n \in Handled(r[1]) => n \in again' /\ Repeatable(n)
    BY <1>6, <2>1
  <2> QED BY <2>1, <2>2
<1> QED BY <1>1, <1>2, <1>3, <1>4, <1>7, <1>8 DEF StepKinds

\* After every step, too, no frame is twice in a queue, on a wire or among the
\* handled.
LEMMA TwiceStep ==
  ASSUME Typed, AddressInv, TwiceInv, OnceInv, AgainGrows, StepKinds PROVE TwiceInv'
<1>1. \A d \in Devices, l \in Links : Distinct(queue'[d][l]) /\ Distinct(wire'[d][l])
  BY QueueStep
<1>2. ASSUME NEW d \in Devices, NEW i \in DOMAIN got'[d], NEW j \in DOMAIN got'[d],
             got'[d][i].frame = got'[d][j].frame, got'[d][i].frame \notin again'
      PROVE  i = j
  <2>1. CASE got' = got BY <1>2, <2>1 DEF TwiceInv, AgainGrows
  <2>2. ASSUME NEW r \in Receivers, NEW n \in Frames, NEW as, Done(r, n, as),
               n \in Handled(r[1]) => n \in again'
        PROVE  i = j
    <3>1. n \in Nat BY DEF Typed, SentTypes, Frames
    <3>0. Grown(r[1], n, as) BY <2>2, <3>1, DoneFacts
    <3>2. /\ Len(got[r[1]]) \in Nat /\ DOMAIN got[r[1]] = 1 .. Len(got[r[1]])
          /\ DOMAIN got'[r[1]] = 1 .. Len(got[r[1]]) + 1
          /\ got'[r[1]][Len(got[r[1]]) + 1] = [frame |-> n, as |-> as]
          /\ \A k \in DOMAIN got[r[1]] : got'[r[1]][k] = got[r[1]][k]
          /\ \A x \in Devices : x # r[1] => got'[x] = got[x]
      BY <2>2, <3>0 DEF Grown
    <3>3. CASE d # r[1] BY <1>2, <3>2, <3>3 DEF TwiceInv, AgainGrows
    <3>4. CASE d = r[1]
      <4>1. n \notin again' => \A k \in DOMAIN got[d] : got'[d][k].frame # n
        BY <2>2, <3>2, <3>4 DEF Handled
      <4>2. got'[d][Len(got[d]) + 1].frame = n BY <3>2, <3>4
      <4>3. \A k \in DOMAIN got'[d] : k \in DOMAIN got[d] \/ k = Len(got[d]) + 1 BY <3>2, <3>4
      <4>4. CASE i \in DOMAIN got[d] /\ j \in DOMAIN got[d] 
        BY <1>2, <3>2, <3>4, <4>4 DEF TwiceInv, AgainGrows
      <4> QED BY <1>2, <4>1, <4>2, <4>3, <4>4
    <3> QED BY <3>3, <3>4
  <2> QED BY <2>1, <2>2, GotCases
<1> QED BY <1>1, <1>2 DEF TwiceInv

-----------------------------------------------------------------------------
\* No frame is lost unless its link ends or its data channel refuses it.

\* A driver that has left its loop does not come back.
LEMMA StageGrows ==
  ASSUME Typed, StepKinds, NEW d \in Devices, NEW l \in Links
  PROVE  /\ stage[d][l] \in {"closing", "left", "gone"} => stage'[d][l] \in {"closing", "left", "gone"}
         /\ stage[d][l] = "gone" => stage'[d][l] = "gone"
<1>1. CASE UNCHANGED <<slot, stage>> BY <1>1
<1>2. ASSUME NEW x \in Devices, NEW y \in Links, LinkStep(x, y)
      PROVE  /\ stage[d][l] \in {"closing", "left", "gone"} => stage'[d][l] \in {"closing", "left", "gone"}
             /\ stage[d][l] = "gone" => stage'[d][l] = "gone"
  <2>1. StageEffect(x, y) BY <1>2, StageFacts
  <2> QED BY <2>1 DEF StageEffect
<1> QED BY <1>1, <1>2, LinksKept

\* No step loses a frame that was accepted, except with the link that carried
\* it.
LEMMA PresentStep ==
  ASSUME Typed, AddressInv, PresentInv, PlaceStep, StepKinds PROVE PresentInv'
<1>0. \A n \in Frames : n \in Nat /\ n \in Frames' /\ sent'[n] = sent[n] /\ Ok(n)' = Ok(n)
  BY SentFacts
<1> DEFINE Here(n) ==
        \/ n \in air
        \/ /\ sent[n].via \in Links
           /\ \/ n \in Queued(sent[n].from, sent[n].via) \cup Written(sent[n].from, sent[n].via)
              \/ LinkEnded(n) \/ Kind[sent[n].via] = "webrtc"
        \/ \E r \in Receivers : Garbled(r, n)
        \/ n \in Handled(sent[n].to)
<1>1. ASSUME NEW n \in Frames, Ok(n) PROVE Here(n)'
  <2>0. PICK d \in Devices, e \in Devices, l \in Links \cup {"UDP", "TCP"} :
          /\ sent[n].from = d /\ sent[n].to = e /\ sent[n].via = l
          /\ sent'[n].from = d /\ sent'[n].to = e /\ sent'[n].via = l
    <3>1. sent[n] \in SentRecs /\ SentOK(n) BY DEF Typed, SentTypes, Frames
    <3> QED BY <1>0, <1>1, <3>1 DEF SentRecs, SentOK
  <2>1. Here(n) BY <1>1 DEF PresentInv
  <2>2. n \in Nat BY <1>0
  <2>4. ASSUME n \in air PROVE Here(n)'
    <3>1. CASE n \in air' BY <3>1
    <3>2. CASE n \notin air'
      <4>0. PICK m \in Frames, r \in Receivers : PGarbled(m, r) \/ PHandled(m, r)
        BY <2>4, <3>2 DEF PlaceStep, PNothing, PDirect, PQueued, PWritten, PReleased, PShown
      <4>a. PTaken(m, r) BY <4>0 DEF PGarbled, PHandled
      <4>b. m = n BY <2>4, <3>2, <4>a DEF PTaken
      <4>1. PGarbled(n, r) \/ PHandled(n, r) BY <4>0, <4>b
      <4>2. CASE PGarbled(n, r) BY <2>0, <2>2, <4>2 DEF PGarbled
      <4>3. CASE PHandled(n, r)
        <5>1. r[1] = e /\ r[1] \in Devices
          BY <2>0, <2>4, <3>2, <4>3, ReceiverFacts DEF PHandled, PTaken
        <5>2. n \in Handled(e)' BY <4>3, <5>1 DEF PHandled, HandledTo
        <5> QED BY <2>0, <5>2
      <4> QED BY <4>1, <4>2, <4>3
    <3> QED BY <3>1, <3>2
  <2>5. ASSUME l \in Links, n \in Queued(d, l) PROVE Here(n)'
    <3>1. CASE n \in Queued(d, l)' \cup Written(d, l)' BY <2>0, <2>5, <3>1
    <3>2. CASE n \notin Queued(d, l)' \cup Written(d, l)'
      <4>1. \/ \E m \in Nat, x \in Devices, y \in Links : PWritten(m, x, y)
            \/ \E x \in Devices, y \in Links : PReleased(x, y)
        BY <2>5, <3>2 DEF PlaceStep, PNothing, PDirect, PQueued, PGarbled, PHandled, PTaken, PShown,
           QueuedSame, QueuedTo
      <4>2. CASE \E m \in Nat, x \in Devices, y \in Links : PWritten(m, x, y)
        <5>1. Kind[l] = "webrtc" BY <2>5, <3>2, <4>2 DEF PWritten, QueuedTo, WrittenTo
        <5> QED BY <2>0, <2>5, <5>1
      <4>3. CASE \E x \in Devices, y \in Links : PReleased(x, y)
        <5>1. stage'[d][l] = "gone" BY <2>5, <3>2, <4>3 DEF PReleased, QueuedTo
        <5>2. LinkEnded(n)' BY <2>0, <2>5, <5>1 DEF LinkEnded
        <5> QED BY <2>0, <2>5, <5>2
      <4> QED BY <4>1, <4>2, <4>3
    <3> QED BY <3>1, <3>2
  <2>6. ASSUME l \in Links, n \in Written(d, l) PROVE Here(n)'
    <3>1. CASE n \in Written(d, l)' BY <2>0, <2>6, <3>1
    <3>2. CASE n \notin Written(d, l)'
      <4>1. \E m \in Frames, u \in Receivers : PTaken(m, u) /\ (PGarbled(m, u) \/ PHandled(m, u))
        BY <2>6, <3>2 DEF PlaceStep, PNothing, PDirect, PQueued, PWritten, PReleased, PShown,
           PGarbled, PHandled, WrittenSame, WrittenTo
      <4>2. PICK r \in Receivers :
              /\ PGarbled(n, r) \/ PHandled(n, r)
              /\ r \in Ends /\ d = Other(r[2], r[1]) /\ l = r[2]
        BY <2>6, <3>2, <4>1 DEF PTaken, WrittenSame, WrittenTo
      <4>3. CASE PGarbled(n, r) BY <2>0, <2>2, <4>3 DEF PGarbled
      <4>4. CASE PHandled(n, r)
        <5>1. r[1] = e /\ r[1] \in Devices
          <6>1. n \in Written(Other(r[2], r[1]), r[2]) BY <2>6, <4>2
          <6>2. sent[n].to = r[1] BY <4>2, <6>1, WayFacts
          <6> QED BY <2>0, <6>2
        <5>2. n \in Handled(e)' BY <4>4, <5>1 DEF PHandled, HandledTo
        <5> QED BY <2>0, <5>2
      <4> QED BY <4>2, <4>3, <4>4
    <3> QED BY <3>1, <3>2
  <2>7. ASSUME l \in Links, LinkEnded(n) PROVE Here(n)'
    <3>1. stage[d][l] \in {"closing", "left", "gone"} \/ stage[e][l] \in {"closing", "left", "gone"}
      BY <2>0, <2>7 DEF LinkEnded
    <3>2. stage'[d][l] \in {"closing", "left", "gone"} \/ stage'[e][l] \in {"closing", "left", "gone"}
      BY <2>7, <3>1, StageGrows
    <3>3. LinkEnded(n)' BY <2>0, <2>7, <3>2 DEF LinkEnded
    <3> QED BY <2>0, <2>7, <3>3
  <2>8. ASSUME l \in Links, Kind[l] = "webrtc" PROVE Here(n)' BY <2>0, <2>8
  <2>9. ASSUME NEW r \in Receivers, Garbled(r, n) PROVE Here(n)'
    <3>1. CASE Garbled(r, n)' BY <3>1
    <3>2. CASE ~Garbled(r, n)'
      <4>1. sent[n].to = r[1] BY <2>9 DEF Garbled, AddressInv
      <4>2. \/ \E m \in Frames : PShown(m, r)
            \/ \E m \in Frames : PGarbled(m, r)
        BY <2>2, <2>9, <3>2 DEF PlaceStep, PNothing, PDirect, PQueued, PWritten, PReleased, PHandled,
           PShown, PGarbled, Rests
      <4>3. ~\E m \in Frames : PGarbled(m, r) BY <2>9 DEF PGarbled, PTaken, Garbled
      <4>4. PShown(n, r) BY <2>9, <4>2, <4>3 DEF PShown, Garbled
      <4>5. n \in Handled(e)' BY <2>0, <4>1, <4>4 DEF PShown, HandledTo
      <4> QED BY <2>0, <4>5
    <3> QED BY <3>1, <3>2
  <2>10. ASSUME n \in Handled(e) PROVE Here(n)'
    <3>1. n \in Handled(e)'
      BY <2>10 DEF PlaceStep, PNothing, PDirect, PQueued, PWritten, PReleased, PHandled,
         PShown, PGarbled, HandledSame, HandledTo
    <3> QED BY <2>0, <3>1
  <2> QED BY <2>0, <2>1, <2>4, <2>5, <2>6, <2>7, <2>8, <2>9, <2>10
<1>2. ASSUME NEW n \in Frames', n \notin Frames, Ok(n)' PROVE Here(n)'
  <2>1. sent' # sent /\ \A m \in Nat : NewFrame(m) => m = n BY <1>2 DEF Frames, NewFrame
  <2>2. \/ PDirect(n) \/ \E d \in Devices, l \in Links : PQueued(n, d, l)
    BY <1>2, <2>1 DEF PlaceStep, PNothing, PDirect, PQueued, PWritten, PReleased, PGarbled, PHandled,
       PTaken, PShown
  <2>3. CASE PDirect(n) BY <2>3 DEF PDirect
  <2>4. ASSUME NEW d \in Devices, NEW l \in Links, PQueued(n, d, l) PROVE Here(n)'
    <3>1. n \in Queued(d, l)' /\ sent'[n].via = l /\ sent'[n].from = d BY <2>4 DEF PQueued, QueuedTo
    <3> QED BY <3>1
  <2> QED BY <2>2, <2>3, <2>4
<1>3. ASSUME NEW n \in Frames', Ok(n)' PROVE Here(n)' BY <1>0, <1>1, <1>2, <1>3
<1> QED BY <1>3 DEF PresentInv

-----------------------------------------------------------------------------
\* Order over a WebSocket.

\* What a step does to the frames on the way from d over l.
ChainStep(d, l) ==
    LET C == Came(d, l)
        G == Opening(d, l)
        W == Written(d, l)
        Q == Queued(d, l)
        all == SentOver(d, l) IN
    \/ /\ Came(d, l)' = C /\ Opening(d, l)' = G /\ Written(d, l)' = W /\ Queued(d, l)' = Q
       /\ SentOver(d, l)' = all
    \/ \E n \in Nat :
          /\ Came(d, l)' = C /\ Opening(d, l)' = G /\ Written(d, l)' = W
          /\ Queued(d, l)' = Q \cup {n} /\ SentOver(d, l)' = all \cup {n}
          /\ stage[d][l] # "gone" /\ \A m \in all : m < n
    \/ \E n \in Q :
          /\ Came(d, l)' = C /\ Opening(d, l)' = G /\ Written(d, l)' = W \cup {n}
          /\ Queued(d, l)' = Q \ {n} /\ SentOver(d, l)' = all
          /\ \A m \in Q \ {n} : n < m
    \/ /\ Came(d, l)' = C /\ Opening(d, l)' = G /\ Written(d, l)' = W /\ Queued(d, l)' = {}
       /\ SentOver(d, l)' = all /\ stage'[d][l] = "gone"
    \/ \E n \in W :
          /\ G = {} /\ Written(d, l)' = W \ {n} /\ Queued(d, l)' = Q /\ SentOver(d, l)' = all
          /\ \A m \in W \ {n} : n < m
          /\ \/ Came(d, l)' = C /\ Opening(d, l)' = {n}
             \/ Came(d, l)' = C \cup {n} /\ Opening(d, l)' = {}
    \/ \E n \in Nat :
          /\ G = {n} /\ Came(d, l)' = C \cup {n} /\ Opening(d, l)' = {} /\ Written(d, l)' = W
          /\ Queued(d, l)' = Q /\ SentOver(d, l)' = all

\* Every step moves the frames of a WebSocket along its chain of places.
LEMMA ChainCases ==
  ASSUME Typed, Typed', AddressInv, PlaceStep, NEW d \in Devices, NEW l \in Links, <<d, l>> \in Ends,
         Kind[l] = "ws", Rising(queue[d][l]), Rising(wire[d][l])
  PROVE  ChainStep(d, l)
<1> DEFINE e == Other(l, d)
           r0 == <<e, l>>
<1>1. /\ e \in Devices /\ e # d /\ r0 \in Ends /\ Other(l, e) = d /\ r0 \in Receivers
  BY PairFacts DEF Receivers
<1>2. \A r \in Ends : Other(r[2], r[1]) = d /\ r[2] = l => r = r0
  <2>1. \A r \in Ends : r = <<r[1], r[2]>> /\ Other(r[2], Other(r[2], r[1])) = r[1] BY PairFacts
  <2> QED BY <2>1
<1>3. \A n \in Frames : n \in Nat /\ n \in Frames' /\ sent'[n] = sent[n] BY SentFacts
<1>4. \A n \in Handled(e) : n \in Frames BY <1>1 DEF AddressInv
<1>5. ASSUME sent' = sent PROVE SentOver(d, l)' = SentOver(d, l) BY <1>5 DEF SentOver, Over, Frames
<1>6. ASSUME Handled(e)' = Handled(e) PROVE Came(d, l)' = Came(d, l)
  BY <1>3, <1>4, <1>6 DEF Came, Over
<1>7. ASSUME \A n \in Nat : Garbled(r0, n)' <=> Garbled(r0, n) PROVE Opening(d, l)' = Opening(d, l)
  <2>1. \A n \in Nat : Garbled(r0, n) => n \in Frames BY <1>1 DEF AddressInv, Garbled
  <2>2. \A n \in Frames' : n \in Nat
    <3>1. sent' = sent \/ \E n \in Nat : NewFrame(n) BY SentFacts
    <3> QED BY <1>3, <3>1 DEF NewFrame, Frames
  <2> QED BY <1>3, <1>7, <2>1, <2>2 DEF Opening
<1>8. CASE PNothing \/ \E n \in Nat : PDirect(n)
  <2>1. /\ Queued(d, l)' = Queued(d, l) /\ Written(d, l)' = Written(d, l)
        /\ Handled(e)' = Handled(e) /\ \A n \in Nat : Garbled(r0, n)' <=> Garbled(r0, n)
    BY <1>1, <1>8 DEF PNothing, PDirect, QueuedSame, WrittenSame, HandledSame, Rests
  <2>2. SentOver(d, l)' = SentOver(d, l)
    <3>1. CASE sent' = sent BY <1>5, <3>1
    <3>2. CASE sent' # sent
      <4>1. PICK n \in Nat : NewFrame(n) /\ (~Ok(n)' \/ sent'[n].via \in {"UDP", "TCP"})
        BY <1>8, <3>2 DEF PNothing, PDirect
      <4>2. sent'[n].via # l
        <5>1. CASE sent'[n].via \in {"UDP", "TCP"} BY <5>1, SendAssumption
        <5>2. CASE ~Ok(n)'
          <6>1. SentOK(n)' BY <4>1 DEF NewFrame, Typed, SentTypes
          <6> QED BY <5>2, <6>1, SendAssumption DEF SentOK
        <5> QED BY <4>1, <5>1, <5>2
      <4> QED BY <4>1, <4>2 DEF NewFrame, SentOver, Over
    <3> QED BY <3>1, <3>2
  <2> QED BY <1>6, <1>7, <2>1, <2>2 DEF ChainStep
<1>9. ASSUME NEW n \in Nat, NEW x \in Devices, NEW y \in Links, PQueued(n, x, y)
      PROVE  ChainStep(d, l)
  <2>1. /\ Written(d, l)' = Written(d, l) /\ Handled(e)' = Handled(e)
        /\ \A m \in Nat : Garbled(r0, m)' <=> Garbled(r0, m)
        /\ NewFrame(n) /\ sent'[n].via = y /\ sent'[n].from = x /\ stage[x][y] # "gone"
    BY <1>1, <1>9 DEF PQueued, WrittenSame, HandledSame, Rests
  <2>2. CASE x = d /\ y = l
    <3>1. Queued(d, l)' = Queued(d, l) \cup {n} BY <1>9, <2>2 DEF PQueued, QueuedTo
    <3>2. SentOver(d, l)' = SentOver(d, l) \cup {n} /\ \A m \in SentOver(d, l) : m < n
      BY <2>1, <2>2 DEF NewFrame, SentOver, Over
    <3> QED BY <1>6, <1>7, <2>1, <2>2, <3>1, <3>2 DEF ChainStep
  <2>3. CASE ~(x = d /\ y = l)
    <3>1. Queued(d, l)' = Queued(d, l) BY <1>9, <2>3 DEF PQueued, QueuedTo
    <3>2. SentOver(d, l)' = SentOver(d, l) BY <2>1, <2>3 DEF NewFrame, SentOver, Over
    <3> QED BY <1>6, <1>7, <2>1, <3>1, <3>2 DEF ChainStep
  <2> QED BY <2>2, <2>3
<1>10. ASSUME NEW n \in Nat, NEW x \in Devices, NEW y \in Links, PWritten(n, x, y)
      PROVE  ChainStep(d, l)
  <2>1. /\ Handled(e)' = Handled(e) /\ \A m \in Nat : Garbled(r0, m)' <=> Garbled(r0, m)
        /\ SentOver(d, l)' = SentOver(d, l)
    BY <1>1, <1>5, <1>10 DEF PWritten, HandledSame, Rests
  <2>2. CASE x = d /\ y = l
    <3>1. /\ n \in Queued(d, l) /\ Queued(d, l)' = Queued(d, l) \ {n}
          /\ Written(d, l)' = Written(d, l) \cup {n} /\ \A m \in Queued(d, l) \ {n} : n < m
      BY <1>10, <2>2 DEF PWritten, QueuedTo, WrittenTo
    <3> QED BY <1>6, <1>7, <2>1, <3>1 DEF ChainStep
  <2>3. CASE ~(x = d /\ y = l)
    <3>1. Queued(d, l)' = Queued(d, l) /\ Written(d, l)' = Written(d, l)
      BY <1>10, <2>3 DEF PWritten, QueuedTo, WrittenTo, WrittenSame
    <3> QED BY <1>6, <1>7, <2>1, <3>1 DEF ChainStep
  <2> QED BY <2>2, <2>3
<1>11. ASSUME NEW x \in Devices, NEW y \in Links, PReleased(x, y) PROVE ChainStep(d, l)
  <2>1. /\ Handled(e)' = Handled(e) /\ \A m \in Nat : Garbled(r0, m)' <=> Garbled(r0, m)
        /\ SentOver(d, l)' = SentOver(d, l) /\ Written(d, l)' = Written(d, l)
    BY <1>1, <1>5, <1>11 DEF PReleased, HandledSame, Rests, WrittenSame
  <2>2. CASE x = d /\ y = l
    <3>1. Queued(d, l)' = {} /\ stage'[d][l] = "gone" BY <1>11, <2>2 DEF PReleased, QueuedTo
    <3> QED BY <1>6, <1>7, <2>1, <3>1 DEF ChainStep
  <2>3. CASE ~(x = d /\ y = l)
    <3>1. Queued(d, l)' = Queued(d, l) BY <1>11, <2>3 DEF PReleased, QueuedTo
    <3> QED BY <1>6, <1>7, <2>1, <3>1 DEF ChainStep
  <2> QED BY <2>2, <2>3
\* Read at the other end of the link, or elsewhere.
<1>12. ASSUME NEW n \in Frames, PTaken(n, r0)
       PROVE  /\ n \in Written(d, l) /\ Written(d, l)' = Written(d, l) \ {n}
              /\ Queued(d, l)' = Queued(d, l) /\ SentOver(d, l)' = SentOver(d, l)
              /\ \A m \in Written(d, l) \ {n} : n < m
              /\ Opening(d, l) = {} /\ Over(n, d, l)
  <2>1. r0[2] = l /\ r0[1] = e OBVIOUS
  <2>2. /\ n \in Written(d, l) /\ WrittenTo(d, l, Written(d, l) \ {n}) /\ QueuedSame
        /\ \A m \in Written(d, l) \ {n} : n < m
        /\ sent' = sent /\ job[r0].pc = "idle"
    BY <1>1, <1>12, <2>1 DEF PTaken
  <2>3. Opening(d, l) = {} BY <2>2 DEF Opening, Garbled
  <2>4. Over(n, d, l) BY <2>2 DEF Over, AddressInv
  <2> QED BY <1>5, <2>2, <2>3, <2>4 DEF WrittenTo, QueuedSame
<1>13. ASSUME NEW n \in Frames, NEW r \in Receivers, r # r0, PTaken(n, r)
       PROVE  /\ Written(d, l)' = Written(d, l) /\ Queued(d, l)' = Queued(d, l)
              /\ SentOver(d, l)' = SentOver(d, l) /\ ~Over(n, d, l)
  <2>1. Queued(d, l)' = Queued(d, l) /\ SentOver(d, l)' = SentOver(d, l)
    BY <1>5, <1>13 DEF PTaken, QueuedSame
  <2>2. CASE r \in Ends
    <3>1. n \in Written(Other(r[2], r[1]), r[2]) BY <1>13, <2>2 DEF PTaken
    <3>2. sent[n].via = r[2] /\ sent[n].from = Other(r[2], r[1]) BY <2>2, <3>1, WayFacts
    <3>3. ~(Other(r[2], r[1]) = d /\ r[2] = l) BY <1>2, <1>13, <2>2
    <3>4. \/ WrittenTo(Other(r[2], r[1]), r[2], Written(Other(r[2], r[1]), r[2]) \ {n})
          \/ WrittenSame
      BY <1>13, <2>2 DEF PTaken
    <3>5. Written(d, l)' = Written(d, l) BY <3>3, <3>4 DEF WrittenTo, WrittenSame
    <3> QED BY <2>1, <3>2, <3>3, <3>5 DEF Over
  <2>3. CASE r \notin Ends
    <3>1. WrittenSame /\ n \in air BY <1>13, <2>3 DEF PTaken
    <3>2. sent[n].via # l BY <3>1, SendAssumption DEF AddressInv
    <3> QED BY <2>1, <3>1, <3>2 DEF WrittenSame, Over
  <2> QED BY <2>2, <2>3
<1>14. ASSUME NEW n \in Frames, HandledTo(e, n), Over(n, d, l) PROVE Came(d, l)' = Came(d, l) \cup {n}
  <2>1. Handled(e)' = Handled(e) \cup {n} BY <1>1, <1>14 DEF HandledTo
  <2> QED BY <1>3, <1>4, <1>14, <2>1 DEF Came, Over
<1>15. ASSUME NEW n \in Frames, NEW x \in Devices, HandledTo(x, n), x = e => ~Over(n, d, l)
       PROVE  Came(d, l)' = Came(d, l)
  <2>1. CASE x # e
    <3>1. Handled(e)' = Handled(e) BY <1>1, <1>15, <2>1 DEF HandledTo
    <3> QED BY <1>6, <3>1
  <2>2. CASE x = e
    <3>1. Handled(e)' = Handled(e) \cup {n} BY <1>1, <1>15, <2>2 DEF HandledTo
    <3> QED BY <1>3, <1>4, <1>15, <2>2, <3>1 DEF Came, Over
  <2> QED BY <2>1, <2>2
<1>16. ASSUME NEW n \in Frames, NEW r \in Receivers, PGarbled(n, r) PROVE ChainStep(d, l)
  <2>1. Handled(e)' = Handled(e) /\ PTaken(n, r) /\ sent' = sent
    BY <1>1, <1>16 DEF PGarbled, HandledSame, PTaken
  <2>2. CASE r = r0
    <3>1. \A m \in Nat : Garbled(r0, m)' <=> m = n BY <1>16, <2>2 DEF PGarbled
    <3>2. Opening(d, l)' = {n} BY <1>3, <2>1, <3>1 DEF Opening, Frames
    <3> QED BY <1>6, <1>12, <2>1, <2>2, <3>2 DEF ChainStep
  <2>3. CASE r # r0
    <3>1. \A m \in Nat : Garbled(r0, m)' <=> Garbled(r0, m) BY <1>1, <1>16, <2>3 DEF PGarbled, Rests
    <3> QED BY <1>6, <1>7, <1>13, <2>1, <2>3, <3>1 DEF ChainStep
  <2> QED BY <2>2, <2>3
<1>17. ASSUME NEW n \in Frames, NEW r \in Receivers, PHandled(n, r) PROVE ChainStep(d, l)
  <2>1. /\ PTaken(n, r) /\ HandledTo(r[1], n) /\ \A m \in Nat : Garbled(r0, m)' <=> Garbled(r0, m)
    BY <1>1, <1>17 DEF PHandled, Rests
  <2>2. Opening(d, l)' = Opening(d, l) BY <1>7, <2>1
  <2>3. CASE r = r0
    <3>1. r[1] = e BY <2>3
    <3>2. Came(d, l)' = Came(d, l) \cup {n} BY <1>12, <1>14, <2>1, <2>3, <3>1
    <3> QED BY <1>12, <2>1, <2>2, <2>3, <3>2 DEF ChainStep
  <2>4. CASE r # r0
    <3>1. r[1] \in Devices BY ReceiverFacts
    <3>2. Came(d, l)' = Came(d, l) BY <1>13, <1>15, <2>1, <2>4, <3>1
    <3> QED BY <1>13, <2>1, <2>2, <2>4, <3>2 DEF ChainStep
  <2> QED BY <2>3, <2>4
<1>18. ASSUME NEW n \in Frames, NEW r \in Receivers, PShown(n, r) PROVE ChainStep(d, l)
  <2>1. /\ Queued(d, l)' = Queued(d, l) /\ Written(d, l)' = Written(d, l)
        /\ SentOver(d, l)' = SentOver(d, l) /\ Garbled(r, n) /\ HandledTo(r[1], n)
    BY <1>5, <1>18 DEF PShown, QueuedSame, WrittenSame
  <2>2. /\ sent[n].to = r[1]
        /\ IF r \in Ends THEN sent[n].via = r[2] ELSE sent[n].via \in {"UDP", "TCP"}
    BY <2>1 DEF Garbled, AddressInv
  <2>3. CASE r = r0
    <3>1. Opening(d, l)' = {} /\ Opening(d, l) = {n}
      <4>1. \A m \in Frames : Garbled(r0, m) <=> m = n BY <2>1, <2>3 DEF Garbled
      <4>2. \A m \in Frames' : m \in Nat BY <1>3, <1>18 DEF PShown, Frames
      <4> QED BY <1>18, <2>3, <4>1, <4>2 DEF PShown, Opening
    <3>2. r[1] = e /\ r[2] = l BY <2>3
    <3>3. Over(n, d, l)
      <4>1. sent[n].via = l /\ sent[n].to = e BY <1>1, <2>2, <2>3, <3>2
      <4>2. /\ <<sent[n].from, l>> \in Ends /\ e = Other(l, sent[n].from)
        BY <4>1 DEF AddressInv
      <4>3. \A x \in Ends : Other(x[2], Other(x[2], x[1])) = x[1] BY PairFacts
      <4>4. Other(l, Other(l, sent[n].from)) = sent[n].from BY <4>2, <4>3
      <4>5. sent[n].from = d BY <1>1, <4>2, <4>4
      <4> QED BY <4>1, <4>5 DEF Over
    <3>4. Came(d, l)' = Came(d, l) \cup {n} BY <1>14, <2>1, <3>2, <3>3
    <3>5. n \in Nat BY <1>3
    <3> QED BY <2>1, <3>1, <3>4, <3>5 DEF ChainStep
  <2>4. CASE r # r0
    <3>1. r[1] = e => ~Over(n, d, l)
      <4>1. CASE r \in Ends
        <5>1. r = <<r[1], r[2]>> BY <4>1, PairFacts
        <5> QED BY <2>2, <2>4, <4>1, <5>1 DEF Over
      <4>2. CASE r \notin Ends BY <2>2, <4>2, SendAssumption DEF Over
      <4> QED BY <4>1, <4>2
    <3>2. r[1] \in Devices BY ReceiverFacts
    <3>3. Came(d, l)' = Came(d, l) BY <1>15, <2>1, <3>1, <3>2
    <3>4. \A m \in Nat : Garbled(r0, m)' <=> Garbled(r0, m) BY <1>1, <1>18, <2>4 DEF PShown, Rests
    <3> QED BY <1>7, <2>1, <3>3, <3>4 DEF ChainStep
  <2> QED BY <2>3, <2>4
<1> QED BY <1>8, <1>9, <1>10, <1>11, <1>16, <1>17, <1>18 DEF PlaceStep

\* A chain stays one, whatever happens to it.
LEMMA ChainKept ==
  ASSUME NEW C \in SUBSET Nat, NEW G \in SUBSET Nat, NEW W \in SUBSET Nat, NEW Q \in SUBSET Nat,
         NEW all \in SUBSET Nat, NEW s, Chain(C, G, W, Q, all, s),
         NEW g, s = "gone" => g = "gone"
  PROVE  /\ Chain(C, G, W, Q, all, g)
         /\ \A n \in Nat : s # "gone" /\ (\A m \in all : m < n) => Chain(C, G, W, Q \cup {n}, all \cup {n}, g)
         /\ \A n \in Q : (\A m \in Q \ {n} : n < m) => Chain(C, G, W \cup {n}, Q \ {n}, all, g)
         /\ g = "gone" => Chain(C, G, W, {}, all, g)
         /\ \A n \in W : G = {} /\ (\A m \in W \ {n} : n < m) =>
               Chain(C, {n}, W \ {n}, Q, all, g) /\ Chain(C \cup {n}, {}, W \ {n}, Q, all, g)
         /\ \A n \in Nat : G = {n} => Chain(C \cup {n}, {}, W, Q, all, g)
<1>1. Chain(C, G, W, Q, all, g) BY DEF Chain
<1>2. ASSUME NEW n \in Nat, s # "gone", \A m \in all : m < n
      PROVE  Chain(C, G, W, Q \cup {n}, all \cup {n}, g)
  <2>1. Below(C, G \cup W \cup (Q \cup {n})) /\ Below(G, W \cup (Q \cup {n})) /\ Below(W, Q \cup {n})
    BY <1>2 DEF Chain, Below
  <2>2. all \subseteq C \cup G \cup W \cup Q BY <1>2 DEF Chain
  <2>3. C \cup G \cup W \cup (Q \cup {n}) \subseteq all \cup {n} BY DEF Chain
  <2> QED BY <2>1, <2>2, <2>3 DEF Chain
<1>3. ASSUME NEW n \in Q, \A m \in Q \ {n} : n < m PROVE Chain(C, G, W \cup {n}, Q \ {n}, all, g)
  <2>1. /\ Below(C, G \cup (W \cup {n}) \cup (Q \ {n})) /\ Below(G, (W \cup {n}) \cup (Q \ {n}))
        /\ Below(W \cup {n}, Q \ {n})
    BY <1>3 DEF Chain, Below
  <2>2. C \cup G \cup (W \cup {n}) \cup (Q \ {n}) = C \cup G \cup W \cup Q OBVIOUS
  <2> QED BY <2>1, <2>2 DEF Chain
<1>4. ASSUME g = "gone" PROVE Chain(C, G, W, {}, all, g)
  <2>1. Below(C, G \cup W \cup {}) /\ Below(G, W \cup {}) /\ Below(W, {})
    BY DEF Chain, Below
  <2>2. ASSUME NEW n \in C \cup G \cup W, NEW m \in all, m < n PROVE m \in C \cup G \cup W
    <3>1. m \in C \cup G \cup W \cup Q BY <2>2 DEF Chain
    <3>2. \A q \in Q : n < q BY <2>2 DEF Chain, Below
    <3> QED BY <2>2, <3>1, <3>2
  <2>3. C \cup G \cup W \cup {} = C \cup G \cup W /\ C \cup G \cup W \subseteq all BY DEF Chain
  <2> QED BY <1>4, <2>1, <2>2, <2>3 DEF Chain
<1>5. ASSUME NEW n \in W, G = {}, \A m \in W \ {n} : n < m
      PROVE  Chain(C, {n}, W \ {n}, Q, all, g) /\ Chain(C \cup {n}, {}, W \ {n}, Q, all, g)
  <2>1. /\ Below(C, {n} \cup (W \ {n}) \cup Q) /\ Below({n}, (W \ {n}) \cup Q)
        /\ Below(W \ {n}, Q)
    BY <1>5 DEF Chain, Below
  <2>2. /\ Below(C \cup {n}, {} \cup (W \ {n}) \cup Q) /\ Below({}, (W \ {n}) \cup Q)
    BY <1>5 DEF Chain, Below
  <2>3. /\ C \cup {n} \cup (W \ {n}) \cup Q = C \cup G \cup W \cup Q
        /\ (C \cup {n}) \cup {} \cup (W \ {n}) \cup Q = C \cup G \cup W \cup Q
    BY <1>5
  <2>4. Chain(C, {n}, W \ {n}, Q, all, g) BY <2>1, <2>3 DEF Chain
  <2>5. Chain(C \cup {n}, {}, W \ {n}, Q, all, g) BY <2>1, <2>2, <2>3 DEF Chain
  <2> QED BY <2>4, <2>5
<1>6. ASSUME NEW n \in Nat, G = {n} PROVE Chain(C \cup {n}, {}, W, Q, all, g)
  <2>1. /\ Below(C \cup {n}, {} \cup W \cup Q) /\ Below({}, W \cup Q) /\ Below(W, Q)
    BY <1>6 DEF Chain, Below
  <2>2. (C \cup {n}) \cup {} \cup W \cup Q = C \cup G \cup W \cup Q BY <1>6
  <2> QED BY <2>1, <2>2 DEF Chain
<1> QED BY <1>1, <1>2, <1>3, <1>4, <1>5, <1>6

\* What is handled next over a WebSocket is later than all that has been.
LEMMA NextCame ==
  ASSUME NEW d, NEW l, ChainStep(d, l), NEW s,
         Chain(Came(d, l), Opening(d, l), Written(d, l), Queued(d, l), SentOver(d, l), s),
         NEW n \in Came(d, l)', n \notin Came(d, l)
  PROVE  \A m \in Came(d, l) : m < n
<1>1. Below(Came(d, l), Opening(d, l) \cup Written(d, l) \cup Queued(d, l)) BY DEF Chain
<1>2. n \in Written(d, l) \/ Opening(d, l) = {n} BY DEF ChainStep
<1> QED BY <1>1, <1>2 DEF Below

\* The places on a way hold frame numbers.
LEMMA WayTypes ==
  ASSUME Typed, AddressInv, NEW d \in Devices, NEW l \in Links, <<d, l>> \in Ends
  PROVE  /\ Came(d, l) \in SUBSET Nat /\ Opening(d, l) \in SUBSET Nat /\ Written(d, l) \in SUBSET Nat
         /\ Queued(d, l) \in SUBSET Nat /\ SentOver(d, l) \in SUBSET Nat
<1>1. \A n \in Frames : n \in Nat BY DEF Typed, SentTypes, Frames
<1>2. Other(l, d) \in Devices BY PairFacts
<1>3. \A n \in Handled(Other(l, d)) : n \in Frames BY <1>2 DEF AddressInv
<1>4. \A n \in Queued(d, l) \cup Written(d, l) : n \in Frames BY DEF AddressInv
<1> QED BY <1>1, <1>3, <1>4 DEF Came, Opening, SentOver

\* Every step keeps the places along a WebSocket in the order of sending.
LEMMA OrderStep ==
  ASSUME Typed, Typed', AddressInv, TwiceInv, OnceInv, AgainGrows, OrderInv, PlaceStep, StepKinds
  PROVE  OrderInv'
<1> SUFFICES ASSUME NEW x \in Ends, Kind[x[2]] = "ws" PROVE Ordered(x[1], x[2])' BY DEF OrderInv
<1>0. PICK d \in Devices, l \in Links : x = <<d, l>> /\ x[1] = d /\ x[2] = l BY PairFacts
<1>1. <<d, l>> \in Ends /\ Kind[l] = "ws" BY <1>0
<1>2. Ordered(d, l) BY <1>0 DEF OrderInv
<1>3. ChainStep(d, l) BY <1>1, <1>2, ChainCases DEF Ordered
<1> DEFINE C == Came(d, l)
           G == Opening(d, l)
           W == Written(d, l)
           Q == Queued(d, l)
           all == SentOver(d, l)
           s == stage[d][l]
<1>4. Chain(C, G, W, Q, all, s) BY <1>2 DEF Ordered
<1>5. /\ C \in SUBSET Nat /\ G \in SUBSET Nat /\ W \in SUBSET Nat /\ Q \in SUBSET Nat
      /\ all \in SUBSET Nat
  BY <1>1, WayTypes
<1>6. s = "gone" => stage'[d][l] = "gone" BY StageGrows
<1>7. Rising(queue[d][l])' /\ Rising(wire[d][l])'
  <2>1. \A n \in Written(d, l), m \in Queued(d, l) : n < m BY <1>4 DEF Chain, Below
  <2>2. Rising(queue[d][l]) /\ Rising(wire[d][l]) BY <1>2 DEF Ordered
  <2> QED BY <2>1, <2>2, QueueStep
<1>8. Chain(Came(d, l)', Opening(d, l)', Written(d, l)', Queued(d, l)', SentOver(d, l)', stage'[d][l])
  <2> DEFINE g == stage'[d][l]
  <2>0. s = "gone" => g = "gone" BY <1>6
  <2> HIDE DEF C, G, W, Q, all, s, g
  <2>1. /\ Chain(C, G, W, Q, all, g)
        /\ \A n \in Nat : s # "gone" /\ (\A m \in all : m < n) => Chain(C, G, W, Q \cup {n}, all \cup {n}, g)
        /\ \A n \in Q : (\A m \in Q \ {n} : n < m) => Chain(C, G, W \cup {n}, Q \ {n}, all, g)
        /\ g = "gone" => Chain(C, G, W, {}, all, g)
        /\ \A n \in W : G = {} /\ (\A m \in W \ {n} : n < m) =>
              Chain(C, {n}, W \ {n}, Q, all, g) /\ Chain(C \cup {n}, {}, W \ {n}, Q, all, g)
        /\ \A n \in Nat : G = {n} => Chain(C \cup {n}, {}, W, Q, all, g)
    BY <1>4, <1>5, <2>0, ChainKept
  <2>2. \/ /\ Came(d, l)' = C /\ Opening(d, l)' = G /\ Written(d, l)' = W /\ Queued(d, l)' = Q
           /\ SentOver(d, l)' = all
        \/ \E n \in Nat :
              /\ Came(d, l)' = C /\ Opening(d, l)' = G /\ Written(d, l)' = W
              /\ Queued(d, l)' = Q \cup {n} /\ SentOver(d, l)' = all \cup {n}
              /\ s # "gone" /\ \A m \in all : m < n
        \/ \E n \in Q :
              /\ Came(d, l)' = C /\ Opening(d, l)' = G /\ Written(d, l)' = W \cup {n}
              /\ Queued(d, l)' = Q \ {n} /\ SentOver(d, l)' = all
              /\ \A m \in Q \ {n} : n < m
        \/ /\ Came(d, l)' = C /\ Opening(d, l)' = G /\ Written(d, l)' = W /\ Queued(d, l)' = {}
           /\ SentOver(d, l)' = all /\ g = "gone"
        \/ \E n \in W :
              /\ G = {} /\ Written(d, l)' = W \ {n} /\ Queued(d, l)' = Q /\ SentOver(d, l)' = all
              /\ \A m \in W \ {n} : n < m
              /\ \/ Came(d, l)' = C /\ Opening(d, l)' = {n}
                 \/ Came(d, l)' = C \cup {n} /\ Opening(d, l)' = {}
        \/ \E n \in Nat :
              /\ G = {n} /\ Came(d, l)' = C \cup {n} /\ Opening(d, l)' = {} /\ Written(d, l)' = W
              /\ Queued(d, l)' = Q /\ SentOver(d, l)' = all
    BY <1>3 DEF ChainStep, C, G, W, Q, all, s, g
  <2>3. Chain(Came(d, l)', Opening(d, l)', Written(d, l)', Queued(d, l)', SentOver(d, l)', g)
    <3>1. CASE /\ Came(d, l)' = C /\ Opening(d, l)' = G /\ Written(d, l)' = W /\ Queued(d, l)' = Q
               /\ SentOver(d, l)' = all
      BY <2>1, <3>1
    <3>2. ASSUME NEW n \in Nat,
              Came(d, l)' = C /\ Opening(d, l)' = G /\ Written(d, l)' = W,
              Queued(d, l)' = Q \cup {n} /\ SentOver(d, l)' = all \cup {n},
              s # "gone" /\ \A m \in all : m < n
          PROVE Chain(Came(d, l)', Opening(d, l)', Written(d, l)', Queued(d, l)', SentOver(d, l)', g)
      BY <2>1, <3>2
    <3>3. ASSUME NEW n \in Q,
              Came(d, l)' = C /\ Opening(d, l)' = G /\ Written(d, l)' = W \cup {n},
              Queued(d, l)' = Q \ {n} /\ SentOver(d, l)' = all,
              \A m \in Q \ {n} : n < m
          PROVE Chain(Came(d, l)', Opening(d, l)', Written(d, l)', Queued(d, l)', SentOver(d, l)', g)
      BY <2>1, <3>3
    <3>4. CASE /\ Came(d, l)' = C /\ Opening(d, l)' = G /\ Written(d, l)' = W /\ Queued(d, l)' = {}
               /\ SentOver(d, l)' = all /\ g = "gone"
      BY <2>1, <3>4
    <3>5. ASSUME NEW n \in W,
              G = {} /\ Written(d, l)' = W \ {n} /\ Queued(d, l)' = Q /\ SentOver(d, l)' = all,
              \A m \in W \ {n} : n < m,
              \/ Came(d, l)' = C /\ Opening(d, l)' = {n}
              \/ Came(d, l)' = C \cup {n} /\ Opening(d, l)' = {}
          PROVE Chain(Came(d, l)', Opening(d, l)', Written(d, l)', Queued(d, l)', SentOver(d, l)', g)
      BY <2>1, <3>5
    <3>6. ASSUME NEW n \in Nat,
              G = {n} /\ Came(d, l)' = C \cup {n} /\ Opening(d, l)' = {} /\ Written(d, l)' = W,
              Queued(d, l)' = Q /\ SentOver(d, l)' = all
          PROVE Chain(Came(d, l)', Opening(d, l)', Written(d, l)', Queued(d, l)', SentOver(d, l)', g)
      BY <2>1, <3>6
    <3> QED BY <2>2, <3>1, <3>2, <3>3, <3>4, <3>5, <3>6
  <2> QED BY <2>3 DEF g
<1>9. CameInOrder(d, l)'
  <2> DEFINE e == Other(l, d)
  <2>1. e \in Devices BY <1>1, PairFacts
  <2>2. /\ \A n \in Frames : n \in Nat /\ sent'[n] = sent[n]
        /\ \A n \in Handled(e) : n \in Frames
    BY <2>1, SentFacts DEF AddressInv
  <2>3. \A i \in DOMAIN got[e] : got[e][i].frame \in Handled(e) BY DEF Handled
  <2>4. CameInOrder(d, l) BY <1>2 DEF Ordered
  <2>5. \A n \in Frames : Over(n, d, l)' <=> Over(n, d, l) BY <2>2 DEF Over
  <2> SUFFICES ASSUME NEW i \in DOMAIN got'[e], NEW j \in DOMAIN got'[e],
                      NEW a, NEW b, a = got'[e][i].frame, b = got'[e][j].frame,
                      Over(a, d, l)', Over(b, d, l)', i < j
               PROVE  a < b
    BY DEF CameInOrder, Over
  <2>6. ASSUME i \in DOMAIN got[e], j \in DOMAIN got[e], got'[e][i] = got[e][i], got'[e][j] = got[e][j]
        PROVE  a < b
    <3>1. a = got[e][i].frame /\ b = got[e][j].frame /\ Over(a, d, l) /\ Over(b, d, l)
      BY <2>2, <2>3, <2>5, <2>6
    <3> QED BY <2>4, <2>6, <3>1 DEF CameInOrder
  <2>7. CASE got' = got BY <2>6, <2>7
  <2>8. ASSUME NEW r \in Receivers, NEW n \in Frames, NEW as, Done(r, n, as), HandledTo(r[1], n),
               n \in Handled(r[1]) => Repeatable(n)
        PROVE  a < b
    <3>1. n \in Nat BY <2>2
    <3> HIDE DEF e
    <3>2a. Grown(r[1], n, as) BY <2>8, FrameNumbers, DoneFacts
    <3>2. /\ Len(got[r[1]]) \in Nat /\ DOMAIN got[r[1]] = 1 .. Len(got[r[1]])
          /\ DOMAIN got'[r[1]] = 1 .. Len(got[r[1]]) + 1
          /\ got'[r[1]][Len(got[r[1]]) + 1] = [frame |-> n, as |-> as]
          /\ \A k \in DOMAIN got[r[1]] : got'[r[1]][k] = got[r[1]][k]
          /\ \A y \in Devices : y # r[1] => got'[y] = got[y]
      BY <3>2a DEF Grown
    <3>3. CASE e # r[1]
      <4>1. got'[e] = got[e] BY <2>1, <3>2, <3>3
      <4> QED BY <2>6, <4>1
    <3>4. CASE e = r[1]
      <4>0. i \in Int /\ j \in Int BY <3>2, <3>4
      <4>1. i \in DOMAIN got[e] /\ got'[e][i] = got[e][i]
        <5>1. i \in 1 .. Len(got[e]) BY <3>2, <3>4
        <5> QED BY <3>2, <3>4, <5>1
      <4>2. CASE j \in DOMAIN got[e] BY <2>6, <3>2, <3>4, <4>1, <4>2
      <4>3. CASE j \notin DOMAIN got[e]
        <5>1. j = Len(got[e]) + 1 BY <3>2, <3>4, <4>3
        <5>2. b = n BY <3>2, <3>4, <5>1
        <5>3. Over(n, d, l) BY <2>5, <5>2
        <5>4. n \in Handled(e)' BY <2>1, <2>8, <3>4 DEF HandledTo
        <5>5. n \in Came(d, l)' BY <2>2, <5>3, <5>4 DEF Came, Over, e
        <5>6. n \notin Came(d, l)
          <6>1. ~Repeatable(n) BY <1>1, <5>3, SendAssumption DEF Over, Repeatable
          <6> QED BY <2>8, <3>4, <6>1 DEF Came, e
        <5>7. \A m \in Came(d, l) : m < n BY <1>3, <1>4, <5>5, <5>6, NextCame
        <5>8. a \in Came(d, l) BY <2>2, <2>3, <2>5, <4>1 DEF Came, e
        <5> QED BY <4>1, <5>2, <5>7, <5>8
      <4> QED BY <4>2, <4>3
    <3> QED BY <3>3, <3>4
  <2> QED BY <2>7, <2>8, GotCases DEF PHandled, PShown
<1> QED BY <1>0, <1>7, <1>8, <1>9 DEF Ordered

-----------------------------------------------------------------------------
\* Subscriptions and those who asked for them.

\* A frame is added by a thread that sends.
LEMMA SentCases ==
  ASSUME Typed, StepKinds
  PROVE  \/ sent' = sent
         \/ \E t \in Threads, r \in SentRecs, j \in JobRecs, n \in Nat :
               Sending(t, r, j) /\ NewFrame(n) /\ sent'[n] = r
<1>1. CASE UNCHANGED core BY <1>1 DEF core
<1>2. ASSUME NEW t \in Threads, Refuses(t) \/ SendsDirect(t) \/ Queues(t)
      PROVE  \E r \in SentRecs, j \in JobRecs, n \in Nat :
                Sending(t, r, j) /\ NewFrame(n) /\ sent'[n] = r
  <2>1. PICK r \in SentRecs, j \in JobRecs : Sending(t, r, j)
    BY <1>2 DEF Refuses, SendsDirect, Queues
  <2>2. \E n \in Nat : NewFrame(n) /\ sent'[n] = r BY <2>1, SendingPlaces
  <2> QED BY <2>1, <2>2
<1>3. ASSUME NEW t \in Threads, Finds(t) \/ Begins(t) PROVE sent' = sent
  BY <1>3 DEF Finds, Begins
<1>4. ASSUME NEW d \in Devices, NEW l \in Links, LinkStep(d, l) PROVE sent' = sent
  BY <1>4, LinkStepCases
<1>5. ASSUME NEW r \in Receivers, NEW n \in Frames, NEW as, Garbles(r, n) \/ Handles(r, n, as)
      PROVE  sent' = sent
  BY <1>5 DEF Garbles, Handles, Takes
<1>6. ASSUME NEW r \in Receivers, Shows(r) PROVE sent' = sent BY <1>6 DEF Shows
<1> QED BY <1>1, <1>2, <1>3, <1>4, <1>5, <1>6 DEF StepKinds

\* What a thread has to send it had to send before, was called for, or is its
\* answer to a request.
GoesOnWith(t) ==
    /\ job[t].pc \in {"send", "queue"}
    /\ job'[t].dev = job[t].dev /\ job'[t].text = job[t].text
    /\ job'[t].todo \cup {job'[t].to} \subseteq job[t].todo \cup {job[t].to}
CalledFor(t) ==
    \E d \in Devices, todo \in SUBSET Devices, text \in Texts :
        /\ job'[t].dev = d /\ job'[t].text = text /\ job'[t].todo \cup {job'[t].to} \subseteq todo
        /\ text.type # "apps_list"
        /\ OfApp(text) => \A e \in todo : subs[d][e] # None /\ text.body \in subs[d][e]
Answers(t) ==
    \E n \in Frames :
        /\ t \in Receivers /\ Handles(t, n, "control") /\ sent[n].text.type = "apps_request"
        /\ job'[t].text = AppsList(t[1], sent[n].from, n)

\* What a thread is about to send it was sending before, a call gave it, or
\* answers a request.
LEMMA JobCases ==
  ASSUME Typed, StepKinds, NEW u \in Threads, job'[u].pc \in {"send", "queue"}
  PROVE  GoesOnWith(u) \/ CalledFor(u) \/ Answers(u)
<1>0. job \in [Threads -> JobRecs] BY DEF Typed, SentTypes
<1>1. CASE job' = job BY <1>1 DEF GoesOnWith
<1>2. ASSUME NEW t \in Threads, NEW j \in JobRecs, job' = [job EXCEPT ![t] = j], u # t PROVE GoesOnWith(u)
  BY <1>0, <1>2 DEF GoesOnWith
<1>3. ASSUME NEW t \in Threads, NEW j \in JobRecs, job' = [job EXCEPT ![t] = j], u = t PROVE job'[u] = j
  BY <1>0, <1>3
<1>4. ASSUME NEW t \in Threads, NEW r \in SentRecs, NEW j \in JobRecs, Sending(t, r, j)
      PROVE  GoesOnWith(u)
  <2>1. CASE u # t BY <1>2, <1>4, <2>1 DEF Sending
  <2>2. CASE u = t
    <3>1. job'[u] = j BY <1>3, <1>4, <2>2 DEF Sending
    <3> QED BY <1>4, <2>2, <3>1 DEF Sending, NextJob, GoesOnWith
  <2> QED BY <2>1, <2>2
<1>5. ASSUME NEW t \in Threads, Finds(t) PROVE GoesOnWith(u)
  <2>1. PICK j \in JobRecs :
          /\ job[t].pc = "send" /\ job' = [job EXCEPT ![t] = j]
          /\ j.dev = job[t].dev /\ j.to = job[t].to /\ j.todo = job[t].todo /\ j.text = job[t].text
    BY <1>5 DEF Finds
  <2>2. CASE u # t BY <1>2, <2>1, <2>2
  <2>3. CASE u = t
    <3>1. job'[u] = j BY <1>3, <2>1, <2>3
    <3> QED BY <2>1, <2>3, <3>1 DEF GoesOnWith
  <2> QED BY <2>2, <2>3
<1>6. ASSUME NEW t \in Threads, Begins(t) PROVE GoesOnWith(u) \/ CalledFor(u)
  <2>1. PICK d \in Devices, todo \in SUBSET Devices, text \in Texts, j \in JobRecs :
          /\ job' = [job EXCEPT ![t] = j] /\ NextJob(j, d, todo, text)
          /\ text.type # "apps_list"
          /\ text.type = "notification" /\ text.body # None =>
                \A e \in todo : subs[d][e] # None /\ text.body \in subs[d][e]
    BY <1>6 DEF Begins
  <2>2. CASE u # t BY <1>2, <2>1, <2>2
  <2>3. CASE u = t
    <3>1. job'[u] = j BY <1>3, <2>1, <2>3
    <3>2. j.dev = d /\ j.text = text /\ j.todo \cup {j.to} \subseteq todo BY <2>1, <3>1 DEF NextJob
    <3> QED BY <2>1, <3>1, <3>2 DEF CalledFor, OfApp
  <2> QED BY <2>2, <2>3
<1>7. ASSUME NEW r \in Receivers, NEW n \in Frames, Garbles(r, n) PROVE GoesOnWith(u)
  <2>1. PICK j \in JobRecs : job' = [job EXCEPT ![r] = j] /\ j.pc = "garbled" BY <1>7 DEF Garbles
  <2>2. r \in Threads BY ReceiverFacts
  <2>3. u # r BY <1>3, <2>1, <2>2
  <2> QED BY <1>2, <2>1, <2>2, <2>3
<1>8. ASSUME NEW r \in Receivers, NEW n \in Frames, NEW as \in {"chat", "control"}, Handles(r, n, as)
      PROVE  GoesOnWith(u) \/ Answers(u)
  <2>1. PICK todo \in SUBSET Devices, text \in Texts, j \in JobRecs :
          /\ job' = [job EXCEPT ![r] = j] /\ NextJob(j, r[1], todo, text)
          /\ todo # {} => /\ as = "control" /\ sent[n].text.type = "apps_request"
                          /\ text = AppsList(r[1], sent[n].from, n)
    BY <1>8 DEF Handles
  <2>2. r \in Threads BY ReceiverFacts
  <2>3. CASE u # r BY <1>2, <2>1, <2>2, <2>3
  <2>4. CASE u = r
    <3>1. job'[u] = j BY <1>3, <2>1, <2>2, <2>4
    <3>2. todo # {} /\ j.text = text BY <2>1, <3>1 DEF NextJob
    <3>3. as = "control" /\ sent[n].text.type = "apps_request" /\ job'[u].text = AppsList(u[1], sent[n].from, n)
      BY <2>1, <2>4, <3>1, <3>2
    <3> QED BY <1>8, <2>4, <3>3 DEF Answers
  <2> QED BY <2>3, <2>4
<1>9. ASSUME NEW r \in Receivers, Shows(r) PROVE GoesOnWith(u)
  <2>1. job' = [job EXCEPT ![r] = Idle] /\ r \in Threads BY <1>9, ReceiverFacts DEF Shows
  <2>2. u # r BY <1>3, <2>1, IdleFacts
  <2> QED BY <1>2, <2>1, <2>2, IdleFacts
<1>10. ASSUME NEW d \in Devices, NEW l \in Links, LinkStep(d, l) PROVE job' = job
  BY <1>10, LinkStepCases
<1>11. ASSUME NEW t \in Threads, Refuses(t) \/ SendsDirect(t) \/ Queues(t) PROVE GoesOnWith(u)
  <2>1. PICK r \in SentRecs, j \in JobRecs : Sending(t, r, j)
    BY <1>11 DEF Refuses, SendsDirect, Queues
  <2> QED BY <1>4, <2>1
<1>12. CASE UNCHANGED core BY <1>1, <1>12 DEF core
<1> QED BY <1>1, <1>5, <1>6, <1>7, <1>8, <1>9, <1>10, <1>11, <1>12 DEF StepKinds

\* Frames stay what they are, and what is handled stays handled.
LEMMA StaysHandled ==
  ASSUME Typed, PlaceStep
  PROVE  /\ \A d \in Devices : Handled(d) \subseteq Handled(d)'
         /\ \A m \in Frames, d, e \in Devices :
               (Subscribes(m, d, e)' <=> Subscribes(m, d, e)) /\ (Wants(m, d, e) => Wants(m, d, e)')
<1>1. \A d \in Devices : Handled(d) \subseteq Handled(d)'
  BY DEF PlaceStep, PNothing, PDirect, PQueued, PWritten, PReleased, PHandled, PShown, PGarbled,
     HandledSame, HandledTo
<1>2. \A n \in Frames : sent'[n] = sent[n] BY SentFacts
<1> QED BY <1>1, <1>2 DEF Wants, Subscribes

\* A subscription is stored when it is handled as a control message.
Stores(r, n) ==
    /\ r \in Receivers /\ n \in Frames /\ Handles(r, n, "control")
    /\ sent[n].text.type = "subscribe_apps" /\ sent[n].from \in Devices /\ r[1] \in Devices
    /\ \A d, e \in Devices :
          IF d = r[1] /\ e = sent[n].from
          THEN subs'[d][e] = sent[n].text.body /\ origin'[d][e] = n
          ELSE subs'[d][e] = subs[d][e] /\ origin'[d][e] = origin[d][e]

\* A subscription is stored only by the receiver of one.
LEMMA SubsCases ==
  ASSUME Typed, StepKinds
  PROVE  UNCHANGED <<subs, origin>> \/ \E r \in Receivers, n \in Frames : Stores(r, n)
<1>1. CASE UNCHANGED core BY <1>1 DEF core
<1>2. ASSUME NEW t \in Threads,
             Refuses(t) \/ SendsDirect(t) \/ Queues(t) \/ Finds(t) \/ Begins(t)
      PROVE  UNCHANGED <<subs, origin>>
  BY <1>2 DEF Refuses, SendsDirect, Queues, Finds, Begins
<1>3. ASSUME NEW d \in Devices, NEW l \in Links, LinkStep(d, l) PROVE UNCHANGED <<subs, origin>>
  BY <1>3, LinkStepCases
<1>4. ASSUME NEW r \in Receivers, NEW n \in Frames, Garbles(r, n) PROVE UNCHANGED <<subs, origin>>
  BY <1>4 DEF Garbles
<1>5. ASSUME NEW r \in Receivers, NEW n \in Frames, NEW as \in {"chat", "control"}, Handles(r, n, as)
      PROVE  UNCHANGED <<subs, origin>> \/ Stores(r, n)
  <2>1. CASE ~(as = "control" /\ sent[n].text.type = "subscribe_apps") BY <1>5, <2>1 DEF Handles
  <2>2. CASE as = "control" /\ sent[n].text.type = "subscribe_apps"
    <3>1. PICK x \in Devices, y \in Devices : x = r[1] /\ y = sent[n].from
      <4>1. sent[n] \in SentRecs BY DEF Typed, SentTypes, Frames
      <4> QED BY <4>1, ReceiverFacts DEF SentRecs
    <3>2. /\ subs' = [subs EXCEPT ![x][y] = sent[n].text.body]
          /\ origin' = [origin EXCEPT ![x][y] = n]
      BY <1>5, <2>2, <3>1 DEF Handles
    <3>3. /\ subs \in [Devices -> [Devices -> {None} \cup SUBSET Packages]]
          /\ origin \in [Devices -> [Devices -> Nat]]
      BY DEF Typed, HandledTypes
    <3>4. ASSUME NEW d \in Devices, NEW e \in Devices
          PROVE  IF d = x /\ e = y
                 THEN subs'[d][e] = sent[n].text.body /\ origin'[d][e] = n
                 ELSE subs'[d][e] = subs[d][e] /\ origin'[d][e] = origin[d][e]
      <4>1. CASE d = x /\ e = y BY <3>2, <3>3, <4>1
      <4>2. CASE ~(d = x /\ e = y) BY <3>2, <3>3, <4>2
      <4> QED BY <4>1, <4>2
    <3> QED BY <1>5, <2>2, <3>1, <3>4 DEF Stores
  <2> QED BY <2>1, <2>2
<1>6. ASSUME NEW r \in Receivers, Shows(r) PROVE UNCHANGED <<subs, origin>> BY <1>6 DEF Shows
<1> QED BY <1>1, <1>2, <1>3, <1>4, <1>5, <1>6 DEF StepKinds

\* Whoever handles a frame is whom it was sent to.
LEMMA HandledHere ==
  ASSUME Typed, AddressInv, TwiceInv, OnceInv, AgainGrows, NEW r \in Receivers, NEW n \in Frames, NEW as, Handles(r, n, as)
  PROVE  /\ PHandled(n, r) /\ Done(r, n, as) /\ sent[n].to = r[1] /\ r[1] \in Devices /\ Ok(n)
         /\ n \in Handled(r[1])' /\ sent' = sent /\ (n \in Handled(r[1]) => Repeatable(n))
<1>1. PHandled(n, r) /\ Done(r, n, as) BY HandlesPlaces DEF Handles
<1>2. PTaken(n, r) /\ HandledTo(r[1], n) BY <1>1 DEF PHandled
<1>3. r[1] \in Devices BY ReceiverFacts
<1>4. n \in Handled(r[1]) => Repeatable(n)
  <2>1. n \notin again' => n \notin Handled(r[1]) BY <1>2, <1>3, TakenAway
  <2> QED BY <2>1 DEF OnceInv, AgainGrows
<1>5. sent[n].to = r[1] /\ Ok(n)
  <2>1. CASE r \in Ends
    <3>1. n \in Written(Other(r[2], r[1]), r[2]) BY <1>2, <2>1 DEF PTaken
    <3> QED BY <2>1, <3>1, WayFacts
  <2>2. CASE r \notin Ends BY <1>2, <2>2 DEF PTaken, AddressInv
  <2> QED BY <2>1, <2>2
<1>6. n \in Handled(r[1])' BY <1>2, <1>3 DEF HandledTo
<1>7. sent' = sent BY <1>2 DEF PTaken
<1> QED BY <1>1, <1>3, <1>4, <1>5, <1>6, <1>7

\* After every step, too, a stored subscription is that of the frame it came in.
LEMMA SubStep ==
  ASSUME Typed, Typed', AddressInv, TwiceInv, OnceInv, AgainGrows, SubInv, PlaceStep, StepKinds PROVE SubInv'
<1>0. \A n \in Frames : n \in Nat /\ n \in Frames' /\ sent'[n] = sent[n] BY SentFacts
<1>k. \A m \in Frames, d, e \in Devices : Wants(m, d, e) => Wants(m, d, e)' BY StaysHandled
<1>1. ASSUME NEW d \in Devices, NEW e \in Devices, NEW m, m = origin'[d][e]
      PROVE  IF m = 0 THEN subs'[d][e] = None
             ELSE m \in Frames' /\ Wants(m, d, e)' /\ subs'[d][e] = sent'[m].text.body
  <2>1. ASSUME subs'[d][e] = subs[d][e], origin'[d][e] = origin[d][e]
        PROVE  IF m = 0 THEN subs'[d][e] = None
               ELSE m \in Frames' /\ Wants(m, d, e)' /\ subs'[d][e] = sent'[m].text.body
    <3>0. m = origin[d][e] BY <1>1, <2>1
    <3>1. CASE m = 0 BY <2>1, <3>0, <3>1 DEF SubInv
    <3>2. CASE m # 0
      <4>1. m \in Frames /\ Wants(m, d, e) /\ subs[d][e] = sent[m].text.body
        BY <3>0, <3>2 DEF SubInv
      <4>2. m \in Frames' /\ Wants(m, d, e)' /\ subs'[d][e] = sent'[m].text.body
        BY <1>0, <1>k, <2>1, <4>1
      <4> QED BY <2>1, <3>0, <3>2, <4>2
    <3> QED BY <3>1, <3>2
  <2>2. ASSUME NEW r \in Receivers, NEW n \in Frames, Stores(r, n), d = r[1], e = sent[n].from
        PROVE  IF m = 0 THEN subs'[d][e] = None
               ELSE m \in Frames' /\ Wants(m, d, e)' /\ subs'[d][e] = sent'[m].text.body
    <3>1. m = n /\ subs'[d][e] = sent[n].text.body /\ sent[n].text.type = "subscribe_apps"
      BY <1>1, <2>2 DEF Stores
    <3>2. sent[n].to = d /\ n \in Handled(d)' BY <2>2, HandledHere DEF Stores
    <3>3. Wants(n, d, e)' BY <1>0, <2>2, <3>1, <3>2 DEF Wants, Subscribes
    <3> QED BY <1>0, <3>1, <3>3 DEF Frames, Typed, SentTypes
  <2>3. ASSUME NEW r \in Receivers, NEW n \in Frames, Stores(r, n), ~(d = r[1] /\ e = sent[n].from)
        PROVE  subs'[d][e] = subs[d][e] /\ origin'[d][e] = origin[d][e]
    BY <2>3 DEF Stores
  <2> QED BY <2>1, <2>2, <2>3, SubsCases
<1>2. ASSUME NEW d \in Devices, NEW e \in Devices, NEW b, subs[d][e] # None, b \in subs[d][e]
      PROVE  \E m \in Frames' : Wants(m, d, e)' /\ b \in sent'[m].text.body
  <2>1. PICK m : m = origin[d][e] OBVIOUS
  <2>2. m \in Frames /\ Wants(m, d, e) /\ subs[d][e] = sent[m].text.body BY <1>2, <2>1 DEF SubInv
  <2> QED BY <1>0, <1>2, <1>k, <2>2
<1>3. ASSUME NEW t \in Threads, job'[t].pc \in {"send", "queue"}, NEW d, NEW text,
             d = job'[t].dev, text = job'[t].text, OfApp(text),
             NEW e \in job'[t].todo \cup {job'[t].to}
      PROVE  \E m \in Frames' : Wants(m, d, e)' /\ text.body \in sent'[m].text.body
  <2>0. e \in Devices
    <3>1. job'[t] \in JobRecs /\ JobOK(t)' BY DEF Typed, SentTypes
    <3> QED BY <1>3, <3>1 DEF JobOK, JobRecs
  <2>1. d = job'[t].dev /\ text = job'[t].text BY <1>3
  <2>2. CASE GoesOnWith(t)
    <3>1. /\ job[t].pc \in {"send", "queue"} /\ d = job[t].dev /\ text = job[t].text
          /\ e \in job[t].todo \cup {job[t].to} /\ OfApp(job[t].text)
      BY <1>3, <2>1, <2>2 DEF GoesOnWith
    <3>2. d \in Devices BY <3>1 DEF Typed, SentTypes, JobOK
    <3>3. PICK m \in Frames : Wants(m, d, e) /\ text.body \in sent[m].text.body
      BY <3>1 DEF SubInv
    <3> QED BY <1>0, <1>k, <2>0, <3>2, <3>3
  <2>3. CASE CalledFor(t)
    <3>1. d \in Devices /\ subs[d][e] # None /\ text.body \in subs[d][e]
      BY <1>3, <2>1, <2>3 DEF CalledFor
    <3> QED BY <1>2, <2>0, <3>1
  <2>4. CASE Answers(t)
    <3>1. text.type = "apps_list" BY <2>1, <2>4 DEF Answers, AppsList, Text
    <3> QED BY <1>3, <2>1, <3>1 DEF OfApp
  <2> QED BY <1>3, <2>2, <2>3, <2>4, JobCases
<1>4. ASSUME NEW n \in Frames', NEW d, NEW e, NEW text, d = sent'[n].from, e = sent'[n].to,
             text = sent'[n].text, OfApp(text)
      PROVE  \E m \in Frames' : m < n /\ Wants(m, d, e)' /\ text.body \in sent'[m].text.body
  <2>1. d = sent'[n].from /\ e = sent'[n].to /\ text = sent'[n].text BY <1>4
  <2>2. d \in Devices /\ e \in Devices
    <3>1. sent'[n] \in SentRecs BY DEF Typed, SentTypes, Frames
    <3> QED BY <2>1, <3>1 DEF SentRecs
  <2> SUFFICES \E m \in Frames : m < n /\ Wants(m, d, e) /\ text.body \in sent[m].text.body
    BY <1>0, <1>k, <2>2
  <2>3. CASE n \in Frames
    <3>1. sent[n] = sent'[n] BY <1>0, <2>3
    <3> QED BY <1>4, <2>1, <2>3, <3>1 DEF SubInv
  <2>4. CASE n \notin Frames
    <3>1. sent' # sent BY <2>4 DEF Frames
    <3>2. PICK t \in Threads, r \in SentRecs, j \in JobRecs, k \in Nat :
             Sending(t, r, j) /\ NewFrame(k) /\ sent'[k] = r
      BY <3>1, SentCases
    <3>3. k = n /\ \A m \in Frames : m < n BY <2>4, <3>2 DEF NewFrame
    <3>4. job[t].pc \in {"send", "queue"} /\ d = job[t].dev /\ e = job[t].to /\ text = job[t].text
      BY <2>1, <3>2, <3>3 DEF Sending
    <3>5. OfApp(job[t].text) BY <1>4, <2>1, <3>4
    <3>6. \E m \in Frames : Wants(m, d, e) /\ text.body \in sent[m].text.body BY <3>4, <3>5 DEF SubInv
    <3> QED BY <3>3, <3>6
  <2> QED BY <2>3, <2>4
<1>5. (\A d, e \in Devices :
          LET m == origin[d][e] IN
          IF m = 0 THEN subs[d][e] = None
          ELSE m \in Frames /\ Wants(m, d, e) /\ subs[d][e] = sent[m].text.body)'
  BY <1>1 DEF Wants, Subscribes
<1>6. (\A t \in Threads : job[t].pc \in {"send", "queue"} /\ OfApp(job[t].text) =>
          \A e \in job[t].todo \cup {job[t].to} : \E m \in Frames :
              Wants(m, job[t].dev, e) /\ job[t].text.body \in sent[m].text.body)'
  BY <1>3 DEF Wants, Subscribes, OfApp
<1>7. (\A n \in Frames : OfApp(sent[n].text) => \E m \in Frames :
          m < n /\ Wants(m, sent[n].from, sent[n].to) /\ sent[n].text.body \in sent[m].text.body)'
  BY <1>4 DEF Wants, Subscribes, OfApp
<1> QED BY <1>5, <1>6, <1>7 DEF SubInv

\* A frame is taken for a control message by its handling and by nothing else.
LEMMA ControlCases ==
  ASSUME Typed, AddressInv, TwiceInv, OnceInv, AgainGrows, StepKinds, NEW m, NEW d \in Devices, Controlled(m, d)'
  PROVE  \/ Controlled(m, d)
         \/ \E r \in Receivers : /\ m \in Frames /\ r[1] = d /\ Handles(r, m, "control")
                                 /\ m \in Handled(d) => Repeatable(m)
<1>1. PICK i \in DOMAIN got'[d] : got'[d][i].frame = m /\ got'[d][i].as = "control" BY DEF Controlled
<1>2. CASE got' = got BY <1>1, <1>2 DEF Controlled
<1>3. ASSUME NEW r \in Receivers, NEW n \in Frames, NEW as, Done(r, n, as),
             n \in Handled(r[1]) => Repeatable(n), as = "control" => Handles(r, n, as)
      PROVE  \/ Controlled(m, d)
             \/ /\ m \in Frames /\ r[1] = d /\ Handles(r, m, "control")
                /\ m \in Handled(d) => Repeatable(m)
  <2>1. Grown(r[1], n, as) BY <1>3, FrameNumbers, DoneFacts
  <2>2. CASE r[1] # d
    <3>1. got'[d] = got[d] BY <2>1, <2>2 DEF Grown
    <3> QED BY <1>1, <3>1 DEF Controlled
  <2>3. CASE r[1] = d
    <3>1. CASE i \in DOMAIN got[d]
      <4>1. got'[d][i] = got[d][i] BY <2>1, <2>3, <3>1 DEF Grown
      <4> QED BY <1>1, <3>1, <4>1 DEF Controlled
    <3>2. CASE i \notin DOMAIN got[d]
      <4>1. got'[d][i] = [frame |-> n, as |-> as] BY <2>1, <2>3, <3>2 DEF Grown
      <4>2. m = n /\ as = "control" BY <1>1, <4>1
      <4> QED BY <1>3, <2>3, <4>2
    <3> QED BY <3>1, <3>2
  <2> QED BY <2>2, <2>3
<1> QED BY <1>2, <1>3, GotCases

\* Over a WebSocket what is handled next was sent later than all that has
\* been handled, and with it all that was sent before it has.
LEMMA NextOverSocket ==
  ASSUME Typed, Typed', AddressInv, TwiceInv, OnceInv, AgainGrows, OrderInv, OrderInv', PlaceStep, StepKinds,
         NEW r \in Receivers, NEW n \in Frames, NEW as, Handles(r, n, as), NEW m \in Frames,
         Ok(m), SameSocket(m, n), sent[m].from = sent[n].from
  PROVE  /\ m \in Handled(r[1]) => m < n
         /\ m < n => m \in Handled(r[1])'
<1>1. /\ PHandled(n, r) /\ sent[n].to = r[1] /\ r[1] \in Devices /\ Ok(n)
      /\ n \in Handled(r[1])' /\ sent' = sent /\ (n \in Handled(r[1]) => Repeatable(n))
  BY HandledHere
<1>2. PICK l \in Links, e \in Devices :
        /\ sent[n].via = l /\ sent[m].via = l /\ Kind[l] = "ws" /\ sent[n].from = e /\ sent[m].from = e
  <2>1. sent[n] \in SentRecs BY DEF Typed, SentTypes, Frames
  <2> QED BY <2>1 DEF SameSocket, SentRecs
<1>3. <<e, l>> \in Ends /\ Other(l, e) = r[1] BY <1>1, <1>2 DEF AddressInv
<1>4. Ordered(e, l) /\ Ordered(e, l)'
  <2>1. <<e, l>>[1] = e /\ <<e, l>>[2] = l OBVIOUS
  <2>2. PICK x \in Ends : x[1] = e /\ x[2] = l BY <1>3, <2>1
  <2> QED BY <1>2, <2>2 DEF OrderInv
<1>5. Over(n, e, l) /\ Over(m, e, l) /\ Over(n, e, l)' /\ Over(m, e, l)' BY <1>1, <1>2 DEF Over
<1>6. n \notin Came(e, l) /\ n \in Came(e, l)'
  <2>1. ~Repeatable(n) BY <1>2, SendAssumption DEF Repeatable
  <2> QED BY <1>1, <1>3, <1>5, <2>1 DEF Came
<1>7. ASSUME m \in Handled(r[1]) PROVE m < n
  <2>1. m \in Came(e, l) BY <1>3, <1>5, <1>7 DEF Came
  <2>2. ChainStep(e, l) BY <1>2, <1>3, <1>4, ChainCases DEF Ordered
  <2>3. Chain(Came(e, l), Opening(e, l), Written(e, l), Queued(e, l), SentOver(e, l), stage[e][l])
    BY <1>4 DEF Ordered
  <2> QED BY <1>6, <2>1, <2>2, <2>3, NextCame
<1>8. ASSUME m < n PROVE m \in Handled(r[1])'
  <2> DEFINE C == Came(e, l)'
             R == Opening(e, l)' \cup Written(e, l)' \cup Queued(e, l)'
  <2>1. m \in SentOver(e, l)' BY <1>1, <1>5 DEF SentOver, Frames
  <2>2. Chain(Came(e, l)', Opening(e, l)', Written(e, l)', Queued(e, l)', SentOver(e, l)', stage'[e][l])
    BY <1>4 DEF Ordered
  <2>3. Below(C, R) /\ m \in C \cup R BY <1>6, <1>8, <2>1, <2>2 DEF Chain
  <2>4. m \in Nat /\ n \in Nat BY SentFacts
  <2>5. m \notin R BY <1>6, <1>8, <2>3, <2>4 DEF Below
  <2>6. m \in C BY <2>3, <2>5
  <2> QED BY <1>3, <2>6 DEF Came
<1> QED BY <1>7, <1>8

\* After every step, too, what came over a WebSocket is no later than the
\* subscription that is kept, unless that one came another way.
LEMMA OriginStep ==
  ASSUME Typed, Typed', AddressInv, TwiceInv, OnceInv, AgainGrows, OrderInv, OrderInv', SubInv, OriginInv, PlaceStep, StepKinds
  PROVE  OriginInv'
<1>0. \A n \in Frames : n \in Nat /\ n \in Frames' /\ sent'[n] = sent[n] BY SentFacts
<1> SUFFICES ASSUME NEW d \in Devices, NEW e \in Devices, NEW m \in Frames',
                    Subscribes(m, d, e)', Controlled(m, d)', SameSocket(m, m)',
                    NEW o, o = origin'[d][e]
             PROVE  o # 0 /\ (o >= m \/ sent'[o].via # sent'[m].via)
  BY DEF OriginInv
<1>1. CASE Controlled(m, d)
  <2>1. m \in Handled(d) BY <1>1 DEF Controlled, Handled
  <2>2. m \in Frames /\ Ok(m) BY <2>1 DEF AddressInv
  <2>3. Subscribes(m, d, e) /\ SameSocket(m, m) /\ sent'[m] = sent[m]
    BY <1>0, <2>2 DEF Subscribes, SameSocket
  <2>4. ASSUME o = origin[d][e] PROVE o # 0 /\ (o >= m \/ sent'[o].via # sent'[m].via)
    <3>1. o # 0 /\ (o >= m \/ sent[o].via # sent[m].via) BY <1>1, <2>2, <2>3, <2>4 DEF OriginInv
    <3>2. o \in Frames BY <2>4, <3>1 DEF SubInv
    <3> QED BY <1>0, <2>3, <3>1, <3>2
  <2>5. ASSUME NEW r \in Receivers, NEW n \in Frames, Stores(r, n)
        PROVE  o # 0 /\ (o >= m \/ sent'[o].via # sent'[m].via)
    <3>1. CASE ~(d = r[1] /\ e = sent[n].from)
      <4>1. o = origin[d][e] BY <2>5, <3>1 DEF Stores
      <4> QED BY <2>4, <4>1
    <3>2. CASE d = r[1] /\ e = sent[n].from
      <4>1. o = n /\ Handles(r, n, "control") BY <2>5, <3>2 DEF Stores
      <4>2. n \in Nat /\ n # 0 /\ m \in Nat BY <1>0, <2>2 DEF Frames, Typed, SentTypes
      <4>3. CASE sent[n].via # sent[m].via BY <1>0, <2>2, <4>1, <4>2, <4>3
      <4>4. CASE sent[n].via = sent[m].via
        <5>1. SameSocket(m, n) /\ sent[m].from = sent[n].from
          BY <2>3, <3>2, <4>4 DEF SameSocket, Subscribes
        <5>2. m < n BY <2>1, <2>2, <3>2, <4>1, <5>1, NextOverSocket
        <5> QED BY <4>1, <4>2, <5>2
      <4> QED BY <4>3, <4>4
    <3> QED BY <3>1, <3>2
  <2>6. UNCHANGED <<subs, origin>> => o = origin[d][e] OBVIOUS
  <2> QED BY <2>4, <2>5, <2>6, SubsCases
<1>2. ASSUME NEW r \in Receivers, m \in Frames, r[1] = d, Handles(r, m, "control")
      PROVE  o # 0 /\ (o >= m \/ sent'[o].via # sent'[m].via)
  <2>1. m \in Nat /\ m # 0 BY <1>0, <1>2 DEF Frames, Typed, SentTypes
  <2>2. sent[m].text.type = "subscribe_apps" /\ sent[m].from = e
    BY <1>0, <1>2 DEF Subscribes
  <2>3. origin' = [origin EXCEPT ![d][e] = m] BY <1>2, <2>2 DEF Handles
  <2>4. origin \in [Devices -> [Devices -> Nat]] BY DEF Typed, HandledTypes
  <2>5. o = m BY <2>3, <2>4
  <2> QED BY <2>1, <2>5
<1> QED BY <1>1, <1>2, ControlCases

\* What a list says of its request it says for ever.
LEMMA ListKept ==
  ASSUME Typed, AddressInv, TwiceInv, OnceInv, AgainGrows, PlaceStep, StepKinds, NEW text, ListOK(text)
  PROVE  ListOK(text)'
<1> DEFINE ask == text.body.ask
<1>0. \A n \in Frames : n \in Nat /\ n \in Frames' /\ sent'[n] = sent[n] /\ Ok(n)' = Ok(n) BY SentFacts
<1>1. ask \in Frames BY DEF ListOK
<1>2. PICK d \in Devices : d = sent[ask].to
  <2>1. sent[ask] \in SentRecs BY <1>1 DEF Typed, SentTypes, Frames
  <2> QED BY <2>1 DEF SentRecs
<1>3. sent'[ask] = sent[ask] /\ ask \in Frames' /\ ask \in Nat BY <1>0, <1>1
<1>4. \A m \in Frames' : m < ask => m \in Frames
  <2>1. sent' = sent \/ \E n \in Nat : NewFrame(n) BY SentFacts
  <2>2. CASE sent' = sent BY <2>2 DEF Frames
  <2>3. ASSUME NEW n \in Nat, NewFrame(n) PROVE \A m \in Frames' : m < ask => m \in Frames
    BY <1>0, <1>1, <2>3 DEF NewFrame
  <2> QED BY <2>1, <2>2, <2>3
<1>5. \A m \in Frames : Subscribes(m, sent[ask].to, sent[ask].from)' <=>
                        Subscribes(m, sent[ask].to, sent[ask].from)
  BY <1>0, <1>3 DEF Subscribes
<1>6. Earlier(ask)' = Earlier(ask) BY <1>0, <1>3, <1>4, <1>5 DEF Earlier
<1>7. \A m \in Earlier(ask) : m \in Frames /\ (SameSocket(m, ask)' <=> SameSocket(m, ask))
  BY <1>0, <1>3 DEF Earlier, SameSocket
<1>8. ASSUME NEW m \in Earlier(ask)', \A k \in Earlier(ask)' : SameSocket(k, ask)'
      PROVE  m \in Handled(d)' /\ (Controlled(m, d)' => text.body.origin >= m)
  <2>1. m \in Handled(d) /\ (Controlled(m, d) => text.body.origin >= m)
    BY <1>2, <1>6, <1>7, <1>8 DEF ListOK
  <2>2. m \in Handled(d)' BY <2>1, StaysHandled
  <2>3. Controlled(m, d)' => Controlled(m, d)
    <3>1. SameSocket(m, ask) BY <1>6, <1>7, <1>8
    <3>2. ~Repeatable(m) BY <3>1, SendAssumption DEF SameSocket, Repeatable
    <3> QED BY <2>1, <3>2, ControlCases
  <2> QED BY <2>1, <2>2, <2>3
<1>9. d = sent'[ask].to BY <1>2, <1>3
<1> HIDE DEF ask
<1>10. /\ ask \in Frames'
       /\ (\A m \in Earlier(ask)' : SameSocket(m, ask)') =>
             \A m \in Earlier(ask)' : m \in Handled(d)' /\ (Controlled(m, d)' => text.body.origin >= m)
  BY <1>3, <1>8
<1> QED BY <1>9, <1>10 DEF ListOK, ask, Controlled

\* The answer to a request names the last of the subscriptions before it.
LEMMA ListAnswer ==
  ASSUME Typed, Typed', AddressInv, TwiceInv, OnceInv, AgainGrows, OrderInv, OrderInv', SubInv, OriginInv, PlaceStep, StepKinds,
         NEW r \in Receivers, NEW n \in Frames, Handles(r, n, "control"),
         sent[n].text.type = "apps_request", NEW text, text = AppsList(r[1], sent[n].from, n)
  PROVE  ListOK(text)'
<1>0. \A k \in Frames : k \in Nat /\ k \in Frames' /\ sent'[k] = sent[k] BY SentFacts
<1>1. /\ sent[n].to = r[1] /\ r[1] \in Devices /\ Ok(n) /\ sent' = sent
  BY HandledHere
<1>2. PICK d \in Devices, e \in Devices : d = r[1] /\ e = sent[n].from /\ d = sent[n].to
  <2>1. sent[n] \in SentRecs BY DEF Typed, SentTypes, Frames
  <2> QED BY <1>1, <2>1 DEF SentRecs
<1>3. PICK o : o = origin[d][e] OBVIOUS
<1>4. text.body.ask = n /\ text.body.origin = o BY <1>2, <1>3 DEF AppsList, Text
<1>5. ASSUME NEW m \in Earlier(n), \A k \in Earlier(n) : SameSocket(k, n)
      PROVE  m \in Handled(d)' /\ (Controlled(m, d)' => o >= m)
  <2>1. m \in Frames /\ m < n /\ Ok(m) /\ Subscribes(m, d, e) /\ SameSocket(m, n)
    BY <1>2, <1>5 DEF Earlier
  <2>2. sent[m].from = sent[n].from BY <1>2, <2>1 DEF Subscribes
  <2>3. m \in Handled(d)' BY <1>2, <2>1, <2>2, NextOverSocket
  <2>4. ASSUME Controlled(m, d)' PROVE o >= m
    <3>1. Controlled(m, d)
      <4>1. ~\E u \in Receivers : Handles(u, m, "control") /\ u[1] = d
        <5> SUFFICES ASSUME NEW u \in Receivers, Handles(u, m, "control"), u[1] = d
                     PROVE  FALSE
          OBVIOUS
        <5>1. Done(u, m, "control") /\ Done(r, n, "control") BY DEF Handles
        <5>2. Grown(d, m, "control") /\ Grown(d, n, "control") BY <1>2, <2>1, <5>1, FrameNumbers, DoneFacts
        <5>3. [frame |-> m, as |-> "control"] = [frame |-> n, as |-> "control"] BY <5>2 DEF Grown
        <5>4. m = n BY <5>3
        <5> QED BY <1>0, <2>1, <5>4
      <4> QED BY <2>4, <4>1, ControlCases
    <3>2. SameSocket(m, m) BY <2>1 DEF SameSocket
    <3>3. o # 0 /\ (o >= m \/ sent[o].via # sent[m].via)
      BY <1>3, <2>1, <3>1, <3>2 DEF OriginInv
    <3>4. o \in Frames /\ Wants(o, d, e) BY <1>3, <3>3 DEF SubInv
    <3>5. Ok(o) BY <3>4 DEF Wants, AddressInv
    <3>6. ASSUME o < m PROVE FALSE
      <4>1. o < n /\ ~(o >= m) BY <1>0, <2>1, <3>4, <3>6
      <4>2. o \in Earlier(n) BY <1>2, <3>4, <3>5, <4>1 DEF Earlier, Wants
      <4>3. sent[o].via = sent[m].via BY <1>5, <2>1, <4>2 DEF SameSocket
      <4> QED BY <3>3, <4>1, <4>3
    <3> QED BY <1>0, <2>1, <3>4, <3>6
  <2> QED BY <2>3, <2>4
<1>6. Earlier(n)' = Earlier(n) /\ \A k \in Earlier(n) : SameSocket(k, n)' <=> SameSocket(k, n)
  BY <1>1 DEF Earlier, SameSocket, Frames, Ok, Subscribes
<1>7. /\ n \in Frames' /\ d = sent'[n].to
      /\ (\A m \in Earlier(n)' : SameSocket(m, n)') =>
             \A m \in Earlier(n)' : m \in Handled(d)' /\ (Controlled(m, d)' => o >= m)
  BY <1>0, <1>2, <1>5, <1>6
<1> QED BY <1>4, <1>7 DEF ListOK, Controlled

\* A list of apps that is sent agrees with the subscriptions its device had
\* handled.
LEMMA ListStep ==
  ASSUME Typed, Typed', AddressInv, TwiceInv, OnceInv, AgainGrows, OrderInv, OrderInv', SubInv, OriginInv, ListInv,
         PlaceStep, StepKinds
  PROVE  ListInv'
<1>1. ASSUME NEW t \in Threads, job'[t].pc \in {"send", "queue"}, NEW text, text = job'[t].text,
             text.type = "apps_list"
      PROVE  ListOK(text)'
  <2>1. CASE GoesOnWith(t)
    <3>1. ListOK(text) BY <1>1, <2>1 DEF GoesOnWith, ListInv
    <3> QED BY <3>1, ListKept
  <2>2. CASE CalledFor(t) BY <1>1, <2>2 DEF CalledFor
  <2>3. CASE Answers(t)
    <3>1. PICK n \in Frames :
            /\ t \in Receivers /\ Handles(t, n, "control") /\ sent[n].text.type = "apps_request"
            /\ text = AppsList(t[1], sent[n].from, n)
      BY <1>1, <2>3 DEF Answers
    <3> QED BY <3>1, ListAnswer
  <2> QED BY <1>1, <2>1, <2>2, <2>3, JobCases
<1>2. ASSUME NEW n \in Frames', NEW text, text = sent'[n].text, text.type = "apps_list"
      PROVE  ListOK(text)'
  <2>1. ListOK(text)
    <3>1. CASE n \in Frames
      <4>1. sent'[n] = sent[n] BY <3>1, SentFacts
      <4> QED BY <1>2, <3>1, <4>1 DEF ListInv
    <3>2. CASE n \notin Frames
      <4>1. sent' # sent BY <3>2 DEF Frames
      <4>2. PICK t \in Threads, r \in SentRecs, j \in JobRecs, k \in Nat :
               Sending(t, r, j) /\ NewFrame(k) /\ sent'[k] = r
        BY <4>1, SentCases
      <4>3. k = n BY <3>2, <4>2 DEF NewFrame
      <4>4. job[t].pc \in {"send", "queue"} /\ text = job[t].text BY <1>2, <4>2, <4>3 DEF Sending
      <4> QED BY <1>2, <4>4 DEF ListInv
    <3> QED BY <3>1, <3>2
  <2> QED BY <2>1, ListKept
<1>3. (\A t \in Threads : job[t].pc \in {"send", "queue"} /\ job[t].text.type = "apps_list"
          => ListOK(job[t].text))'
  BY <1>1 DEF ListOK
<1>4. (\A n \in Frames : sent[n].text.type = "apps_list" => ListOK(sent[n].text))'
  BY <1>2 DEF ListOK
<1> QED BY <1>3, <1>4 DEF ListInv

-----------------------------------------------------------------------------
\* The frame a thread is opening is one that was sent.
FrameInv == \A t \in Threads : job[t].frame \in Frames \cup {0}

\* A thread that sends is opening no frame.
LEMMA JobsFrame ==
  ASSUME NEW t, NEW d, NEW todo, NEW text, NEW j \in Jobs(t, d, todo, text) PROVE j.frame = 0
<1>1. CASE todo = {} BY <1>1 DEF Jobs, Idle
<1>2. CASE todo # {} BY <1>2 DEF Jobs, Idle
<1> QED BY <1>1, <1>2

\* The frame a thread is opening was sent, after every step too.
LEMMA FrameStep ==
  ASSUME Typed, FrameInv, PlaceStep, [Next]_vars PROVE FrameInv'
<1>0. job \in [Threads -> JobRecs] BY DEF Typed, SentTypes
<1>1. Frames \subseteq Frames' BY SentFacts
<1>2. ASSUME NEW t \in Threads, NEW j, job' = [job EXCEPT ![t] = j], j.frame \in Frames \cup {0}
      PROVE  FrameInv'
  <2>1. \A u \in Threads : job'[u] = IF u = t THEN j ELSE job[u] BY <1>0, <1>2
  <2>2. \A u \in Threads : job'[u].frame \in Frames \cup {0} BY <1>2, <2>1 DEF FrameInv
  <2>3. \A u \in Threads : job'[u].frame \in Frames' \cup {0} BY <1>1, <2>2
  <2> QED BY <2>3 DEF FrameInv
<1>3. CASE job' = job BY <1>1, <1>3 DEF FrameInv
<1>4. ASSUME NEW t \in Threads, NEW d, NEW todo, NEW text,
             \E j \in Jobs(t, d, todo, text) : job' = [job EXCEPT ![t] = j]
      PROVE  FrameInv'
  <2>1. PICK j \in Jobs(t, d, todo, text) : job' = [job EXCEPT ![t] = j] BY <1>4
  <2>2. j.frame = 0 BY JobsFrame
  <2> QED BY <1>2, <2>1, <2>2
<1>5. ASSUME NEW t \in Threads, NEW via, NEW k, NEW res, Return(t, via, k, res) PROVE FrameInv'
  <2>1. PICK d, todo, text : d = job[t].dev /\ todo = job[t].todo /\ text = job[t].text OBVIOUS
  <2>2. \E j \in Jobs(t, d, todo, text) : job' = [job EXCEPT ![t] = j] BY <1>5, <2>1 DEF Return
  <2> QED BY <1>4, <2>2
<1>6. ASSUME NEW t \in Threads, SendPayload(t) PROVE FrameInv'
  <2>1. CASE \E via, k, res : Return(t, via, k, res) BY <1>5, <2>1
  <2>2. CASE job' = [job EXCEPT ![t].pc = "queue", ![t].via = slot[job[t].dev][job[t].to],
                                ![t].key = key[job[t].dev]]
    <3>1. \A u \in Threads : job'[u].frame = job[u].frame BY <1>0, <2>2 DEF JobRecs
    <3> QED BY <1>1, <3>1 DEF FrameInv
  <2> QED BY <1>6, <2>1, <2>2 DEF SendPayload
<1>7. ASSUME NEW t \in Threads, Enqueue(t) PROVE FrameInv' BY <1>5, <1>7 DEF Enqueue
<1>8. ASSUME NEW d \in Devices, NEW l \in Links, Register(d, l) \/ Flush(d, l) \/ Close(d, l) \/ Release(d, l) \/ DropRx(d, l)
      PROVE  job' = job
  BY <1>8 DEF Register, Flush, Close, Release, DropRx
<1>9. \A r \in Receivers : r \in Threads BY ReceiverFacts
<1>10. Idle.frame = 0 BY DEF Idle
<1>11. ASSUME NEW r \in Receivers, EnvelopeToMessage(r) PROVE FrameInv'
  BY <1>2, <1>9, <1>10, <1>11 DEF EnvelopeToMessage
<1>12. ASSUME NEW d \in Devices, NEW v, set_directed_transport(d, v) \/ SetKey(d, v) PROVE job' = job
  BY <1>12 DEF set_directed_transport, SetKey
<1>13. ASSUME NEW c \in Calls, NEW d \in Devices, Start(c, d) PROVE FrameInv'
  <2>1. PICK todo, text : Call(c, d, todo, text)
    BY <1>13 DEF Start, send, broadcast_control, share_app_notification, request_apps, subscribe_apps
  <2>2. c \in Threads BY DEF Threads
  <2> QED BY <1>4, <2>1, <2>2 DEF Call
<1>14. ASSUME NEW d \in Devices, NEW apps, set_installed_apps(d, apps) PROVE job' = job
  BY <1>14 DEF set_installed_apps
<1>15. ASSUME NEW r \in Receivers, HandleIncoming(r) PROVE FrameInv'
  <2>1. PICK n \in Frames :
          \/ Dispatch(r, n)
          \/ job' = [job EXCEPT ![r] = [Idle EXCEPT !.pc = "garbled", !.frame = n]]
    BY <1>15 DEF HandleIncoming
  <2>2. CASE job' = [job EXCEPT ![r] = [Idle EXCEPT !.pc = "garbled", !.frame = n]]
    <3>1. [Idle EXCEPT !.pc = "garbled", !.frame = n].frame = n BY DEF Idle
    <3> QED BY <1>2, <1>9, <2>2, <3>1
  <2>3. CASE Dispatch(r, n)
    <3>1. CASE Handle(r, n) BY <1>4, <1>9, <3>1 DEF Handle
    <3>2. CASE job' = [job EXCEPT ![r] = Idle] BY <1>2, <1>9, <1>10, <3>2
    <3> QED BY <2>3, <3>1, <3>2 DEF Dispatch
  <2> QED BY <2>1, <2>2, <2>3
<1>16. CASE SendNext BY <1>3, <1>6, <1>7, <1>8, <1>11, <1>12, <1>16 DEF SendNext
<1>17. CASE UNCHANGED vars BY <1>3, <1>17 DEF vars, sendVars
<1> QED BY <1>3, <1>13, <1>14, <1>15, <1>16, <1>17 DEF Next

-----------------------------------------------------------------------------
\* The invariant.
Inv == /\ Typed /\ SlotInv /\ ChoiceInv /\ AddressInv /\ TwiceInv /\ OnceInv /\ PresentInv /\ OrderInv
       /\ SubInv /\ OriginInv /\ ListInv /\ FrameInv /\ RefusedOnlyIfEnded

\* The initial states satisfy the inductive invariant.
LEMMA InvInit == Init => Inv
<1> SUFFICES ASSUME Init PROVE Inv OBVIOUS
<1>0. /\ used \in Scenarios /\ used.changes \in Nat /\ used.repeats \in Nat
      /\ slot = [d \in Devices |-> [e \in Devices |-> None]]
      /\ stage = [d \in Devices |-> [l \in Links |-> "new"]]
      /\ queue = [d \in Devices |-> [l \in Links |-> <<>>]] /\ wire = queue
      /\ air = {} /\ sent = <<>> /\ got = [d \in Devices |-> <<>>]
      /\ key \in [Devices -> Keys] /\ changes = 0 /\ again = {} /\ repeats = 0
      /\ directed = [d \in Devices |-> "UDP"]
      /\ job = [t \in Threads |-> Idle]
      /\ installed = [d \in Devices |-> {}]
      /\ subs = [d \in Devices |-> [e \in Devices |-> None]]
      /\ origin = [d \in Devices |-> [e \in Devices |-> 0]]
  BY SendAssumption DEF Init, SendInit
<1>1. Frames = {} BY <1>0 DEF Frames
<1>2. \A t \in Threads : job[t] = Idle /\ job[t].pc = "idle" /\ job[t].frame = 0
  BY <1>0 DEF Idle
<1>3. Typed
  <2>1. LinkTypes BY <1>0 DEF LinkTypes
  <2>2. SettingTypes BY <1>0 DEF SettingTypes
  <2>3. SentTypes BY <1>0, <1>1, <1>2, IdleFacts DEF SentTypes, JobOK
  <2>4. HandledTypes BY <1>0 DEF HandledTypes
  <2> QED BY <2>1, <2>2, <2>3, <2>4 DEF Typed
<1>4. SlotInv BY <1>0 DEF SlotInv
<1>5. ChoiceInv BY <1>2 DEF ChoiceInv, ChoiceOK
<1>6. /\ \A d \in Devices, l \in Links : Queued(d, l) = {} /\ Written(d, l) = {}
      /\ \A d \in Devices : Handled(d) = {} /\ DOMAIN got[d] = {}
      /\ \A r \in Receivers : \A n : ~Garbled(r, n)
  <2>1. \A d \in Devices, l \in Links : queue[d][l] = <<>> /\ wire[d][l] = <<>> BY <1>0
  <2>2. Range(<<>>) = {} BY DEF Range
  <2>3. \A d \in Devices : DOMAIN got[d] = {} BY <1>0
  <2>4. \A r \in Receivers : job[r].pc = "idle" BY <1>2, ReceiverFacts
  <2> QED BY <2>1, <2>2, <2>3, <2>4 DEF Queued, Written, Handled, Garbled
<1>7. AddressInv BY <1>0, <1>1, <1>2, <1>6, ReceiverFacts DEF AddressInv
<1>8. TwiceInv
  <2>1. \A d \in Devices, l \in Links : Distinct(queue[d][l]) /\ Distinct(wire[d][l])
    BY <1>0 DEF Distinct
  <2> QED BY <1>6, <2>1 DEF TwiceInv
<1>9. OnceInv BY <1>0, <1>6 DEF OnceInv
<1>10. PresentInv BY <1>1 DEF PresentInv
<1>11. OrderInv
  <2> SUFFICES ASSUME NEW x \in Ends PROVE Ordered(x[1], x[2]) BY DEF OrderInv
  <2>1. PICK d \in Devices, l \in Links, e \in Devices : d = x[1] /\ l = x[2] /\ e = Other(l, d)
    BY PairFacts
  <2>2. /\ Came(d, l) = {} /\ Opening(d, l) = {} /\ Written(d, l) = {} /\ Queued(d, l) = {}
        /\ SentOver(d, l) = {}
    BY <1>1, <1>6, <2>1 DEF Came, Opening, SentOver
  <2>3. Chain(Came(d, l), Opening(d, l), Written(d, l), Queued(d, l), SentOver(d, l), stage[d][l])
    BY <2>2 DEF Chain, Below
  <2>4. Rising(queue[d][l]) /\ Rising(wire[d][l]) BY <1>0 DEF Rising
  <2>5. CameInOrder(d, l) BY <1>6, <2>1 DEF CameInOrder
  <2> QED BY <2>1, <2>3, <2>4, <2>5 DEF Ordered
<1>12. SubInv BY <1>0, <1>1, <1>2 DEF SubInv
<1>13. OriginInv BY <1>1 DEF OriginInv
<1>14. ListInv BY <1>1, <1>2 DEF ListInv
<1>15. FrameInv BY <1>2 DEF FrameInv
<1>16. RefusedOnlyIfEnded BY <1>1 DEF RefusedOnlyIfEnded
<1> QED BY <1>3, <1>4, <1>5, <1>7, <1>8, <1>9, <1>10, <1>11, <1>12, <1>13, <1>14, <1>15, <1>16 DEF Inv

\* Every step keeps it.
LEMMA InvStep == Inv /\ [Next]_vars => Inv'
<1> SUFFICES ASSUME Inv, [Next]_vars PROVE Inv' OBVIOUS
<1>1. StepKinds /\ SettingTypes' /\ AgainGrows BY StepCases, AgainStep DEF Inv
<1>2. Typed' BY <1>1, TypeStep DEF Inv
<1>3. SlotInv' BY <1>1, SlotStep DEF Inv
<1>4. ChoiceInv' BY <1>1, ChoiceStep DEF Inv
<1>5. PlaceStep BY <1>1, Places DEF Inv
<1>6. AddressInv' BY <1>2, <1>5, AddressStep DEF Inv
<1>7. TwiceInv' BY <1>1, TwiceStep DEF Inv
<1>8. OnceInv' BY <1>1, <1>5, OnceStep DEF Inv
<1>9. PresentInv' BY <1>1, <1>5, PresentStep DEF Inv
<1>10. OrderInv' BY <1>1, <1>2, <1>5, OrderStep DEF Inv
<1>11. SubInv' BY <1>1, <1>2, <1>5, SubStep DEF Inv
<1>12. OriginInv' BY <1>1, <1>2, <1>5, <1>10, OriginStep DEF Inv
<1>13. ListInv' BY <1>1, <1>2, <1>5, <1>10, ListStep DEF Inv
<1>14. FrameInv' BY <1>5, FrameStep DEF Inv
<1>15. RefusedOnlyIfEnded' BY <1>1, RefusedStep DEF Inv
<1> QED BY <1>2, <1>3, <1>4, <1>6, <1>7, <1>8, <1>9, <1>10, <1>11, <1>12, <1>13, <1>14, <1>15 DEF Inv

\* So it holds always.
LEMMA InvHolds == Spec => []Inv
  BY InvInit, InvStep, PTL DEF Spec

-----------------------------------------------------------------------------
\* What the invariant says.

\* Types: every map, queue, thread and message is of its type.
THEOREM MessageTypes == Spec => []TypeOK
<1>1. Inv => TypeOK
  <2> SUFFICES ASSUME Inv PROVE TypeOK OBVIOUS
  <2>1. Typed /\ AddressInv /\ FrameInv /\ OnceInv BY DEF Inv
  <2>2. air \subseteq Frames /\ again \subseteq Frames
        /\ \A d \in Devices, l \in Links : Range(queue[d][l]) \cup Range(wire[d][l]) \subseteq Frames
    BY <2>1 DEF AddressInv, OnceInv, Queued, Written
  <2>3. \A t \in Threads :
          /\ job[t].pc \in {"idle", "send", "queue", "garbled", "done"}
          /\ job[t].dev \in Devices \cup {None} /\ job[t].todo \subseteq Devices
          /\ job[t].via \in Links \cup {"WS", "UDP", "TCP", None} /\ job[t].frame \in Frames \cup {0}
    <3> SUFFICES ASSUME NEW t \in Threads
                 PROVE  /\ job[t].pc \in {"idle", "send", "queue", "garbled", "done"}
                        /\ job[t].dev \in Devices \cup {None} /\ job[t].todo \subseteq Devices
                        /\ job[t].via \in Links \cup {"WS", "UDP", "TCP", None}
                        /\ job[t].frame \in Frames \cup {0}
      OBVIOUS
    <3>1. job[t] \in JobRecs BY <2>1 DEF Typed, SentTypes
    <3>2. job[t].frame \in Frames \cup {0} BY <2>1 DEF FrameInv
    <3> QED BY <3>1, <3>2 DEF JobRecs
  <2>4. \A n \in Frames :
          /\ sent[n].via \in (IF Ok(n) THEN Links \cup {"UDP", "TCP"} ELSE {None})
          /\ sent[n].text.type \in Types /\ (Ok(n) => sent[n].key \in Keys)
    <3> SUFFICES ASSUME NEW n \in Frames
                 PROVE  /\ sent[n].via \in (IF Ok(n) THEN Links \cup {"UDP", "TCP"} ELSE {None})
                        /\ sent[n].text.type \in Types /\ (Ok(n) => sent[n].key \in Keys)
      OBVIOUS
    <3>1. sent[n] \in SentRecs /\ SentOK(n) BY <2>1 DEF Typed, SentTypes, Frames
    <3>2. sent[n].text \in Texts BY <3>1 DEF SentRecs
    <3>3. sent[n].text.type \in Types BY <3>2 DEF Texts
    <3> QED BY <3>1, <3>3 DEF SentOK
  <2>5. \A d \in Devices : \A i \in DOMAIN got[d] : got[d][i].as \in {"chat", "control", "locked"}
    <3> SUFFICES ASSUME NEW d \in Devices, NEW i \in DOMAIN got[d]
                 PROVE  got[d][i].as \in {"chat", "control", "locked"}
      OBVIOUS
    <3>1. got[d] \in Seq(GotRecs) BY <2>1 DEF Typed, HandledTypes
    <3>2. got[d][i] \in GotRecs BY <3>1
    <3> QED BY <3>2 DEF GotRecs
  <2>6. /\ slot \in [Devices -> [Devices -> Links \cup {None}]]
        /\ stage \in [Devices -> [Links -> {"new", "up", "closing", "left", "gone"}]]
        /\ changes \in 0 .. used.changes /\ repeats \in 0 .. used.repeats
        /\ key \in [Devices -> Keys \cup {None}] /\ directed \in [Devices -> {"UDP", "TCP"}]
        /\ installed \in [Devices -> SUBSET Packages]
        /\ subs \in [Devices -> [Devices -> {None} \cup SUBSET Packages]]
    BY <2>1 DEF Typed, LinkTypes, SettingTypes, HandledTypes
  <2> QED BY <2>2, <2>3, <2>4, <2>5, <2>6 DEF TypeOK
<1> QED BY <1>1, InvHolds, PTL

\* A send is refused for want of a link only if a link of the device ended
\* after the transport was chosen.
THEOREM RefusalsExplained == Spec => []RefusedOnlyIfEnded
<1>1. Inv => RefusedOnlyIfEnded BY DEF Inv
<1> QED BY <1>1, InvHolds, PTL

\* A device's list of what it has handled is a finite sequence.
LEMMA GotBound ==
  ASSUME Inv, NEW d \in Devices
  PROVE  Len(got[d]) \in Nat /\ DOMAIN got[d] = 1 .. Len(got[d])
<1>1. got[d] \in Seq(GotRecs) BY DEF Inv, Typed, HandledTypes
<1> QED BY <1>1

\* How often a frame has been handled: once if its device has it and the
\* network has not repeated it, at least once if it has, else not at all.
LEMMA TimesFacts ==
  ASSUME Inv, NEW n \in Frames
  PROVE  /\ n \in Handled(sent[n].to) => TimesHandled(n) \in Nat /\ TimesHandled(n) >= 1
         /\ n \in Handled(sent[n].to) /\ n \notin again => TimesHandled(n) = 1
         /\ n \notin Handled(sent[n].to) => TimesHandled(n) = 0
<1> DEFINE P == {x \in UNION {{d} \X DOMAIN got[d] : d \in Devices} : got[x[1]][x[2]].frame = n}
<1>1. AddressInv /\ TwiceInv /\ Typed BY DEF Inv
<1>2. PICK d \in Devices : d = sent[n].to
  <2>1. sent[n] \in SentRecs BY <1>1 DEF Typed, SentTypes, Frames
  <2> QED BY <2>1 DEF SentRecs
<1>3. ASSUME NEW x \in P
      PROVE  /\ x = <<d, x[2]>> /\ n \in Handled(d)
             /\ x[2] \in DOMAIN got[d] /\ got[d][x[2]].frame = n
  <2>1. PICK c \in Devices : x \in {c} \X DOMAIN got[c] OBVIOUS
  <2>2. x = <<c, x[2]>> /\ x[1] = c /\ x[2] \in DOMAIN got[c] /\ got[c][x[2]].frame = n BY <2>1
  <2>3. n \in Handled(c) BY <2>2 DEF Handled
  <2>4. c = d BY <1>1, <1>2, <2>3 DEF AddressInv
  <2> QED BY <2>2, <2>3, <2>4
<1>4. ASSUME n \notin Handled(d) PROVE TimesHandled(n) = 0
  <2>1. P = {} BY <1>3, <1>4
  <2> QED BY <2>1, FS_EmptySet DEF TimesHandled
<1>5. ASSUME n \in Handled(d) PROVE \E i \in DOMAIN got[d] : got[d][i].frame = n /\ <<d, i>> \in P
  <2>1. PICK i \in DOMAIN got[d] : got[d][i].frame = n BY <1>5 DEF Handled
  <2>2. <<d, i>> \in {d} \X DOMAIN got[d] /\ <<d, i>>[1] = d /\ <<d, i>>[2] = i OBVIOUS
  <2>3. <<d, i>> \in P BY <2>1, <2>2
  <2> QED BY <2>1, <2>3
<1>6. ASSUME n \in Handled(d) PROVE TimesHandled(n) \in Nat /\ TimesHandled(n) >= 1
  <2>1. Len(got[d]) \in Nat /\ DOMAIN got[d] = 1 .. Len(got[d]) BY GotBound
  <2>2. IsFiniteSet(DOMAIN got[d])
    <3>1. 1 \in Int /\ Len(got[d]) \in Int BY <2>1
    <3> QED BY <2>1, <3>1, FS_Interval
  <2>3. IsFiniteSet({d} \X DOMAIN got[d]) BY <2>2, FS_Singleton, FS_Product
  <2>4. P \in SUBSET ({d} \X DOMAIN got[d]) BY <1>3
  <2>5. IsFiniteSet(P) BY <2>3, <2>4, FS_Subset
  <2>6. P # {} BY <1>5, <1>6
  <2> HIDE DEF P
  <2>7. Cardinality(P) \in Nat /\ Cardinality(P) # 0 BY <2>5, <2>6, FS_EmptySet, FS_CardinalityType
  <2>8. TimesHandled(n) = Cardinality(P) BY DEF TimesHandled, P
  <2> QED BY <2>7, <2>8
<1>7. ASSUME n \in Handled(d), n \notin again PROVE TimesHandled(n) = 1
  <2>1. PICK i \in DOMAIN got[d] : got[d][i].frame = n /\ <<d, i>> \in P BY <1>5, <1>7
  <2>2. ASSUME NEW x \in P PROVE x = <<d, i>>
    <3>1. x = <<d, x[2]>> /\ x[2] \in DOMAIN got[d] /\ got[d][x[2]].frame = n BY <1>3
    <3>2. x[2] = i BY <1>1, <1>7, <2>1, <3>1 DEF TwiceInv
    <3> QED BY <3>1, <3>2
  <2>3. P = {<<d, i>>} BY <2>1, <2>2
  <2> QED BY <2>3, FS_Singleton DEF TimesHandled
<1> QED BY <1>2, <1>4, <1>6, <1>7

\* A message is handled more than once only if the network repeated a datagram
\* of it, one whose send failed never, and none is lost but with its link or to
\* a data channel that refused it.
THEOREM EveryMessageAccounted == Spec => []Accounted
<1>1. Inv => Accounted
  <2> SUFFICES ASSUME Inv, NEW n \in Frames
               PROVE  IF ~Ok(n) THEN TimesHandled(n) = 0
                      ELSE \/ TimesHandled(n) = 1
                           \/ /\ TimesHandled(n) > 1 /\ n \in again
                              /\ sent[n].via = "UDP" \/ Kind[sent[n].via] = "punch"
                           \/ /\ TimesHandled(n) = 0
                              /\ UnderWay(n) \/ LinkEnded(n) \/ Kind[sent[n].via] = "webrtc"
    BY DEF Accounted
  <2>1. Typed /\ AddressInv /\ PresentInv /\ OnceInv BY DEF Inv
  <2>2. PICK e \in Devices : e = sent[n].to
    <3>1. sent[n] \in SentRecs BY <2>1 DEF Typed, SentTypes, Frames
    <3> QED BY <3>1 DEF SentRecs
  <2>3. CASE n \in Handled(e)
    <3>1. Ok(n) BY <2>1, <2>3 DEF AddressInv
    <3>2. TimesHandled(n) \in Nat /\ TimesHandled(n) >= 1 /\ (n \notin again => TimesHandled(n) = 1)
      BY <2>2, <2>3, TimesFacts
    <3>3. n \in again => sent[n].via = "UDP" \/ Kind[sent[n].via] = "punch"
      BY <2>1 DEF OnceInv, Repeatable
    <3> QED BY <3>1, <3>2, <3>3
  <2>4. CASE n \notin Handled(e)
    <3>1. TimesHandled(n) = 0 BY <2>2, <2>4, TimesFacts
    <3>2. ASSUME Ok(n) PROVE UnderWay(n) \/ LinkEnded(n) \/ Kind[sent[n].via] = "webrtc"
      <4>1. PICK d : d = sent[n].from OBVIOUS
      <4>2. d \in Devices
        <5>1. sent[n] \in SentRecs BY <2>1 DEF Typed, SentTypes, Frames
        <5> QED BY <4>1, <5>1 DEF SentRecs
      <4>3. \/ n \in air
            \/ /\ sent[n].via \in Links
               /\ \/ n \in Queued(d, sent[n].via) \cup Written(d, sent[n].via)
                  \/ LinkEnded(n) \/ Kind[sent[n].via] = "webrtc"
            \/ \E r \in Receivers : Garbled(r, n)
        BY <2>1, <2>2, <2>4, <3>2, <4>1 DEF PresentInv
      <4> QED BY <4>2, <4>3 DEF UnderWay, Queued, Written, Garbled
    <3> QED BY <3>1, <3>2
  <2> QED BY <2>3, <2>4
<1> QED BY <1>1, InvHolds, PTL

\* Over a WebSocket messages are handled in the order in which they were sent,
\* and without gaps.
THEOREM SocketsKeepOrder == Spec => []InOrder
<1>1. Inv => InOrder
  <2> SUFFICES ASSUME Inv, NEW x \in Ends, Kind[x[2]] = "ws", NEW i \in DOMAIN got[x[1]],
                      NEW n \in Frames, NEW k, k = got[x[1]][i].frame,
                      sent[n].via = x[2] /\ sent[n].to = x[1],
                      sent[k].via = x[2] /\ sent[k].to = x[1]
               PROVE  n < k <=> \E j \in 1 .. i - 1 : got[x[1]][j].frame = n
    BY DEF InOrder
  <2>0. Typed /\ AddressInv /\ OrderInv BY DEF Inv
  <2>1. PICK d \in Devices, l \in Links, e \in Devices : d = x[1] /\ l = x[2] /\ e = Other(l, d)
    BY PairFacts
  <2>2. <<e, l>> \in Ends /\ Other(l, e) = d BY <2>1, PairFacts
  <2>3. Ordered(e, l)
    <3>1. <<e, l>>[1] = e /\ <<e, l>>[2] = l OBVIOUS
    <3>2. PICK y \in Ends : y[1] = e /\ y[2] = l BY <2>2, <3>1
    <3> QED BY <2>0, <2>1, <3>2 DEF OrderInv
  <2>4. k \in Frames BY <2>0, <2>1 DEF AddressInv, Handled
  <2>5. \A m \in Frames : sent[m].via = l /\ sent[m].to = d => Over(m, e, l)
    <3> SUFFICES ASSUME NEW m \in Frames, sent[m].via = l, sent[m].to = d PROVE Over(m, e, l)
      OBVIOUS
    <3>1. PICK a : a = sent[m].from OBVIOUS
    <3>2. <<a, l>> \in Ends /\ d = Other(l, a) BY <2>0, <3>1 DEF AddressInv
    <3>3. \A y \in Ends : Other(y[2], Other(y[2], y[1])) = y[1] BY PairFacts
    <3>4. Other(l, Other(l, a)) = a BY <3>2, <3>3
    <3> QED BY <2>1, <3>1, <3>2, <3>4 DEF Over
  <2>6. Over(n, e, l) /\ Over(k, e, l) BY <2>1, <2>4, <2>5
  <2>7. n \in Nat /\ k \in Nat BY <2>0, <2>4 DEF Typed, SentTypes, Frames
  <2>8. DOMAIN got[d] = 1 .. Len(got[d]) /\ Len(got[d]) \in Nat BY GotBound
  <2>9. \A a, b \in DOMAIN got[d] :
           Over(got[d][a].frame, e, l) /\ Over(got[d][b].frame, e, l) /\ a < b =>
              got[d][a].frame < got[d][b].frame
    BY <2>2, <2>3 DEF Ordered, CameInOrder
  <2>10. ASSUME NEW j \in 1 .. i - 1, got[d][j].frame = n PROVE n < k
    <3>1. j \in DOMAIN got[d] /\ i \in DOMAIN got[d] /\ j < i BY <2>1, <2>8
    <3> QED BY <2>1, <2>6, <2>9, <2>10, <3>1
  <2>11. ASSUME n < k PROVE \E j \in 1 .. i - 1 : got[d][j].frame = n
    <3>1. k \in Came(e, l) BY <2>1, <2>2, <2>6 DEF Came, Handled
    <3>2. n \in SentOver(e, l) BY <2>6 DEF SentOver
    <3> DEFINE R == Opening(e, l) \cup Written(e, l) \cup Queued(e, l)
    <3>3. Chain(Came(e, l), Opening(e, l), Written(e, l), Queued(e, l), SentOver(e, l), stage[e][l])
      BY <2>3 DEF Ordered
    <3>4. n \in Came(e, l) \cup R /\ Below(Came(e, l), R) BY <2>11, <3>1, <3>2, <3>3 DEF Chain
    <3>5. n \notin R BY <2>7, <2>11, <3>1, <3>4 DEF Below
    <3>6. n \in Handled(d) BY <2>2, <3>4, <3>5 DEF Came
    <3>7. PICK j \in DOMAIN got[d] : got[d][j].frame = n BY <3>6 DEF Handled
    <3>8. ~(i < j) BY <2>1, <2>6, <2>7, <2>9, <2>11, <3>7
    <3>9. i # j BY <2>1, <2>7, <2>11, <3>7
    <3>10. j \in 1 .. i - 1 BY <2>1, <2>8, <3>8, <3>9
    <3> QED BY <3>7, <3>10
  <2> QED BY <2>1, <2>10, <2>11
<1> QED BY <1>1, InvHolds, PTL

\* A device hears of an app only after the producer has handled a subscription
\* of its to that app.
THEOREM OnlySubscribersHear == Spec => []NotifiedSubscribed
<1>1. Inv => NotifiedSubscribed
  <2> SUFFICES ASSUME Inv, NEW n \in Frames, OfApp(sent[n].text)
               PROVE  \E m \in 1 .. n - 1 :
                         /\ sent[m].from = sent[n].to /\ sent[m].to = sent[n].from
                         /\ sent[m].text.type = "subscribe_apps"
                         /\ sent[n].text.body \in sent[m].text.body
                         /\ TimesHandled(m) >= 1
    BY DEF NotifiedSubscribed, OfApp
  <2>1. Typed /\ SubInv BY DEF Inv
  <2>2. PICK m \in Frames :
          m < n /\ Wants(m, sent[n].from, sent[n].to) /\ sent[n].text.body \in sent[m].text.body
    BY <2>1 DEF SubInv
  <2>3. Len(sent) \in Nat /\ Frames = 1 .. Len(sent) BY <2>1 DEF Typed, SentTypes, Frames
  <2>4. m \in 1 .. n - 1 BY <2>2, <2>3
  <2>5. /\ sent[m].from = sent[n].to /\ sent[m].to = sent[n].from
        /\ sent[m].text.type = "subscribe_apps" /\ m \in Handled(sent[n].from)
    BY <2>2 DEF Wants, Subscribes
  <2>6. TimesHandled(m) >= 1 BY <2>5, TimesFacts
  <2> QED BY <2>2, <2>4, <2>5, <2>6
<1> QED BY <1>1, InvHolds, PTL

\* A consumer that subscribes and then asks over the same WebSocket is shown
\* its subscription, or a later one.
THEOREM SubscribersReadBack == Spec => []ReadsItsSubscription
<1>1. Inv => ReadsItsSubscription
  <2> SUFFICES ASSUME Inv, NEW n \in Frames, sent[n].text.type = "apps_list",
                      NEW ask, ask = sent[n].text.body.ask, NEW E,
                      E = {m \in 1 .. ask - 1 :
                             /\ Ok(m) /\ sent[m].text.type = "subscribe_apps"
                             /\ sent[m].from = sent[ask].from /\ sent[m].to = sent[ask].to},
                      \A m \in E : SameSocket(m, ask), NEW m \in E, HandledAs(m, "control")
               PROVE  sent[n].text.body.origin >= m
    BY DEF ReadsItsSubscription
  <2>1. Typed /\ AddressInv /\ ListInv BY DEF Inv
  <2>2. PICK text : text = sent[n].text OBVIOUS
  <2>3. ListOK(text) /\ ask = text.body.ask BY <2>1, <2>2 DEF ListInv
  <2>4. ask \in Frames BY <2>3 DEF ListOK
  <2>5. Len(sent) \in Nat /\ Frames = 1 .. Len(sent) BY <2>1 DEF Typed, SentTypes, Frames
  <2>6. Earlier(ask) = E
    <3>1. \A k : k \in Frames /\ k < ask <=> k \in 1 .. ask - 1 BY <2>4, <2>5
    <3> QED BY <3>1 DEF Earlier, Subscribes
  <2>7. PICK d \in Devices : [frame |-> m, as |-> "control"] \in Range(got[d]) BY DEF HandledAs
  <2>8. got[d] \in Seq(GotRecs) BY <2>1 DEF Typed, HandledTypes
  <2>9. PICK i \in 1 .. Len(got[d]) : got[d][i] = [frame |-> m, as |-> "control"]
    BY <2>7, <2>8, RangeFacts
  <2>10. i \in DOMAIN got[d] /\ got[d][i].frame = m /\ got[d][i].as = "control" BY <2>8, <2>9
  <2>11. Controlled(m, d) /\ m \in Handled(d) BY <2>10 DEF Controlled, Handled
  <2>12. sent[m].to = d BY <2>1, <2>11 DEF AddressInv
  <2>13. Controlled(m, sent[ask].to) BY <2>11, <2>12
  <2> QED BY <2>2, <2>3, <2>6, <2>13 DEF ListOK
<1> QED BY <1>1, InvHolds, PTL

-----------------------------------------------------------------------------
\* Refinement: the slots of all devices live as LinkSlots promises.

Holder == [x \in Devices \X Devices |->
              IF slot[x[1]][x[2]] = None THEN None ELSE <<x[1], slot[x[1]][x[2]]>>]
Seen(s) == IF s = "left" THEN "gone" ELSE s
Stages == [x \in Ends |-> Seen(stage[x[1]][x[2]])]

\* One driver moves on, and the others stay where they are.
LEMMA OneStageMoves ==
  ASSUME NEW d \in Devices, NEW l \in Links, <<d, l>> \in Ends, NEW s, stage'[d][l] = s,
         \A x \in Devices, y \in Links : x # d \/ y # l => stage'[x][y] = stage[x][y]
  PROVE  Stages' = [Stages EXCEPT ![<<d, l>>] = Seen(s)]
<1>1. \A x \in Ends : /\ x[1] \in Devices /\ x[2] \in Links /\ x = <<x[1], x[2]>>
  BY DEF Ends
<1>2. ASSUME NEW x \in Ends PROVE stage'[x[1]][x[2]] = IF x = <<d, l>> THEN s ELSE stage[x[1]][x[2]]
  <2>1. CASE x = <<d, l>> BY <2>1
  <2>2. CASE x # <<d, l>>
    <3>1. x[1] # d \/ x[2] # l BY <1>1, <2>2
    <3> QED BY <1>1, <2>2, <3>1
  <2> QED BY <2>1, <2>2
<1> QED BY <1>2 DEF Stages

\* A step of a link end is a step of LinkSlots, or changes nothing of it.
LEMMA SlotMove ==
  ASSUME Typed, SlotInv, NEW d \in Devices, NEW l \in Links, StageEffect(d, l)
  PROVE  [Slots!Next]_(Slots!vars)
<1>0. /\ slot \in [Devices -> [Devices -> Links \cup {None}]]
      /\ stage \in [Devices -> [Links -> {"new", "up", "closing", "left", "gone"}]]
      /\ None \notin Links
  BY SendAssumption DEF Typed, LinkTypes
<1>1. /\ \A x \in Devices, y \in Links : x # d \/ y # l => stage'[x][y] = stage[x][y]
      /\ \A x, e \in Devices : x # d => slot'[x][e] = slot[x][e]
  BY DEF StageEffect
<1>2. <<d, l>> \in Ends
  <2>1. <<d, l>> \in Ends \/ stage[d][l] \in {"up", "closing", "left"} BY DEF StageEffect
  <2> QED BY <2>1 DEF SlotInv
<1>3. Stages[<<d, l>>] = Seen(stage[d][l]) BY <1>2 DEF Stages
<1>4. CASE /\ stage[d][l] = "new" /\ stage'[d][l] = "up"
           /\ slot[d][Other(l, d)] = None \/ Kind[l] = "webrtc"
           /\ \A e \in Devices : slot'[d][e] = IF e = Other(l, d) THEN l ELSE slot[d][e]
  <2>0. Other(l, d) \in Devices BY <1>2, PairFacts
  <2> DEFINE p == <<d, Other(l, d)>>
  <2>1. p \in Devices \X Devices /\ p = <<d, Other(l, d)>> /\ p[1] = d /\ p[2] = Other(l, d)
    BY <2>0
  <2> HIDE DEF p
  <2>2. Stages' = [Stages EXCEPT ![<<d, l>>] = "up"] BY <1>1, <1>2, <1>4, OneStageMoves DEF Seen
  <2>3. Holder' = [Holder EXCEPT ![p] = <<d, l>>]
    <3>1. ASSUME NEW x \in Devices \X Devices
          PROVE  (IF slot'[x[1]][x[2]] = None THEN None ELSE <<x[1], slot'[x[1]][x[2]]>>)
                 = IF x = p THEN <<d, l>> ELSE Holder[x]
      <4>1. x = <<x[1], x[2]>> /\ x[1] \in Devices /\ x[2] \in Devices OBVIOUS
      <4>2. CASE x = p
        <5>1. slot'[x[1]][x[2]] = l BY <1>4, <2>1, <4>1, <4>2
        <5> QED BY <1>0, <2>1, <4>2, <5>1
      <4>3. CASE x # p
        <5>1. slot'[x[1]][x[2]] = slot[x[1]][x[2]]
          <6>1. x[1] # d \/ x[2] # Other(l, d) BY <2>1, <4>1, <4>3
          <6> QED BY <1>1, <1>4, <4>1, <6>1
        <5> QED BY <4>3, <5>1 DEF Holder
      <4> QED BY <4>2, <4>3
    <3> QED BY <3>1 DEF Holder
  <2>4. Holder[p] = None \/ <<d, l>> \in {x \in Ends : Kind[x[2]] = "webrtc"}
    <3>1. CASE slot[d][Other(l, d)] = None BY <2>1, <3>1 DEF Holder
    <3>2. CASE Kind[l] = "webrtc" BY <1>2, <3>2
    <3> QED BY <1>4, <3>1, <3>2
  <2>5. Slots!Acquire(p, <<d, l>>)
    BY <1>3, <1>4, <2>1, <2>2, <2>3, <2>4 DEF Slots!Acquire, Holder, Stages, Seen
  <2> QED BY <1>2, <2>1, <2>5 DEF Slots!Next
<1>5. CASE stage[d][l] = "new" /\ stage'[d][l] = "gone" /\ slot' = slot
  <2>1. Stages' = [Stages EXCEPT ![<<d, l>>] = "gone"] BY <1>1, <1>2, <1>5, OneStageMoves DEF Seen
  <2>2. Slots!GiveUp(<<d, l>>) BY <1>3, <1>5, <2>1 DEF Slots!GiveUp, Stages, Seen
  <2> QED BY <1>2, <2>2 DEF Slots!Next
<1>6. CASE stage[d][l] = "up" /\ stage'[d][l] = "up" /\ slot' = slot
  <2>1. Stages' = [Stages EXCEPT ![<<d, l>>] = "up"] BY <1>1, <1>2, <1>6, OneStageMoves DEF Seen
  <2>2. Stages' = Stages BY <1>2, <1>3, <1>6, <2>1 DEF Stages, Seen
  <2> QED BY <1>6, <2>2 DEF Slots!vars, Stages, Seen
<1>7. CASE stage[d][l] = "up" /\ stage'[d][l] = "closing" /\ slot' = slot
  <2>1. Stages' = [Stages EXCEPT ![<<d, l>>] = "closing"] BY <1>1, <1>2, <1>7, OneStageMoves DEF Seen
  <2>2. Slots!Close(<<d, l>>) BY <1>3, <1>7, <2>1 DEF Slots!Close, Stages, Seen
  <2> QED BY <1>2, <2>2 DEF Slots!Next
<1>8. CASE /\ stage[d][l] = "closing" /\ stage'[d][l] = "left"
           /\ \A e \in Devices : slot'[d][e] = IF slot[d][e] = l THEN None ELSE slot[d][e]
  <2>1. Stages' = [Stages EXCEPT ![<<d, l>>] = "gone"] BY <1>1, <1>2, <1>8, OneStageMoves DEF Seen
  <2>2. Holder' = [x \in Devices \X Devices |-> IF Holder[x] = <<d, l>> THEN None ELSE Holder[x]]
    <3>1. ASSUME NEW x \in Devices \X Devices
          PROVE  (IF slot'[x[1]][x[2]] = None THEN None ELSE <<x[1], slot'[x[1]][x[2]]>>)
                 = IF Holder[x] = <<d, l>> THEN None ELSE Holder[x]
      <4>1. PICK a \in Devices, b \in Devices : x = <<a, b>> /\ a = x[1] /\ b = x[2] OBVIOUS
      <4>2. Holder[x] = IF slot[a][b] = None THEN None ELSE <<a, slot[a][b]>> BY <4>1 DEF Holder
      <4>3. CASE a # d
        <5>1. slot'[a][b] = slot[a][b] BY <1>1, <4>3
        <5>2. CASE slot[a][b] = None BY <4>1, <4>2, <5>1, <5>2
        <5>3. CASE slot[a][b] # None
          <6>1. Holder[x] = <<a, slot[a][b]>> /\ Holder[x] # <<d, l>> BY <4>2, <4>3, <5>3
          <6> QED BY <4>1, <5>1, <5>3, <6>1
        <5> QED BY <5>2, <5>3
      <4>4. CASE a = d
        <5>1. slot'[a][b] = IF slot[a][b] = l THEN None ELSE slot[a][b] BY <1>8, <4>4
        <5>2. CASE slot[a][b] = None BY <4>1, <4>2, <5>1, <5>2
        <5>3. CASE slot[a][b] = l BY <1>0, <4>1, <4>2, <4>4, <5>1, <5>3
        <5>4. CASE slot[a][b] # None /\ slot[a][b] # l
          <6>1. Holder[x] = <<a, slot[a][b]>> /\ Holder[x] # <<d, l>> BY <4>2, <5>4
          <6> QED BY <4>1, <5>1, <5>4, <6>1
        <5> QED BY <5>2, <5>3, <5>4
      <4> QED BY <4>3, <4>4
    <3> QED BY <3>1 DEF Holder
  <2>3. Slots!Release(<<d, l>>) BY <1>3, <1>8, <2>1, <2>2 DEF Slots!Release, Holder, Stages, Seen
  <2> QED BY <1>2, <2>3 DEF Slots!Next
<1>9. CASE stage[d][l] = "left" /\ stage'[d][l] = "gone" /\ slot' = slot
  <2>1. Stages' = [Stages EXCEPT ![<<d, l>>] = "gone"] BY <1>1, <1>2, <1>9, OneStageMoves DEF Seen
  <2>2. Stages' = Stages BY <1>2, <1>3, <1>9, <2>1 DEF Stages, Seen
  <2> QED BY <1>9, <2>2 DEF Slots!vars, Stages, Seen
<1> QED BY <1>4, <1>5, <1>6, <1>7, <1>8, <1>9 DEF StageEffect

\* The send path lives on the slots that the drivers of LiveLinks implement.
THEOREM SlotsLiveAsPromised == Spec => SlotsKept
<1>1. Init => Slots!Init
  <2> SUFFICES ASSUME Init PROVE Slots!Init OBVIOUS
  <2>1. /\ slot = [d \in Devices |-> [e \in Devices |-> None]]
        /\ stage = [d \in Devices |-> [l \in Links |-> "new"]]
    BY DEF Init, SendInit
  <2>2. Holder = [x \in Devices \X Devices |-> None] BY <2>1 DEF Holder
  <2>3. Stages = [x \in Ends |-> "new"] BY <2>1 DEF Stages, Seen, Ends
  <2> QED BY <2>2, <2>3 DEF Slots!Init, Holder, Stages, Seen
<1>2. Inv /\ [Next]_vars => [Slots!Next]_(Slots!vars)
  <2> SUFFICES ASSUME Inv, [Next]_vars PROVE [Slots!Next]_(Slots!vars) OBVIOUS
  <2>1. Typed /\ SlotInv /\ StepKinds BY StepCases DEF Inv
  <2>2. CASE UNCHANGED <<slot, stage>> BY <2>2 DEF Slots!vars
  <2>3. ASSUME NEW d \in Devices, NEW l \in Links, LinkStep(d, l) PROVE [Slots!Next]_(Slots!vars)
    <3>1. StageEffect(d, l) BY <2>1, <2>3, StageFacts
    <3> QED BY <2>1, <3>1, SlotMove
  <2> QED BY <2>1, <2>2, <2>3, LinksKept
<1> QED BY <1>1, <1>2, InvHolds, PTL DEF Spec, SlotsKept, Slots!Spec
=============================================================================
