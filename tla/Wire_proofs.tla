---------------------------- MODULE Wire_proofs ----------------------------
(***************************************************************************)
(* What holds of every byte string the two parsers of the project are given. *)
(***************************************************************************)
EXTENDS FrameCodec, StunClient, FiniteSetTheorems, SequenceTheorems, TLAPS

-----------------------------------------------------------------------------
\* parse_mapped.

\* What the walk rests on: a byte string with a whole header.
Walkable == /\ msg \in Seq(Byte) /\ i \in Nat
            /\ pc = "walk" => Len(msg) >= 20

\* The receive buffer cuts a byte string to a byte string.
LEMMA Cut == ASSUME NEW m \in Seq(Byte)
             PROVE  SubSeq(m, 1, MinOf(Buffer, Len(m))) \in Seq(Byte)
  <1> DEFINE n == MinOf(Buffer, Len(m))
  <1>1. n \in Int /\ n <= Len(m) /\ Len(m) \in Nat
    BY BufferAssumption, LenProperties, SMT DEF MinOf
  <1> HIDE DEF n
  <1>2. \A k \in 1 .. n : m[k] \in Byte
    BY <1>1, ElementOfSeq, SMT
  <1>3. 1 \in Int
    OBVIOUS
  <1> QED BY <1>1, <1>2, <1>3, SubSeqProperties DEF n

\* from_be_bytes of two bytes inside the datagram is a number.
LEMMA Read16 == ASSUME msg \in Seq(Byte), NEW j \in Nat, j + 2 <= Len(msg)
                PROVE  U16(j) \in Nat
  <1>1. j + 1 \in 1 .. Len(msg) /\ j + 1 + 1 \in 1 .. Len(msg)
    BY LenProperties, SMT
  <1>2. msg[j + 1] \in Byte /\ msg[j + 1 + 1] \in Byte
    BY <1>1, ElementOfSeq
  <1>3. U8(j) \in 0 .. 255 /\ U8(j + 1) \in 0 .. 255
    BY <1>2, Zenon DEF U8, Byte
  <1>4. \A x, y \in 0 .. 255 : x * 256 + y \in Nat
    BY SMT
  <1> QED BY <1>3, <1>4 DEF U16

\* The end the walk uses is within what was received.
LEMMA EndWithin == ASSUME Walkable, pc = "walk"
                   PROVE  End \in Nat /\ End <= Len(msg) /\ Len(msg) \in Nat
  <1>1. U16(2) \in Nat
    BY Read16, SMT DEF Walkable
  <1> QED BY <1>1, LenProperties, SMT DEF Walkable, End, MinOf

\* Padding is at most three bytes.
LEMMA PadBounds == ASSUME NEW n \in Nat PROVE Pad(n) \in 0 .. 3
  BY SMT DEF Pad

\* One round: no panic, and an offset that moves on.
LEMMA Round == ASSUME Walkable, ParseMapped
               PROVE  /\ pc' # "panic" /\ i' \in Nat
                      /\ pc' = "walk" => i' >= i + 4 /\ i' <= Len(msg) + 3
  <1> DEFINE n == U16(i + 2)
  <1>1. pc = "walk" /\ i \in Nat
    BY DEF ParseMapped, Walkable
  <1>2. End \in Nat /\ End <= Len(msg) /\ Len(msg) \in Nat
    BY <1>1, EndWithin
  <1>3. CASE i + 4 > End
    BY <1>1, <1>3 DEF ParseMapped
  <1>4. CASE ~(i + 4 > End)
    <2>1. i + 4 <= Len(msg)
      BY <1>1, <1>2, <1>4, SMT
    <2>2. n \in Nat
      BY <1>1, <2>1, Read16, SMT DEF Walkable
    <2>3. Pad(n) \in 0 .. 3
      BY <2>2, PadBounds
    <2>4. \/ pc' = "push" /\ i' = i
          \/ i' = Skip(i + 4, n) /\ ~(i + 4 + n > Len(msg))
      BY <1>1, <1>2, <1>4, <2>1, SMT DEF ParseMapped
    <2>5. pc' # "panic"
      BY <1>1, <1>2, <1>4, <2>1, SMT DEF ParseMapped
    <2> QED BY <1>1, <1>2, <2>2, <2>3, <2>4, <2>5, SMT DEF Skip
  <1> QED BY <1>3, <1>4

\* It holds before anything was received.
LEMMA WalkableInit == Init => Walkable
  BY EmptySeq DEF Init, Walkable

\* Every step of gather_candidates keeps it, and none panics.
LEMMA WalkableNext == Walkable /\ [Next]_vars => Walkable' /\ (pc # "panic" => pc' # "panic")
  <1> SUFFICES ASSUME Walkable, [Next]_vars PROVE Walkable' /\ (pc # "panic" => pc' # "panic")
    OBVIOUS
  <1>1. CASE GatherCandidates
    BY <1>1 DEF GatherCandidates, Walkable
  <1>2. CASE StunBinding
    BY <1>2 DEF StunBinding, Walkable
  <1>3. CASE RecvFrom
    <2>1. i' \in Nat /\ pc' \in {"push", "walk"} /\ (pc' = "walk" => Len(msg') >= 20)
      BY <1>3 DEF RecvFrom, Walkable
    <2>2. msg' \in Seq(Byte)
      <3>1. CASE UNCHANGED <<answer, msg>>
        BY <3>1 DEF Walkable
      <3>2. CASE FirstDatagram
        <4>1. \/ \E attrs \in Answers : msg' = SubSeq(Answer(attrs), 1, MinOf(Buffer, Len(Answer(attrs))))
              \/ \E m \in Strays : msg' = SubSeq(m, 1, MinOf(Buffer, Len(m)))
          BY <3>2, Zenon DEF FirstDatagram
        <4>2. ASSUME NEW attrs \in Answers,
                     msg' = SubSeq(Answer(attrs), 1, MinOf(Buffer, Len(Answer(attrs))))
              PROVE  msg' \in Seq(Byte)
          <5>1. Answer(attrs) \in Seq(Byte) BY AnswerAssumption, Zenon
          <5> QED BY <4>2, <5>1, Cut, Zenon
        <4>3. ASSUME NEW m \in Strays, msg' = SubSeq(m, 1, MinOf(Buffer, Len(m)))
              PROVE  msg' \in Seq(Byte)
          <5>1. m \in Seq(Byte) BY StrayAssumption
          <5> QED BY <4>3, <5>1, Cut, Zenon
        <4> QED BY <4>1, <4>2, <4>3, Zenon
      <3> QED BY <1>3, <3>1, <3>2 DEF RecvFrom
    <2> QED BY <2>1, <2>2 DEF Walkable
  <1>4. CASE ParseMapped
    BY <1>4, Round DEF ParseMapped, Walkable
  <1>5. CASE Push
    BY <1>5 DEF Push, Walkable
  <1>6. CASE UNCHANGED vars
    BY <1>6 DEF vars, Walkable
  <1> QED BY <1>1, <1>2, <1>3, <1>4, <1>5, <1>6 DEF Next

\* pc, the datagram and the offset keep their types, for any server answers,
\* strays and buffer.
THEOREM StunTypes == Spec => []TypeOK
  <1>1. Init => Walkable /\ TypeOK
    <2> SUFFICES ASSUME Init PROVE Walkable /\ TypeOK
      OBVIOUS
    <2>1. Walkable
      BY WalkableInit
    <2>2. pc = "bind" /\ answer = None
      BY DEF Init
    <2>3. host \in BOOLEAN
      BY DEF Init
    <2> QED BY <2>1, <2>2, <2>3 DEF Walkable, TypeOK
  <1>2. (Walkable /\ TypeOK) /\ [Next]_vars => (Walkable /\ TypeOK)'
    <2> SUFFICES ASSUME Walkable, TypeOK, [Next]_vars PROVE Walkable' /\ TypeOK'
      OBVIOUS
    <2>1. Walkable'
      BY WalkableNext
    <2>2. UNCHANGED host
      BY DEF Next, vars, GatherCandidates, StunBinding, RecvFrom, ParseMapped, Push
    <2>3. host' \in BOOLEAN
      BY <2>2 DEF TypeOK
    <2>4. pc' \in {"bind", "ask", "wait", "walk", "push", "done", "panic"}
      BY DEF Next, vars, GatherCandidates, StunBinding, RecvFrom, ParseMapped, Push, TypeOK
    <2>5. answer' \in Answers \cup {None}
      <3>1. UNCHANGED answer \/ FirstDatagram
        BY DEF Next, vars, GatherCandidates, StunBinding, RecvFrom, ParseMapped, Push
      <3>2. CASE UNCHANGED answer
        BY <3>2 DEF TypeOK
      <3>3. CASE FirstDatagram
        BY <3>3, Zenon DEF FirstDatagram
      <3> QED BY <3>1, <3>2, <3>3
    <2> QED BY <2>1, <2>3, <2>4, <2>5 DEF Walkable, TypeOK
  <1>3. Walkable /\ TypeOK => TypeOK
    OBVIOUS
  <1> QED BY <1>1, <1>2, <1>3, PTL DEF Spec

\* Whatever bytes arrive, of whatever stated lengths, and whatever the size of
\* the buffer, parse_mapped never indexes past what was received.
THEOREM StunNeverPanics == Spec => []NoPanic
  <1>1. Init => Walkable /\ NoPanic
    BY WalkableInit DEF Init, NoPanic
  <1>2. (Walkable /\ NoPanic) /\ [Next]_vars => (Walkable /\ NoPanic)'
    BY WalkableNext DEF NoPanic
  <1> QED BY <1>1, <1>2, PTL DEF Spec

\* And every round moves on by a header at least: its loop ends after at most
\* a quarter as many rounds as there are bytes.
THEOREM WalkAdvances == Spec => Advances
  <1>1. Walkable /\ [Next]_vars => [pc = "walk" /\ pc' = "walk" => i' >= i + 4 /\ i' <= Len(msg) + 3]_vars
    <2> SUFFICES ASSUME Walkable, Next, pc = "walk", pc' = "walk"
                 PROVE  i' >= i + 4 /\ i' <= Len(msg) + 3
      BY DEF vars
    <2>1. ParseMapped
      BY DEF Next, GatherCandidates, StunBinding, RecvFrom, Push
    <2> QED BY <2>1, Round
  <1>2. Spec => []Walkable
    BY WalkableInit, WalkableNext, PTL DEF Spec
  <1> QED BY <1>1, <1>2, PTL DEF Spec, Advances

-----------------------------------------------------------------------------
(***************************************************************************)
(* FindsFirstMapping: where the attributes of an answer are, and that the  *)
(* walk is always at one of them.                                          *)
(***************************************************************************)

\* XOR with the bytes of the magic cookie undoes itself.
LEMMA XorTwice == ASSUME NEW x \in Byte, NEW c \in {33, 18, 164, 66}
                  PROVE  XorByte(XorByte(x, c), c) = x
  <1>1. x \in 0 .. 255
    BY DEF Byte
  <1>2. CASE c = 33
    BY <1>1, <1>2, SMTT(30) DEF XorByte
  <1>3. CASE c = 18
    BY <1>1, <1>3, SMTT(30) DEF XorByte
  <1>4. CASE c = 164
    BY <1>1, <1>4, SMTT(30) DEF XorByte
  <1>5. CASE c = 66
    BY <1>1, <1>5, SMTT(30) DEF XorByte
  <1> QED BY <1>2, <1>3, <1>4, <1>5

\* A set of numbers that is not empty has a least element: the finite sets
\* 0 .. x are well-founded under inclusion.
LEMMA Least == ASSUME NEW T \in SUBSET Nat, T # {}
               PROVE  \E x \in T : \A y \in T : x <= y
  <1> DEFINE F == {0 .. x : x \in T}
  <1>1. F \subseteq FiniteSubsetsOf(Nat) /\ F # {}
    <2>1. \A x \in T : IsFiniteSet(0 .. x) /\ 0 .. x \subseteq Nat
      BY FS_Interval
    <2> QED BY <2>1 DEF FiniteSubsetsOf
  <1>2. IsWellFoundedOn(StrictSubsetOrdering(Nat), FiniteSubsetsOf(Nat))
    BY FS_StrictSubsetOrderingWellFounded
  <1>3. PICK A \in F : \A B \in F : ~(<<B, A>> \in StrictSubsetOrdering(Nat))
    <2> HIDE DEF F
    <2> QED BY <1>1, <1>2, WFMin
  <1>4. PICK x \in T : A = 0 .. x
    OBVIOUS
  <1>5. ASSUME NEW y \in T, ~(x <= y) PROVE FALSE
    <2>1. x \in Nat /\ y \in Nat /\ y < x
      BY <1>5
    <2>2. 0 .. y \in SUBSET (0 .. x) /\ x \in 0 .. x /\ x \notin 0 .. y
      BY <2>1
    <2>3. 0 .. y # 0 .. x /\ 0 .. y \in F
      BY <2>2
    <2>4. 0 .. y \in SUBSET Nat /\ 0 .. x \in SUBSET Nat
      BY <2>1
    <2>5. <<0 .. y, 0 .. x>> \in StrictSubsetOrdering(Nat)
      BY <2>1, <2>2, <2>3, <2>4 DEF StrictSubsetOrdering
    <2> QED BY <1>3, <1>4, <2>3, <2>5
  <1> QED BY <1>5

\* Induction, for a property given as the set of numbers that have it.
LEMMA Induct == ASSUME NEW S, 0 \in S, \A n \in Nat : n \in S => n + 1 \in S
                PROVE  \A n \in Nat : n \in S
  <1> DEFINE T == Nat \ S
  <1> SUFFICES ASSUME T # {} PROVE FALSE
    OBVIOUS
  <1>1. T \in SUBSET Nat /\ 0 \notin T /\ \A n \in Nat : n + 1 \in T => n \in T
    OBVIOUS
  <1> HIDE DEF T
  <1>2. PICK x \in T : \A y \in T : x <= y
    BY <1>1, Least
  <1>3. x \in Nat /\ x # 0
    BY <1>1
  <1>4. PICK n \in Nat : x = n + 1
    <2>1. x - 1 \in Nat /\ x = (x - 1) + 1
      BY <1>3
    <2> QED BY <2>1
  <1>5. n \in T
    BY <1>1, <1>4
  <1> QED BY <1>2, <1>4, <1>5

\* The attributes so far, then one more: the function that Upto chooses exists.
LEMMA UptoExists == ASSUME NEW a, Len(a) \in Nat
    PROVE  \E u : u = [k \in 0 .. Len(a) |-> IF k = 0 THEN <<>> ELSE u[k - 1] \o Tlv(a[k])]
  <1> DEFINE Fits(u, m) == u = [k \in 0 .. m |-> IF k = 0 THEN <<>> ELSE u[k - 1] \o Tlv(a[k])]
             S == {m \in Nat : \E u : Fits(u, m)}
  <1>1. 0 \in S
    <2> DEFINE u == [k \in 0 .. 0 |-> <<>>]
    <2>1. Fits(u, 0)
      OBVIOUS
    <2> QED BY <2>1
  <1>2. ASSUME NEW m \in Nat, m \in S PROVE m + 1 \in S
    <2>1. PICK u : Fits(u, m)
      BY <1>2
    <2>2. PICK t : t = u[m] \o Tlv(a[m + 1])
      OBVIOUS
    <2> DEFINE w == [k \in 0 .. m + 1 |-> IF k = m + 1 THEN t ELSE u[k]]
    <2>3. \A k \in 0 .. m : u[k] = IF k = 0 THEN <<>> ELSE u[k - 1] \o Tlv(a[k])
      BY <2>1
    <2>4. /\ w[m + 1] = t /\ w = [k \in 0 .. m + 1 |-> w[k]]
          /\ \A k \in 0 .. m : w[k] = u[k]
      OBVIOUS
    <2> HIDE DEF w
    <2>5. ASSUME NEW k \in 0 .. m + 1 PROVE w[k] = IF k = 0 THEN <<>> ELSE w[k - 1] \o Tlv(a[k])
      <3>1. CASE k = m + 1
        <4>1. k - 1 = m /\ m \in 0 .. m /\ k # 0
          BY <3>1
        <4>2. w[k] = t /\ w[k - 1] = u[m]
          BY <2>4, <3>1, <4>1
        <4> QED BY <2>2, <3>1, <4>1, <4>2, Zenon
      <3>2. CASE k # m + 1 /\ k # 0
        <4>1. k \in 0 .. m /\ k - 1 \in 0 .. m
          BY <3>2
        <4>2. w[k] = u[k] /\ w[k - 1] = u[k - 1]
          BY <2>4, <4>1
        <4>3. u[k] = u[k - 1] \o Tlv(a[k])
          BY <2>3, <3>2, <4>1
        <4> QED BY <3>2, <4>2, <4>3
      <3>3. CASE k = 0
        <4>1. 0 \in 0 .. m
          OBVIOUS
        <4> QED BY <2>3, <2>4, <3>3, <4>1
      <3> QED BY <3>1, <3>2, <3>3
    <2>6. Fits(w, m + 1)
      BY <2>4, <2>5, Zenon
    <2> QED BY <2>6
  <1> HIDE DEF S
  <1>3. Len(a) \in S
    BY <1>1, <1>2, Induct
  <1> QED BY <1>3 DEF S

\* Upto satisfies its recursion.
LEMMA UptoDef == ASSUME NEW a, Len(a) \in Nat
    PROVE  /\ Upto(a)[0] = <<>>
           /\ \A k \in 1 .. Len(a) : Upto(a)[k] = Upto(a)[k - 1] \o Tlv(a[k])
           /\ \A k \in Nat : k + 1 \in 1 .. Len(a) => Upto(a)[k + 1] = Upto(a)[k] \o Tlv(a[k + 1])
  <1> DEFINE Fits(u) == u = [k \in 0 .. Len(a) |-> IF k = 0 THEN <<>> ELSE u[k - 1] \o Tlv(a[k])]
  <1>1. \E u : Fits(u)
    BY UptoExists
  <1>2. Fits(CHOOSE u : Fits(u))
    BY <1>1, Zenon
  <1>3. Upto(a) = CHOOSE u : Fits(u)
    BY Zenon DEF Upto
  <1> HIDE DEF Fits
  <1>4. Fits(Upto(a))
    BY <1>2, <1>3
  <1>5. PICK u : u = Upto(a) /\ Fits(u)
    BY <1>4
  <1>6. u[0] = <<>>
    BY <1>5 DEF Fits
  <1>7. ASSUME NEW k \in 1 .. Len(a) PROVE u[k] = u[k - 1] \o Tlv(a[k])
    <2>1. k \in 0 .. Len(a) /\ k # 0
      OBVIOUS
    <2>2. u[k] = IF k = 0 THEN <<>> ELSE u[k - 1] \o Tlv(a[k])
      BY <1>5, <2>1, Zenon DEF Fits
    <2> QED BY <2>1, <2>2
  <1>8. ASSUME NEW k \in Nat, k + 1 \in 1 .. Len(a) PROVE u[k + 1] = u[k] \o Tlv(a[k + 1])
    <2>1. PICK j \in 1 .. Len(a) : j = k + 1
      BY <1>8
    <2>2. j - 1 = k
      BY <2>1
    <2>3. u[j] = u[j - 1] \o Tlv(a[j])
      BY <1>7
    <2> QED BY <2>1, <2>2, <2>3, Zenon
  <1> QED BY <1>5, <1>6, <1>7, <1>8, Zenon

\* Two sequences put together, element by element.
LEMMA Joined == ASSUME NEW s \in Seq(Nat), NEW t \in Seq(Nat)
    PROVE  /\ s \o t \in Seq(Nat) /\ Len(s \o t) = Len(s) + Len(t)
           /\ Len(s) \in Nat /\ Len(t) \in Nat
           /\ \A j \in 1 .. Len(s) : (s \o t)[j] = s[j]
           /\ \A j \in 1 .. Len(t) : (s \o t)[Len(s) + j] = t[j]
  <1>1. Len(s) \in Nat /\ Len(t) \in Nat
    BY LenProperties
  <1>2. /\ s \o t \in Seq(Nat) /\ Len(s \o t) = Len(s) + Len(t)
        /\ \A j \in 1 .. Len(s) + Len(t) : (s \o t)[j] = IF j <= Len(s) THEN s[j] ELSE t[j - Len(s)]
    BY ConcatProperties, Zenon
  <1>3. PICK r : r = s \o t
    OBVIOUS
  <1>4. \A j \in 1 .. Len(s) + Len(t) : r[j] = IF j <= Len(s) THEN s[j] ELSE t[j - Len(s)]
    BY <1>2, <1>3
  <1>5. \A j \in 1 .. Len(s) : r[j] = s[j]
    BY <1>1, <1>4
  <1>6. ASSUME NEW j \in 1 .. Len(t) PROVE r[Len(s) + j] = t[j]
    <2>1. Len(s) + j \in 1 .. Len(s) + Len(t) /\ ~(Len(s) + j <= Len(s)) /\ Len(s) + j - Len(s) = j
      BY <1>1
    <2> QED BY <1>4, <2>1
  <1> QED BY <1>1, <1>2, <1>3, <1>5, <1>6

\* The fields of an attribute.
LEMMA AttributeFields == ASSUME NEW a \in Attributes
    PROVE  /\ a.type \in Word /\ a.value \in Seq(Byte) /\ Len(a.value) \in Nat
           /\ Pad(Len(a.value)) \in 0 .. 3 /\ a.addr \in Addresses \cup {None}
  <1>1. a.type \in Word /\ a.value \in Seq(Byte) /\ a.addr \in Addresses \cup {None}
    BY Zenon DEF Attributes
  <1>2. Len(a.value) \in Nat
    BY <1>1, LenProperties
  <1> QED BY <1>1, <1>2, PadBounds

\* A sequence of bytes is one of numbers.
LEMMA BytesAreNumbers == ASSUME NEW v \in Seq(Byte) PROVE v \in Seq(Nat)
  <1>1. \A k \in 1 .. Len(v) : v[k] \in Byte
    BY ElementOfSeq
  <1>2. Byte \subseteq Nat
    BY SMT DEF Byte
  <1>3. \A k \in 1 .. Len(v) : v[k] \in Nat
    BY <1>1, <1>2, Zenon
  <1> QED BY <1>3

\* A header of four and a value put together.
LEMMA Laid4 == ASSUME NEW h \in Seq(Nat), NEW v \in Seq(Nat), Len(h) = 4
    PROVE  /\ h \o v \in Seq(Nat) /\ Len(h \o v) = 4 + Len(v) /\ Len(v) \in Nat
           /\ \A j \in 1 .. 4 : (h \o v)[j] = h[j]
           /\ \A j \in 1 .. Len(v) : (h \o v)[4 + j] = v[j]
  <1>1. /\ h \o v \in Seq(Nat) /\ Len(h \o v) = Len(h) + Len(v)
        /\ Len(h) \in Nat /\ Len(v) \in Nat
        /\ \A j \in 1 .. Len(h) : (h \o v)[j] = h[j]
        /\ \A j \in 1 .. Len(v) : (h \o v)[Len(h) + j] = v[j]
    BY Joined, Zenon
  <1> QED BY <1>1, Zenon

\* The same with padding after the value.
LEMMA Laid == ASSUME NEW h \in Seq(Nat), NEW v \in Seq(Nat), NEW z \in Seq(Nat), Len(h) = 4
    PROVE  /\ (h \o v) \o z \in Seq(Nat) /\ Len((h \o v) \o z) = 4 + Len(v) + Len(z)
           /\ \A j \in 1 .. 4 : ((h \o v) \o z)[j] = h[j]
           /\ \A j \in 1 .. Len(v) : ((h \o v) \o z)[4 + j] = v[j]
  <1>1. PICK s : s = h \o v
    OBVIOUS
  <1>2. /\ h \o v \in Seq(Nat) /\ Len(h \o v) = 4 + Len(v) /\ Len(v) \in Nat
        /\ \A j \in 1 .. 4 : (h \o v)[j] = h[j]
        /\ \A j \in 1 .. Len(v) : (h \o v)[4 + j] = v[j]
    BY Laid4, Zenon
  <1>3. /\ s \in Seq(Nat) /\ Len(s) = 4 + Len(v) /\ Len(v) \in Nat
        /\ \A j \in 1 .. 4 : s[j] = h[j]
        /\ \A j \in 1 .. Len(v) : s[4 + j] = v[j]
    BY <1>1, <1>2, Zenon
  <1>4. /\ s \o z \in Seq(Nat) /\ Len(s \o z) = Len(s) + Len(z)
        /\ Len(s) \in Nat /\ Len(z) \in Nat
        /\ \A j \in 1 .. Len(s) : (s \o z)[j] = s[j]
        /\ \A j \in 1 .. Len(z) : (s \o z)[Len(s) + j] = z[j]
    BY <1>3, Joined, Zenon
  <1>5. \A j \in 1 .. 4 : j \in 1 .. Len(s)
    BY <1>3, SMT
  <1>6. \A j \in 1 .. Len(v) : 4 + j \in 1 .. Len(s)
    BY <1>3, SMT
  <1>7. /\ s \o z \in Seq(Nat) /\ Len(s \o z) = 4 + Len(v) + Len(z)
        /\ \A j \in 1 .. 4 : (s \o z)[j] = h[j]
        /\ \A j \in 1 .. Len(v) : (s \o z)[4 + j] = v[j]
    BY <1>3, <1>4, <1>5, <1>6, Zenon
  <1> QED BY <1>1, <1>7, Zenon

\* An attribute as bytes: type, length, value and padding.
LEMMA TlvBytes == ASSUME NEW a \in Attributes
    PROVE  /\ Tlv(a) \in Seq(Nat)
           /\ Len(Tlv(a)) = 4 + Len(a.value) + Pad(Len(a.value))
           /\ Tlv(a)[1] = a.type \div 256 /\ Tlv(a)[2] = a.type % 256
           /\ Tlv(a)[3] = Len(a.value) \div 256 /\ Tlv(a)[4] = Len(a.value) % 256
           /\ \A j \in 1 .. Len(a.value) : Tlv(a)[4 + j] = a.value[j]
  <1>1. PICK y \in Word, v \in Seq(Byte), n \in Nat, p \in 0 .. 3 :
           y = a.type /\ v = a.value /\ n = Len(v) /\ p = Pad(n)
    BY AttributeFields
  <1>2. PICK h : h = <<y \div 256, y % 256, n \div 256, n % 256>>
    OBVIOUS
  <1>3. PICK z : z = [k \in 1 .. p |-> 0]
    OBVIOUS
  <1>4. PICK t : t = (h \o v) \o z
    OBVIOUS
  <1>5. Tlv(a) = t
    BY <1>1, <1>2, <1>3, <1>4, Zenon DEF Tlv
  <1>6. y \div 256 \in Nat /\ y % 256 \in Nat /\ n \div 256 \in Nat /\ n % 256 \in Nat
    <2>1. y \in Nat
      BY SMT DEF Word
    <2> QED BY <2>1, SMT
  <1>7. h \in Seq(Nat) /\ Len(h) = 4 /\ h[1] = y \div 256 /\ h[2] = y % 256
        /\ h[3] = n \div 256 /\ h[4] = n % 256
    BY <1>2, <1>6
  <1>8. z \in Seq(Nat) /\ Len(z) = p
    BY <1>3
  <1>9. v \in Seq(Nat)
    BY BytesAreNumbers
  <1>10. /\ t \in Seq(Nat) /\ Len(t) = 4 + n + p
         /\ \A j \in 1 .. 4 : t[j] = h[j]
         /\ \A j \in 1 .. n : t[4 + j] = v[j]
    <2>1. h \in Seq(Nat) /\ Len(h) = 4 /\ z \in Seq(Nat)
      BY <1>7, <1>8
    <2>2. /\ (h \o v) \o z \in Seq(Nat) /\ Len((h \o v) \o z) = 4 + Len(v) + Len(z)
          /\ \A j \in 1 .. 4 : ((h \o v) \o z)[j] = h[j]
          /\ \A j \in 1 .. Len(v) : ((h \o v) \o z)[4 + j] = v[j]
      BY <1>9, <2>1, Laid, Zenon
    <2> QED BY <1>1, <1>4, <1>8, <2>2, Zenon
  <1>11. t[1] = h[1] /\ t[2] = h[2] /\ t[3] = h[3] /\ t[4] = h[4]
    BY <1>10
  <1> QED BY <1>1, <1>5, <1>7, <1>10, <1>11

\* The attributes before the k-th, as bytes, are the beginning of every longer
\* such prefix.
LEMMA UptoGrows == ASSUME NEW a \in Seq(Attributes)
    PROVE  /\ \A k \in 0 .. Len(a) : Upto(a)[k] \in Seq(Nat)
           /\ \A k, m \in 0 .. Len(a) : k <= m =>
                 /\ Len(Upto(a)[k]) <= Len(Upto(a)[m])
                 /\ \A j \in 1 .. Len(Upto(a)[k]) : Upto(a)[m][j] = Upto(a)[k][j]
  <1>0. Len(a) \in Nat
    BY LenProperties
  <1>1. PICK u : u = Upto(a)
    OBVIOUS
  <1>2. /\ u[0] = <<>> /\ \A k \in 1 .. Len(a) : u[k] = u[k - 1] \o Tlv(a[k])
        /\ \A k \in Nat : k + 1 \in 1 .. Len(a) => u[k + 1] = u[k] \o Tlv(a[k + 1])
    BY <1>0, <1>1, UptoDef, Zenon
  <1>3. \A k \in 1 .. Len(a) : Tlv(a[k]) \in Seq(Nat)
    BY ElementOfSeq, TlvBytes
  <1>4. \A k \in 0 .. Len(a) : u[k] \in Seq(Nat)
    <2> DEFINE S == {k \in Nat : k <= Len(a) => u[k] \in Seq(Nat)}
    <2>0. u[0] \in Seq(Nat)
      <3>1. u[0] = <<>>
        BY <1>2
      <3> QED BY <3>1
    <2>1. 0 \in S
      BY <2>0
    <2>2. ASSUME NEW k \in Nat, k \in S PROVE k + 1 \in S
      <3> SUFFICES ASSUME k + 1 <= Len(a) PROVE u[k + 1] \in Seq(Nat)
        OBVIOUS
      <3>1. k + 1 \in 1 .. Len(a) /\ k + 1 - 1 = k /\ k <= Len(a)
        BY <1>0
      <3>2. PICK t \in Seq(Nat) : t = Tlv(a[k + 1])
        BY <1>3, <3>1
      <3>3. u[k] \in Seq(Nat) /\ u[k + 1] = u[k] \o t
        <4>1. u[k + 1] = u[k] \o Tlv(a[k + 1])
          BY <1>2, <3>1, Zenon
        <4>2. u[k] \in Seq(Nat)
          BY <2>2, <3>1
        <4> QED BY <3>2, <4>1, <4>2, Zenon
      <3> QED BY <3>3, Joined
    <2> HIDE DEF S
    <2>3. \A k \in Nat : k \in S
      BY <2>1, <2>2, Induct
    <2> QED BY <1>0, <2>3 DEF S
  <1>5. ASSUME NEW k \in 0 .. Len(a), NEW m \in 0 .. Len(a), k <= m
        PROVE  Len(u[k]) <= Len(u[m]) /\ \A j \in 1 .. Len(u[k]) : u[m][j] = u[k][j]
    <2> DEFINE P(d) == /\ Len(u[k]) <= Len(u[k + d])
                       /\ \A j \in 1 .. Len(u[k]) : u[k + d][j] = u[k][j]
               S == {d \in Nat : k + d <= Len(a) => P(d)}
    <2>0. Len(u[k]) \in Nat /\ k \in Nat
      BY <1>4, LenProperties
    <2>1. 0 \in S
      <3>1. k + 0 = k
        BY <2>0
      <3> QED BY <2>0, <3>1
    <2>2. ASSUME NEW d \in Nat, d \in S PROVE d + 1 \in S
      <3> SUFFICES ASSUME k + (d + 1) <= Len(a) PROVE P(d + 1)
        OBVIOUS
      <3>1. PICK e \in 1 .. Len(a) : e = k + (d + 1) /\ e - 1 = k + d /\ k + d \in 0 .. Len(a)
        BY <1>0, <2>0
      <3>2. P(d)
        BY <1>0, <2>2, <3>1
      <3>3. PICK t \in Seq(Nat) : t = Tlv(a[e])
        BY <1>3
      <3>4. PICK v \in Seq(Nat) : v = u[k + d]
        BY <1>4, <3>1
      <3>5. u[e] = v \o t
        BY <1>2, <3>1, <3>3, <3>4
      <3>6. /\ Len(v) \in Nat /\ Len(t) \in Nat /\ Len(v \o t) = Len(v) + Len(t)
            /\ \A j \in 1 .. Len(v) : (v \o t)[j] = v[j]
        BY Joined
      <3>7. Len(u[k]) <= Len(v) /\ \A j \in 1 .. Len(u[k]) : v[j] = u[k][j]
        BY <3>2, <3>4
      <3>8. \A j \in 1 .. Len(u[k]) : j \in 1 .. Len(v)
        BY <2>0, <3>6, <3>7
      <3>9. Len(u[k]) <= Len(u[e]) /\ \A j \in 1 .. Len(u[k]) : u[e][j] = u[k][j]
        BY <2>0, <3>5, <3>6, <3>7, <3>8
      <3> QED BY <3>1, <3>9
    <2> HIDE DEF S
    <2>3. \A d \in Nat : d \in S
      BY <2>1, <2>2, Induct
    <2>4. PICK d \in Nat : k + d = m
      <3>1. m - k \in Nat /\ k + (m - k) = m
        BY <1>5
      <3> QED BY <3>1
    <2>5. k + d <= Len(a) => P(d)
      BY <2>3 DEF S
    <2> QED BY <1>5, <2>4, <2>5
  <1> QED BY <1>1, <1>4, <1>5

\* The attributes before the k-th, as the property has them.
LEMMA BodyOfPrefix == ASSUME NEW a \in Seq(Attributes), NEW k \in 1 .. Len(a) + 1
    PROVE  Body(SubSeq(a, 1, k - 1)) = Upto(a)[k - 1]
  <1>0. Len(a) \in Nat /\ k - 1 \in Int /\ k - 1 \in 0 .. Len(a) /\ 1 \in Int
    BY LenProperties
  <1>1. \A j \in 1 .. k - 1 : a[j] \in Attributes
    BY <1>0, ElementOfSeq
  <1>2. PICK b : b = SubSeq(a, 1, k - 1)
    OBVIOUS
  <1>3. /\ Len(b) = IF 1 <= k - 1 THEN k - 1 - 1 + 1 ELSE 0
        /\ \A j \in 1 .. k - 1 - 1 + 1 : b[j] = a[1 + j - 1]
    BY <1>0, <1>1, <1>2, SubSeqProperties
  <1>4. Len(b) = k - 1 /\ \A j \in 1 .. k - 1 : b[j] = a[j]
    BY <1>0, <1>3
  <1>5. PICK u, w : u = Upto(a) /\ w = Upto(b)
    OBVIOUS
  <1>6. /\ u[0] = <<>> /\ w[0] = <<>>
        /\ \A j \in Nat : j + 1 \in 1 .. Len(a) => u[j + 1] = u[j] \o Tlv(a[j + 1])
        /\ \A j \in Nat : j + 1 \in 1 .. k - 1 => w[j + 1] = w[j] \o Tlv(b[j + 1])
    <2>1. /\ u[0] = <<>>
          /\ \A j \in Nat : j + 1 \in 1 .. Len(a) => u[j + 1] = u[j] \o Tlv(a[j + 1])
      BY <1>0, <1>5, UptoDef, Zenon
    <2>2. Len(b) \in Nat
      BY <1>0, <1>4
    <2>3. /\ w[0] = <<>>
          /\ \A j \in Nat : j + 1 \in 1 .. Len(b) => w[j + 1] = w[j] \o Tlv(b[j + 1])
      BY <1>5, <2>2, UptoDef, Zenon
    <2> QED BY <1>4, <2>1, <2>3, Zenon
  <1> DEFINE S == {j \in Nat : j <= k - 1 => w[j] = u[j]}
  <1>7. 0 \in S
    BY <1>6
  <1>8. ASSUME NEW j \in Nat, j \in S PROVE j + 1 \in S
    <2> SUFFICES ASSUME j + 1 <= k - 1 PROVE w[j + 1] = u[j + 1]
      OBVIOUS
    <2>1. j + 1 \in 1 .. k - 1 /\ j + 1 \in 1 .. Len(a) /\ j + 1 - 1 = j /\ j <= k - 1
      BY <1>0
    <2>2. w[j + 1] = w[j] \o Tlv(b[j + 1]) /\ u[j + 1] = u[j] \o Tlv(a[j + 1])
      BY <1>6, <2>1, Zenon
    <2>3. w[j] = u[j] /\ b[j + 1] = a[j + 1]
      BY <1>4, <1>8, <2>1
    <2> QED BY <2>2, <2>3
  <1> HIDE DEF S
  <1>9. k - 1 \in S
    BY <1>0, <1>7, <1>8, Induct
  <1>10. w[k - 1] = u[k - 1]
    BY <1>0, <1>9 DEF S
  <1> QED BY <1>2, <1>4, <1>5, <1>10 DEF Body

\* to_be_bytes and from_be_bytes of one byte at a time.
LEMMA LowByte == ASSUME NEW c \in Nat
                 PROVE  /\ c \div 256 \in Nat /\ c % 256 \in u8
                        /\ c = (c \div 256) * 256 + (c % 256)
  BY SMT DEF u8

\* Bytes b have attribute x at offset o, as far as b goes.
Holds(b, o, x) ==
    /\ o + 4 <= Len(b) => /\ b[o + 1] * 256 + b[o + 2] = x.type
                          /\ b[o + 3] * 256 + b[o + 4] = Len(x.value)
    /\ o + 4 + Len(x.value) <= Len(b) => \A j \in 1 .. Len(x.value) : b[o + 4 + j] = x.value[j]

\* An attribute's bytes have it at their beginning.
LEMMA TlvHolds == ASSUME NEW x \in Attributes
    PROVE  Holds(Tlv(x), 0, x)
  <1>0. PICK t : t = Tlv(x)
    OBVIOUS
  <1>1. PICK y \in Word, v \in Seq(Byte), n \in Nat : y = x.type /\ v = x.value /\ n = Len(v)
    BY AttributeFields
  <1>2. /\ t[1] = y \div 256 /\ t[2] = y % 256
        /\ t[3] = n \div 256 /\ t[4] = n % 256
        /\ \A j \in 1 .. n : t[4 + j] = v[j]
    BY <1>0, <1>1, TlvBytes
  <1>3. y \in Nat
    BY SMTT(40) DEF Word
  <1>4. y = (y \div 256) * 256 + (y % 256) /\ n = (n \div 256) * 256 + (n % 256)
    BY <1>3, LowByte, SMTT(40)
  <1>5. 0 + 1 = 1 /\ 0 + 2 = 2 /\ 0 + 3 = 3 /\ 0 + 4 = 4
    OBVIOUS
  <1>6. t[0 + 1] * 256 + t[0 + 2] = y /\ t[0 + 3] * 256 + t[0 + 4] = n
    BY <1>2, <1>4, <1>5
  <1>7. \A j \in 1 .. n : t[0 + 4 + j] = v[j]
    BY <1>2, <1>5
  <1> QED BY <1>0, <1>1, <1>6, <1>7, Zenon DEF Holds

\* Put after other bytes, they have the attribute that much later.
LEMMA HoldsAfter == ASSUME NEW h \in Seq(Nat), NEW b \in Seq(Nat), NEW o \in Nat,
                           NEW x \in Attributes, Holds(b, o, x)
    PROVE  Holds(h \o b, Len(h) + o, x)
  <1>0. PICK c : c = h \o b
    OBVIOUS
  <1>1. PICK v \in Seq(Byte), n \in Nat, m \in Nat, l \in Nat :
           v = x.value /\ n = Len(v) /\ m = Len(h) /\ l = Len(b)
    BY AttributeFields, LenProperties
  <1>2. Len(c) = m + l /\ \A j \in 1 .. l : c[m + j] = b[j]
    <2>1. /\ Len(h \o b) = Len(h) + Len(b)
          /\ \A j \in 1 .. Len(b) : (h \o b)[Len(h) + j] = b[j]
      BY Joined, Zenon
    <2> QED BY <1>0, <1>1, <2>1, Zenon
  <1>3. /\ o + 4 <= l => b[o + 1] * 256 + b[o + 2] = x.type /\ b[o + 3] * 256 + b[o + 4] = n
        /\ o + 4 + n <= l => \A j \in 1 .. n : b[o + 4 + j] = v[j]
    BY <1>1, Zenon DEF Holds
  <1>4. ASSUME m + o + 4 <= m + l
        PROVE  /\ c[m + o + 1] * 256 + c[m + o + 2] = x.type
               /\ c[m + o + 3] * 256 + c[m + o + 4] = n
    <2>1. o + 4 <= l /\ o + 1 \in 1 .. l /\ o + 2 \in 1 .. l /\ o + 3 \in 1 .. l /\ o + 4 \in 1 .. l
      BY <1>4
    <2>2. m + (o + 1) = m + o + 1 /\ m + (o + 2) = m + o + 2 /\ m + (o + 3) = m + o + 3
          /\ m + (o + 4) = m + o + 4
      OBVIOUS
    <2>3. c[m + (o + 1)] = b[o + 1] /\ c[m + (o + 2)] = b[o + 2] /\ c[m + (o + 3)] = b[o + 3]
          /\ c[m + (o + 4)] = b[o + 4]
      BY <1>2, <2>1
    <2>4. c[m + o + 1] = b[o + 1] /\ c[m + o + 2] = b[o + 2] /\ c[m + o + 3] = b[o + 3]
          /\ c[m + o + 4] = b[o + 4]
      BY <2>2, <2>3
    <2> QED BY <1>3, <2>1, <2>4
  <1>5. ASSUME m + o + 4 + n <= m + l, NEW j \in 1 .. n
        PROVE  c[m + o + 4 + j] = v[j]
    <2>1. o + 4 + n <= l /\ o + 4 + j \in 1 .. l /\ m + (o + 4 + j) = m + o + 4 + j
      BY <1>5
    <2>2. c[m + (o + 4 + j)] = b[o + 4 + j]
      BY <1>2, <2>1
    <2> QED BY <1>3, <2>1, <2>2
  <1> QED BY <1>0, <1>1, <1>2, <1>4, <1>5, Zenon DEF Holds

\* A longer byte string has it too, if the attribute was there as a whole.
LEMMA HoldsLonger == ASSUME NEW b, NEW c, NEW o \in Nat, NEW x \in Attributes, Holds(b, o, x),
                            Len(b) \in Nat, o + 4 + Len(x.value) <= Len(b),
                            \A j \in 1 .. Len(b) : c[j] = b[j]
    PROVE  Holds(c, o, x)
  <1>1. PICK v \in Seq(Byte), n \in Nat, l \in Nat : v = x.value /\ n = Len(v) /\ l = Len(b)
    BY AttributeFields
  <1>2. o + 4 + n <= l /\ o + 4 <= l
    BY <1>1
  <1>3. /\ b[o + 1] * 256 + b[o + 2] = x.type /\ b[o + 3] * 256 + b[o + 4] = n
        /\ \A j \in 1 .. n : b[o + 4 + j] = v[j]
    BY <1>1, <1>2, Zenon DEF Holds
  <1>4. c[o + 1] = b[o + 1] /\ c[o + 2] = b[o + 2] /\ c[o + 3] = b[o + 3] /\ c[o + 4] = b[o + 4]
    BY <1>1, <1>2
  <1>5. ASSUME NEW j \in 1 .. n PROVE c[o + 4 + j] = b[o + 4 + j]
    <2>1. o + 4 + j \in 1 .. l
      BY <1>2
    <2> QED BY <1>1, <2>1
  <1>6. c[o + 1] * 256 + c[o + 2] = x.type /\ c[o + 3] * 256 + c[o + 4] = n
    BY <1>3, <1>4
  <1>7. \A j \in 1 .. n : c[o + 4 + j] = v[j]
    BY <1>3, <1>5
  <1> QED BY <1>1, <1>6, <1>7, Zenon DEF Holds

\* And so has what the receive buffer leaves of it.
LEMMA HoldsCut == ASSUME NEW b, NEW c, NEW o \in Nat, NEW x \in Attributes, Holds(b, o, x),
                         Len(b) \in Nat, Len(c) \in Nat, Len(c) <= Len(b),
                         \A j \in 1 .. Len(c) : c[j] = b[j]
    PROVE  Holds(c, o, x)
  <1>1. PICK v \in Seq(Byte), n \in Nat, l \in Nat, p \in Nat :
           v = x.value /\ n = Len(v) /\ l = Len(b) /\ p = Len(c)
    BY AttributeFields
  <1>0. p <= l
    BY <1>1
  <1>2. ASSUME o + 4 <= p
        PROVE  c[o + 1] * 256 + c[o + 2] = x.type /\ c[o + 3] * 256 + c[o + 4] = n
    <2>1. o + 4 <= l
      BY <1>1, <1>2
    <2>2. b[o + 1] * 256 + b[o + 2] = x.type /\ b[o + 3] * 256 + b[o + 4] = n
      BY <1>1, <2>1, Zenon DEF Holds
    <2>3. c[o + 1] = b[o + 1] /\ c[o + 2] = b[o + 2] /\ c[o + 3] = b[o + 3] /\ c[o + 4] = b[o + 4]
      BY <1>1, <1>2
    <2> QED BY <2>2, <2>3
  <1>3. ASSUME o + 4 + n <= p, NEW j \in 1 .. n PROVE c[o + 4 + j] = v[j]
    <2>1. o + 4 + n <= l
      BY <1>0, <1>3, SMT
    <2>2. b[o + 4 + j] = v[j]
      BY <1>1, <2>1, Zenon DEF Holds
    <2>3. o + 4 + j \in 1 .. p
      BY <1>3
    <2>4. c[o + 4 + j] = b[o + 4 + j]
      BY <1>1, <2>3
    <2> QED BY <2>2, <2>4
  <1> QED BY <1>1, <1>2, <1>3, Zenon DEF Holds

\* Offset of the k-th attribute of an answer.
Position(a, k) == 20 + Len(Upto(a)[k - 1])

\* The attributes follow one another.
LEMMA Positions == ASSUME NEW a \in Seq(Attributes)
    PROVE  /\ Position(a, 1) = 20
           /\ \A k \in 1 .. Len(a) + 1 : Position(a, k) \in Nat
           /\ \A k \in 1 .. Len(a) :
                 Position(a, k + 1) = Position(a, k) + 4 + Len(a[k].value) + Pad(Len(a[k].value))
           /\ \A k, m \in 1 .. Len(a) + 1 : k <= m => Position(a, k) <= Position(a, m)
  <1>0. Len(a) \in Nat
    BY LenProperties
  <1>1. PICK u : u = Upto(a)
    OBVIOUS
  <1>2. u[0] = <<>> /\ \A k \in 1 .. Len(a) : u[k] = u[k - 1] \o Tlv(a[k])
    BY <1>0, <1>1, UptoDef, Zenon
  <1>3. /\ \A k \in 0 .. Len(a) : u[k] \in Seq(Nat)
        /\ \A k, m \in 0 .. Len(a) : k <= m => Len(u[k]) <= Len(u[m])
    BY <1>1, UptoGrows, Zenon
  <1>4. \A k \in 0 .. Len(a) : Len(u[k]) \in Nat
    BY <1>3, LenProperties
  <1>5. ASSUME NEW k \in 1 .. Len(a)
        PROVE  Len(u[k]) = Len(u[k - 1]) + (4 + Len(a[k].value) + Pad(Len(a[k].value)))
    <2>1. PICK t : t = Tlv(a[k])
      OBVIOUS
    <2>2. a[k] \in Attributes
      BY ElementOfSeq
    <2>3. t \in Seq(Nat) /\ Len(t) = 4 + Len(a[k].value) + Pad(Len(a[k].value))
      BY <2>1, <2>2, TlvBytes
    <2>4. PICK p \in Seq(Nat) : p = u[k - 1]
      <3>1. k - 1 \in 0 .. Len(a)
        BY <1>0
      <3> QED BY <1>3, <3>1
    <2>5. u[k] = p \o t
      BY <1>2, <2>1, <2>4, Zenon
    <2>6. Len(p \o t) = Len(p) + Len(t)
      BY <2>3, Joined, Zenon
    <2> QED BY <2>3, <2>4, <2>5, <2>6, Zenon
  <1>6. Position(a, 1) = 20
    <2>1. 1 - 1 = 0 /\ Len(u[0]) = 0
      BY <1>2
    <2> QED BY <1>1, <2>1 DEF Position
  <1>7. \A k \in 1 .. Len(a) + 1 : k - 1 \in 0 .. Len(a) /\ Position(a, k) = 20 + Len(u[k - 1])
    BY <1>0, <1>1 DEF Position
  <1>8. ASSUME NEW k \in 1 .. Len(a)
        PROVE  Position(a, k + 1) = Position(a, k) + 4 + Len(a[k].value) + Pad(Len(a[k].value))
    <2>1. PICK n \in Nat : n = Len(a[k].value) /\ Pad(n) \in Nat
      <3>1. a[k] \in Attributes
        BY ElementOfSeq
      <3> QED BY <3>1, AttributeFields
    <2>2. Position(a, k + 1) = 20 + Len(u[k])
      <3>1. k + 1 \in 1 .. Len(a) + 1 /\ k + 1 - 1 = k
        BY <1>0
      <3> QED BY <1>7, <3>1
    <2>3. Position(a, k) = 20 + Len(u[k - 1]) /\ Len(u[k - 1]) \in Nat
      <3>1. k \in 1 .. Len(a) + 1
        BY <1>0
      <3> QED BY <1>4, <1>7, <3>1
    <2>4. Len(u[k]) = Len(u[k - 1]) + (4 + n + Pad(n))
      BY <1>5, <2>1
    <2>5. PICK q \in Nat, p \in Nat : q = Len(u[k - 1]) /\ p = Pad(n)
      BY <2>1, <2>3
    <2>6. 20 + (q + (4 + n + p)) = (20 + q) + 4 + n + p
      OBVIOUS
    <2> QED BY <2>1, <2>2, <2>3, <2>4, <2>5, <2>6
  <1>9. \A k \in 1 .. Len(a) + 1 : Position(a, k) \in Nat
    BY <1>4, <1>7
  <1>10. ASSUME NEW k \in 1 .. Len(a) + 1, NEW m \in 1 .. Len(a) + 1, k <= m
         PROVE  Position(a, k) <= Position(a, m)
    <2>1. k - 1 \in 0 .. Len(a) /\ m - 1 \in 0 .. Len(a) /\ k - 1 <= m - 1
      BY <1>0, <1>10
    <2>2. Len(u[k - 1]) <= Len(u[m - 1]) /\ Len(u[k - 1]) \in Nat /\ Len(u[m - 1]) \in Nat
      BY <1>3, <1>4, <2>1
    <2> QED BY <1>7, <2>2
  <1> QED BY <1>6, <1>8, <1>9, <1>10

\* The whole answer: its header states the length of its attributes, and each
\* attribute is at its position.
LEMMA AnswerBytes == ASSUME NEW a \in Seq(Attributes)
    PROVE  /\ Answer(a) \in Seq(Nat) /\ Len(Answer(a)) = Position(a, Len(a) + 1)
           /\ Answer(a)[1] = 1 /\ Answer(a)[2] = 1
           /\ 20 + (Answer(a)[3] * 256 + Answer(a)[4]) = Len(Answer(a))
           /\ \A k \in 1 .. Len(a) : Holds(Answer(a), Position(a, k), a[k])
  <1>0. Len(a) \in Nat /\ Len(a) \in 0 .. Len(a)
    BY LenProperties
  <1>1. PICK u : u = Upto(a)
    OBVIOUS
  <1>2. \A k \in 1 .. Len(a) : u[k] = u[k - 1] \o Tlv(a[k])
    BY <1>0, <1>1, UptoDef, Zenon
  <1>3. /\ \A k \in 0 .. Len(a) : u[k] \in Seq(Nat)
        /\ \A k, m \in 0 .. Len(a) : k <= m =>
              /\ Len(u[k]) <= Len(u[m])
              /\ \A j \in 1 .. Len(u[k]) : u[m][j] = u[k][j]
    BY <1>1, UptoGrows, Zenon
  <1>4. PICK b \in Seq(Nat) : b = u[Len(a)]
    BY <1>0, <1>3
  <1>5. PICK n \in Nat : n = Len(b)
    BY LenProperties
  <1>6. Body(a) = b
    BY <1>1, <1>4 DEF Body
  <1>7. PICK h : h = <<1, 1, n \div 256, n % 256>>
    OBVIOUS
  <1>8. PICK z : z = [k \in 1 .. 16 |-> 0]
    OBVIOUS
  <1>9. n \div 256 \in Nat /\ n % 256 \in Nat /\ (n \div 256) * 256 + (n % 256) = n
    <2>1. n \div 256 \in Nat /\ n % 256 \in u8 /\ n = (n \div 256) * 256 + (n % 256)
      BY LowByte
    <2> QED BY <2>1, SMT DEF u8
  <1>10. h \in Seq(Nat) /\ Len(h) = 4 /\ h[1] = 1 /\ h[2] = 1 /\ h[3] = n \div 256 /\ h[4] = n % 256
    BY <1>7, <1>9
  <1>11. z \in Seq(Nat) /\ Len(z) = 16
    BY <1>8
  <1>12. PICK g : g = h \o z
    OBVIOUS
  <1>13. g \in Seq(Nat) /\ Len(g) = 20
         /\ g[1] = h[1] /\ g[2] = h[2] /\ g[3] = h[3] /\ g[4] = h[4]
    <2>1. /\ h \o z \in Seq(Nat) /\ Len(h \o z) = 4 + Len(z)
          /\ \A j \in 1 .. 4 : (h \o z)[j] = h[j]
      BY <1>10, <1>11, Laid4, Zenon
    <2>2. g \in Seq(Nat) /\ Len(g) = 4 + 16 /\ \A j \in 1 .. 4 : g[j] = h[j]
      BY <1>11, <1>12, <2>1, Zenon
    <2> QED BY <2>2
  <1>14. PICK t : t = g \o b
    OBVIOUS
  <1>15. Answer(a) = t
    BY <1>5, <1>6, <1>7, <1>8, <1>12, <1>14, Zenon DEF Answer
  <1>16. /\ t \in Seq(Nat) /\ Len(t) = 20 + n
         /\ \A j \in 1 .. 20 : t[j] = g[j]
    <2>1. /\ g \o b \in Seq(Nat) /\ Len(g \o b) = Len(g) + Len(b)
          /\ \A j \in 1 .. Len(g) : (g \o b)[j] = g[j]
      BY <1>13, Joined, Zenon
    <2> QED BY <1>5, <1>13, <1>14, <2>1, Zenon
  <1>17. t[1] = 1 /\ t[2] = 1 /\ 20 + (t[3] * 256 + t[4]) = Len(t)
    <2>1. t[1] = g[1] /\ t[2] = g[2] /\ t[3] = g[3] /\ t[4] = g[4]
      BY <1>16
    <2> QED BY <1>9, <1>10, <1>13, <1>16, <2>1
  <1>18. Len(t) = Position(a, Len(a) + 1)
    <2>1. Len(a) + 1 - 1 = Len(a)
      BY <1>0
    <2> QED BY <1>1, <1>4, <1>5, <1>16, <2>1 DEF Position
  <1>19. ASSUME NEW k \in 1 .. Len(a) PROVE Holds(t, Position(a, k), a[k])
    <2>0. k - 1 \in 0 .. Len(a) /\ k \in 0 .. Len(a) /\ k <= Len(a)
      BY <1>0
    <2>1. PICK x \in Attributes : x = a[k]
      BY ElementOfSeq
    <2>2. PICK y, p \in Seq(Nat) : y = Tlv(x) /\ p = u[k - 1]
      BY <1>3, <2>0, TlvBytes
    <2>3. u[k] = p \o y
      BY <1>2, <2>1, <2>2, Zenon
    <2>4. PICK o \in Nat : o = Len(p)
      BY LenProperties
    <2>5. Holds(y, 0, x)
      BY <2>2, TlvHolds
    <2>6. Holds(p \o y, Len(p) + 0, x)
      BY <2>5, HoldsAfter, Zenon
    <2>7. Holds(u[k], o, x)
      <3>1. Len(p) + 0 = o
        BY <2>4
      <3> QED BY <2>3, <2>6, <3>1, Zenon
    <2>8. Len(u[k]) \in Nat /\ o + 4 + Len(x.value) <= Len(u[k])
      <3>1. Len(p \o y) = Len(p) + Len(y)
        BY Joined, Zenon
      <3>2. Len(y) = 4 + Len(x.value) + Pad(Len(x.value))
        BY <2>2, TlvBytes
      <3>3. PICK l \in Nat, r \in 0 .. 3 : l = Len(x.value) /\ r = Pad(l)
        BY AttributeFields
      <3>4. Len(u[k]) = o + (4 + l + r)
        BY <2>3, <2>4, <3>1, <3>2, <3>3, Zenon
      <3>5. o + (4 + l + r) \in Nat /\ o + 4 + l <= o + (4 + l + r)
        OBVIOUS
      <3> QED BY <3>3, <3>4, <3>5, Zenon
    <2>9. \A j \in 1 .. Len(u[k]) : b[j] = u[k][j]
      BY <1>0, <1>3, <1>4, <2>0, Zenon
    <2>10. Holds(b, o, x)
      BY <2>7, <2>8, <2>9, HoldsLonger, Zenon
    <2>11. Holds(g \o b, Len(g) + o, x)
      BY <1>13, <2>10, HoldsAfter, Zenon
    <2>12. Position(a, k) = Len(g) + o
      BY <1>1, <1>13, <2>2, <2>4, Zenon DEF Position
    <2> QED BY <1>14, <2>1, <2>11, <2>12, Zenon
  <1> QED BY <1>15, <1>16, <1>17, <1>18, <1>19, Zenon

\* The answers the server may give are sequences of attributes.
LEMMA AnswersAre == ASSUME NEW a \in Answers
    PROVE  /\ a \in Seq(Attributes) /\ Len(a) \in Nat /\ DOMAIN a = 1 .. Len(a)
           /\ \A k \in 1 .. Len(a) : a[k] \in Attributes /\ Carries(a[k])
  <1>2. a \in Seq(Attributes) /\ \A k \in DOMAIN a : Carries(a[k])
    BY AttributeAssumption, Zenon
  <1>3. Len(a) \in Nat /\ DOMAIN a = 1 .. Len(a)
    BY <1>2, LenProperties
  <1> QED BY <1>2, <1>3, ElementOfSeq

\* What is received of an answer: as much of it as the buffer takes.
Cutting(m) == SubSeq(m, 1, MinOf(Buffer, Len(m)))

\* A datagram cut to the buffer is the beginning of it.
LEMMA CutBytes == ASSUME NEW m \in Seq(Nat)
    PROVE  /\ Len(Cutting(m)) \in Nat /\ Len(m) \in Nat /\ Len(Cutting(m)) <= Len(m)
           /\ \A j \in 1 .. Len(Cutting(m)) : Cutting(m)[j] = m[j]
  <1>1. PICK n, l \in Nat : n = MinOf(Buffer, Len(m)) /\ l = Len(m) /\ n <= l
    BY BufferAssumption, LenProperties, SMT DEF MinOf
  <1>2. 1 \in Int /\ n \in Int /\ \A j \in 1 .. n : m[j] \in Nat
    BY <1>1, ElementOfSeq, SMT
  <1>3. PICK c : c = SubSeq(m, 1, n)
    OBVIOUS
  <1>4. /\ Len(c) = (IF 1 <= n THEN n - 1 + 1 ELSE 0)
        /\ \A j \in 1 .. n - 1 + 1 : c[j] = m[1 + j - 1]
    BY <1>2, <1>3, SubSeqProperties
  <1>5. Len(c) = n /\ \A j \in 1 .. n : c[j] = m[j]
    BY <1>4
  <1>6. Cutting(m) = c
    BY <1>1, <1>3 DEF Cutting
  <1> QED BY <1>1, <1>5, <1>6, Zenon

\* What the walk over the part m of answer a has to end with: f is the address
\* of the first mapping received whole, None if there is none.
Ended(a, m, f) ==
    LET ks == {k \in DOMAIN a : a[k].addr # None /\ Position(a, k) + 4 + Len(a[k].value) <= Len(m)} IN
    IF ks = {} THEN f = None
    ELSE \E k \in ks : (\A j \in ks : k <= j) /\ f = a[k].addr

\* With no mapping before attribute k and attribute k not received whole, there
\* is none.
LEMMA NothingLeft == ASSUME NEW a \in Answers, NEW m, Len(m) \in Nat, NEW k \in 1 .. Len(a) + 1,
                            \A j \in 1 .. k - 1 : a[j].addr = None,
                            \/ Position(a, k) + 4 > Len(m)
                            \/ k <= Len(a) /\ Position(a, k) + 4 + Len(a[k].value) > Len(m)
    PROVE  Ended(a, m, None)
  <1>0. /\ a \in Seq(Attributes) /\ Len(a) \in Nat /\ DOMAIN a = 1 .. Len(a)
        /\ \A j \in 1 .. Len(a) : a[j] \in Attributes
    BY AnswersAre
  <1>1. /\ \A j \in 1 .. Len(a) + 1 : Position(a, j) \in Nat
        /\ \A j \in 1 .. Len(a) :
              Position(a, j + 1) = Position(a, j) + 4 + Len(a[j].value) + Pad(Len(a[j].value))
        /\ \A j, q \in 1 .. Len(a) + 1 : j <= q => Position(a, j) <= Position(a, q)
    BY <1>0, Positions, Zenon
  <1>2. \A j \in 1 .. Len(a) : Len(a[j].value) \in Nat /\ Pad(Len(a[j].value)) \in 0 .. 3
    BY <1>0, AttributeFields
  <1>3. ASSUME NEW j \in 1 .. Len(a), a[j].addr # None, Position(a, j) + 4 + Len(a[j].value) <= Len(m)
        PROVE  FALSE
    <2>1. j >= k /\ j \in 1 .. Len(a) + 1
      BY <1>0, <1>3
    <2>2. Position(a, k) <= Position(a, j) /\ Position(a, k) \in Nat /\ Position(a, j) \in Nat
      BY <1>1, <2>1
    <2>3. k <= Len(a) /\ Position(a, k) + 4 + Len(a[k].value) > Len(m)
      BY <1>2, <1>3, <2>2
    <2>4. CASE j = k
      BY <1>0, <1>2, <1>3, <2>2, <2>3, <2>4
    <2>5. CASE j > k
      <3>1. k \in 1 .. Len(a) /\ k + 1 \in 1 .. Len(a) + 1 /\ k + 1 <= j
        BY <1>0, <2>3, <2>5
      <3>2. Position(a, k + 1) <= Position(a, j) /\ Position(a, k + 1) \in Nat
        BY <1>1, <2>1, <3>1
      <3>3. Position(a, k + 1) = Position(a, k) + 4 + Len(a[k].value) + Pad(Len(a[k].value))
        BY <1>1, <3>1
      <3>4. Len(a[k].value) \in Nat /\ Pad(Len(a[k].value)) \in 0 .. 3 /\ Len(a[j].value) \in Nat
        BY <1>2, <3>1
      <3>5. PICK p, q, l, n, r, e :
               /\ p = Position(a, k) /\ q = Position(a, j) /\ l = Len(m)
               /\ n = Len(a[k].value) /\ r = Pad(Len(a[k].value)) /\ e = Len(a[j].value)
        BY Zenon
      <3>8. p \in Nat /\ q \in Nat /\ l \in Nat /\ n \in Nat /\ r \in 0 .. 3 /\ e \in Nat
        BY <2>2, <3>4, <3>5, Zenon
      <3>6. p + 4 + n > l /\ q + 4 + e <= l
        BY <1>3, <2>3, <3>5, Zenon
      <3>7. p + 4 + n + r <= q
        BY <3>2, <3>3, <3>5, Zenon
      <3> QED BY <3>6, <3>7, <3>8
    <2> QED BY <1>0, <2>1, <2>4, <2>5
  <1>4. {j \in DOMAIN a : a[j].addr # None /\ Position(a, j) + 4 + Len(a[j].value) <= Len(m)} = {}
    BY <1>0, <1>3, Zenon
  <1> QED BY <1>4, Zenon DEF Ended

\* With no mapping before attribute k, and attribute k a mapping received whole,
\* its address is the one.
LEMMA FirstMapping == ASSUME NEW a \in Answers, NEW m, NEW k \in 1 .. Len(a),
                             \A j \in 1 .. k - 1 : a[j].addr = None, a[k].addr # None,
                             Position(a, k) + 4 + Len(a[k].value) <= Len(m)
    PROVE  Ended(a, m, a[k].addr)
  <1>0. Len(a) \in Nat /\ DOMAIN a = 1 .. Len(a)
    BY AnswersAre
  <1> DEFINE ks == {j \in DOMAIN a : a[j].addr # None /\ Position(a, j) + 4 + Len(a[j].value) <= Len(m)}
  <1>1. k \in ks
    BY <1>0, Zenon
  <1>2. ASSUME NEW j \in ks PROVE k <= j
    <2>1. j \in 1 .. Len(a) /\ a[j].addr # None
      BY <1>0
    <2>2. j \notin 1 .. k - 1
      BY <2>1
    <2> QED BY <1>0, <2>1, <2>2
  <1> HIDE DEF ks
  <1>3. ks # {}
    BY <1>1
  <1>4. \E q \in ks : (\A j \in ks : q <= j) /\ a[k].addr = a[q].addr
    BY <1>1, <1>2
  <1> QED BY <1>3, <1>4, Zenon DEF Ended, ks

\* Bytes and addresses.
LEMMA AddressFields == ASSUME NEW d \in Addresses
    PROVE  /\ d.port \in Word /\ DOMAIN d.ip = 1 .. 4 /\ d.ip = [k \in 1 .. 4 |-> d.ip[k]]
           /\ \A k \in 1 .. 4 : d.ip[k] \in Byte
           /\ d = [port |-> d.port, ip |-> d.ip]
           /\ d.port \div 256 \in Byte /\ d.port % 256 \in Byte
           /\ (d.port \div 256) * 256 + (d.port % 256) = d.port
  <1>1. d.port \in Word /\ d.ip \in [1 .. 4 -> Byte] /\ d = [port |-> d.port, ip |-> d.ip]
    BY DEF Addresses
  <1>2. PICK q \in Word : q = d.port
    BY <1>1, Zenon
  <1>3. q \in Nat /\ q <= 65535
    BY SMT DEF Word
  <1>4. q \div 256 \in Nat /\ q % 256 \in Byte /\ q = (q \div 256) * 256 + (q % 256)
    <2>1. Byte = u8
      BY DEF Byte, u8
    <2> QED BY <1>3, <2>1, LowByte
  <1>5. q \div 256 \in Byte
    <2>1. PICK r \in 0 .. 255, e \in Nat : r = q % 256 /\ e = q \div 256 /\ q = e * 256 + r
      BY <1>4 DEF Byte
    <2>2. e \in 0 .. 255
      BY <1>3, <2>1
    <2> QED BY <2>1, <2>2 DEF Byte
  <1>6. (q \div 256) * 256 + (q % 256) = q
    BY <1>4
  <1> QED BY <1>1, <1>2, <1>4, <1>5, <1>6

\* The six bytes of an address.
LEMMA PlainBytes == ASSUME NEW d \in Addresses
    PROVE  /\ Plain(d)[1] = d.port \div 256 /\ Plain(d)[2] = d.port % 256
           /\ Plain(d)[3] = d.ip[1] /\ Plain(d)[4] = d.ip[2]
           /\ Plain(d)[5] = d.ip[3] /\ Plain(d)[6] = d.ip[4]
  <1>0. PICK e, f \in Byte : e = d.port \div 256 /\ f = d.port % 256
    BY AddressFields
  <1>1. PICK s, t : s = <<e, f>> /\ t = d.ip
    OBVIOUS
  <1>2. t \in Seq(Byte) /\ Len(t) = 4
    <2>1. t = [k \in 1 .. 4 |-> t[k]] /\ \A k \in 1 .. 4 : t[k] \in Byte
      BY <1>1, AddressFields
    <2> QED BY <2>1
  <1>3. s \in Seq(Byte) /\ Len(s) = 2 /\ s[1] = e /\ s[2] = f
    BY <1>1
  <1>4. s \in Seq(Nat) /\ t \in Seq(Nat)
    BY <1>2, <1>3, BytesAreNumbers
  <1>5. /\ \A j \in 1 .. Len(s) : (s \o t)[j] = s[j]
        /\ \A j \in 1 .. Len(t) : (s \o t)[Len(s) + j] = t[j]
    BY <1>4, Joined, Zenon
  <1>6. PICK p : p = s \o t
    OBVIOUS
  <1>7. (\A j \in 1 .. 2 : p[j] = s[j]) /\ (\A j \in 1 .. 4 : p[2 + j] = t[j])
    BY <1>2, <1>3, <1>5, <1>6, Zenon
  <1>8. /\ p[1] = s[1] /\ p[2] = s[2] /\ p[3] = t[1] /\ p[4] = t[2] /\ p[5] = t[3] /\ p[6] = t[4]
    <2>1. p[2 + 1] = t[1] /\ p[2 + 2] = t[2] /\ p[2 + 3] = t[3] /\ p[2 + 4] = t[4]
      BY <1>7
    <2> QED BY <1>7, <2>1
  <1>9. Plain(d) = p
    BY <1>0, <1>1, <1>6, Zenon DEF Plain
  <1> QED BY <1>0, <1>1, <1>3, <1>8, <1>9, Zenon

\* The walk at attribute x of an answer, received whole: it is taken for a
\* mapping if it is one, and read for the address it carries.
LEMMA ReadsAddress == ASSUME NEW x \in Attributes, Carries(x), NEW o \in Nat,
                             Holds(msg, o, x), o + 4 + Len(x.value) <= Len(msg), Len(msg) \in Nat
    PROVE  /\ U16(o) = x.type /\ U16(o + 2) = Len(x.value)
           /\ IsMapped(x.type, o + 4, Len(x.value)) <=> x.addr # None
           /\ x.addr # None => Address(x.type, o + 4) = x.addr
  <1>1. PICK y \in Word, v \in Seq(Byte), n \in Nat : y = x.type /\ v = x.value /\ n = Len(v)
    BY AttributeFields
  <1>2. /\ msg[o + 1] * 256 + msg[o + 2] = y /\ msg[o + 3] * 256 + msg[o + 4] = n
        /\ \A j \in 1 .. n : msg[o + 4 + j] = v[j]
    <2>0. o + 4 + n <= Len(msg)
      BY <1>1, Zenon
    <2>1. o + 4 <= Len(msg)
      BY <2>0
    <2> QED BY <1>1, <2>1, Zenon DEF Holds
  <1>3. U16(o) = y /\ U16(o + 2) = n
    <2>1. o + 1 + 1 = o + 2 /\ o + 2 + 1 = o + 3 /\ o + 2 + 1 + 1 = o + 4
      OBVIOUS
    <2> QED BY <1>2, <2>1 DEF U16, U8
  <1>4. n >= 8 => U8(o + 4 + 1) = v[2]
    <2>1. o + 4 + 1 + 1 = o + 4 + 2
      OBVIOUS
    <2> QED BY <1>2, <2>1 DEF U8
  <1>5. IsMapped(y, o + 4, n) <=> (y \in {1, 32} /\ n >= 8 /\ v[2] = 1)
    BY <1>4 DEF IsMapped
  <1>6. CASE y \in {1, 32} /\ n >= 8 /\ v[2] = 1
    <2>1. /\ x.addr # None
          /\ \A k \in 1 .. 6 : v[k + 2] = IF y = 1 THEN Plain(x.addr)[k]
                ELSE XorByte(Plain(x.addr)[k], MAGIC[IF k <= 2 THEN k ELSE k - 2])
      BY <1>1, <1>6, Zenon DEF Carries
    <2>2. PICK d \in Addresses : d = x.addr
      BY <2>1, AttributeFields
    <2>3. PICK p : p = Plain(d)
      OBVIOUS
    <2>4. /\ p[1] = d.port \div 256 /\ p[2] = d.port % 256
          /\ p[3] = d.ip[1] /\ p[4] = d.ip[2] /\ p[5] = d.ip[3] /\ p[6] = d.ip[4]
      BY <2>3, PlainBytes
    <2>5. \A k \in 1 .. 6 : v[k + 2] = IF y = 1 THEN p[k]
                ELSE XorByte(p[k], MAGIC[IF k <= 2 THEN k ELSE k - 2])
      BY <2>1, <2>2, <2>3, Zenon
    <2>6. /\ U8(o + 4 + 2) = v[3] /\ U8(o + 4 + 2 + 1) = v[4] /\ U8(o + 4 + 3) = v[4]
          /\ U8(o + 4 + 3 + 1) = v[5] /\ U8(o + 4 + 3 + 2) = v[6]
          /\ U8(o + 4 + 3 + 3) = v[7] /\ U8(o + 4 + 3 + 4) = v[8]
      <3>1. /\ o + 4 + 2 + 1 = o + 4 + 3 /\ o + 4 + 2 + 1 + 1 = o + 4 + 4
            /\ o + 4 + 3 + 1 = o + 4 + 4 /\ o + 4 + 3 + 1 + 1 = o + 4 + 5
            /\ o + 4 + 3 + 2 + 1 = o + 4 + 6 /\ o + 4 + 3 + 3 + 1 = o + 4 + 7
            /\ o + 4 + 3 + 4 + 1 = o + 4 + 8
        OBVIOUS
      <3>2. /\ msg[o + 4 + 3] = v[3] /\ msg[o + 4 + 4] = v[4] /\ msg[o + 4 + 5] = v[5]
            /\ msg[o + 4 + 6] = v[6] /\ msg[o + 4 + 7] = v[7] /\ msg[o + 4 + 8] = v[8]
        <4>1. 3 \in 1 .. n /\ 4 \in 1 .. n /\ 5 \in 1 .. n /\ 6 \in 1 .. n /\ 7 \in 1 .. n /\ 8 \in 1 .. n
          BY <1>6
        <4> QED BY <1>2, <4>1, Zenon
      <3> QED BY <3>1, <3>2 DEF U8
    <2>7. /\ d.ip = [k \in 1 .. 4 |-> d.ip[k]] /\ d = [port |-> d.port, ip |-> d.ip]
          /\ d.port \div 256 \in Byte /\ d.port % 256 \in Byte
          /\ (d.port \div 256) * 256 + (d.port % 256) = d.port
          /\ \A k \in 1 .. 4 : d.ip[k] \in Byte
      BY AddressFields
    <2>8. CASE y = 1
      <3>1. /\ v[3] = p[1] /\ v[4] = p[2] /\ v[5] = p[3] /\ v[6] = p[4] /\ v[7] = p[5] /\ v[8] = p[6]
        BY <2>5, <2>8
      <3>2. U16(o + 4 + 2) = d.port
        <4>1. U16(o + 4 + 2) = p[1] * 256 + p[2]
          BY <2>6, <3>1, Zenon DEF U16
        <4> QED BY <2>4, <2>7, <4>1, Zenon
      <3>3. ASSUME NEW k \in 1 .. 4 PROVE U8(o + 4 + 3 + k) = d.ip[k]
        <4>1. k \in {1, 2, 3, 4}
          OBVIOUS
        <4> QED BY <2>4, <2>6, <3>1, <4>1, Zenon
      <3>4. [k \in 1 .. 4 |-> U8(o + 4 + 3 + k)] = d.ip
        BY <2>7, <3>3, Zenon
      <3>5. y # 32
        BY <2>8
      <3>6. Address(y, o + 4) = [port |-> U16(o + 4 + 2), ip |-> [k \in 1 .. 4 |-> U8(o + 4 + 3 + k)]]
        BY <3>5, Zenon DEF Address
      <3>7. Address(y, o + 4) = d
        BY <2>7, <3>2, <3>4, <3>6, Zenon
      <3> QED BY <1>1, <1>3, <1>5, <1>6, <2>1, <2>2, <3>7
    <2>9. CASE y = 32
      <3>0. y # 1 /\ MAGIC[1] = 33 /\ MAGIC[2] = 18 /\ MAGIC[3] = 164 /\ MAGIC[4] = 66
        BY <2>9 DEF MAGIC
      <3>1. /\ v[3] = XorByte(p[1], 33) /\ v[4] = XorByte(p[2], 18)
            /\ v[5] = XorByte(p[3], 33) /\ v[6] = XorByte(p[4], 18)
            /\ v[7] = XorByte(p[5], 164) /\ v[8] = XorByte(p[6], 66)
        <4>1. \A k \in 1 .. 6 : v[k + 2] = XorByte(p[k], MAGIC[IF k <= 2 THEN k ELSE k - 2])
          BY <2>5, <3>0
        <4> QED BY <3>0, <4>1
      <3>2. /\ XorByte(v[3], 33) = p[1] /\ XorByte(v[4], 18) = p[2]
            /\ XorByte(v[5], 33) = p[3] /\ XorByte(v[6], 18) = p[4]
            /\ XorByte(v[7], 164) = p[5] /\ XorByte(v[8], 66) = p[6]
        <4>1. p[1] \in Byte /\ p[2] \in Byte /\ p[3] \in Byte /\ p[4] \in Byte /\ p[5] \in Byte
              /\ p[6] \in Byte
          BY <2>4, <2>7
        <4> QED BY <3>1, <4>1, XorTwice
      <3>3. XorByte(U8(o + 4 + 2), 33) * 256 + XorByte(U8(o + 4 + 3), 18) = d.port
        BY <2>4, <2>6, <2>7, <3>2, Zenon
      <3>4. ASSUME NEW k \in 1 .. 4 PROVE XorByte(U8(o + 4 + 3 + k), MAGIC[k]) = d.ip[k]
        <4>1. k = 1 \/ k = 2 \/ k = 3 \/ k = 4
          OBVIOUS
        <4>2. CASE k = 1
          BY <2>4, <2>6, <3>0, <3>2, <4>2, Zenon
        <4>3. CASE k = 2
          BY <2>4, <2>6, <3>0, <3>2, <4>3, Zenon
        <4>4. CASE k = 3
          BY <2>4, <2>6, <3>0, <3>2, <4>4, Zenon
        <4>5. CASE k = 4
          BY <2>4, <2>6, <3>0, <3>2, <4>5, Zenon
        <4> QED BY <4>1, <4>2, <4>3, <4>4, <4>5
      <3>5. [k \in 1 .. 4 |-> XorByte(U8(o + 4 + 3 + k), MAGIC[k])] = d.ip
        BY <2>7, <3>4, Zenon
      <3>6. Address(y, o + 4) =
              [port |-> XorByte(U8(o + 4 + 2), 33) * 256 + XorByte(U8(o + 4 + 3), 18),
               ip |-> [k \in 1 .. 4 |-> XorByte(U8(o + 4 + 3 + k), MAGIC[k])]]
        BY <2>9, Zenon DEF Address
      <3>7. Address(y, o + 4) = d
        BY <2>7, <3>3, <3>5, <3>6, Zenon
      <3> QED BY <1>1, <1>3, <1>5, <1>6, <2>1, <2>2, <3>7
    <2> QED BY <1>6, <2>8, <2>9
  <1>7. CASE ~(y \in {1, 32} /\ n >= 8 /\ v[2] = 1)
    <2>1. x.addr = None
      BY <1>1, <1>7, Zenon DEF Carries
    <2> QED BY <1>1, <1>3, <1>5, <1>7, <2>1
  <1> QED BY <1>6, <1>7

\* The walk is at an attribute of the answer (or past the last), with no mapping
\* before it.
Reached(a, o) == \E k \in 1 .. Len(a) + 1 : o = Position(a, k) /\ \A j \in 1 .. k - 1 : a[j].addr = None

\* The inductive invariant: while it walks, the offset is the position of an
\* attribute; when it has ended, found is the first mapping received.
AtAttribute ==
    /\ answer \in Answers \cup {None}
    /\ pc \in {"bind", "ask", "wait"} => answer = None /\ i = 20
    /\ pc \in {"bind", "ask", "wait", "walk"} => found = None
    /\ answer # None => msg = Cutting(Answer(answer))
    /\ pc = "walk" /\ answer # None => Reached(answer, i)
    /\ pc \in {"push", "done"} /\ answer # None => Ended(answer, msg, found)

\* What was received of an answer has its attributes at their positions, and
\* its end is the end of the walk.
LEMMA ReceivedBytes == ASSUME NEW a \in Answers, NEW m, m = Cutting(Answer(a))
    PROVE  /\ Len(m) \in Nat /\ Len(m) <= Position(a, Len(a) + 1)
           /\ Len(m) >= 20 => /\ m[1] = 1 /\ m[2] = 1
                              /\ Len(m) <= 20 + (m[3] * 256 + m[4])
                              /\ 20 + (m[3] * 256 + m[4]) \in Nat
           /\ \A k \in 1 .. Len(a) : Holds(m, Position(a, k), a[k])
  <1>0. /\ a \in Seq(Attributes) /\ Len(a) \in Nat
        /\ \A k \in 1 .. Len(a) : a[k] \in Attributes
    BY AnswersAre
  <1>1. PICK b : b = Answer(a)
    OBVIOUS
  <1>2. /\ b \in Seq(Nat) /\ Len(b) = Position(a, Len(a) + 1) /\ b[1] = 1 /\ b[2] = 1
        /\ 20 + (b[3] * 256 + b[4]) = Len(b)
        /\ \A k \in 1 .. Len(a) : Holds(b, Position(a, k), a[k])
    BY <1>0, <1>1, AnswerBytes, Zenon
  <1>3. /\ Len(m) \in Nat /\ Len(b) \in Nat /\ Len(m) <= Len(b)
        /\ \A j \in 1 .. Len(m) : m[j] = b[j]
    BY <1>1, <1>2, CutBytes, Zenon
  <1>4. ASSUME Len(m) >= 20
        PROVE  /\ m[1] = 1 /\ m[2] = 1 /\ Len(m) <= 20 + (m[3] * 256 + m[4])
               /\ 20 + (m[3] * 256 + m[4]) \in Nat
    <2>1. 1 \in 1 .. Len(m) /\ 2 \in 1 .. Len(m) /\ 3 \in 1 .. Len(m) /\ 4 \in 1 .. Len(m)
      BY <1>3, <1>4
    <2>2. m[1] = b[1] /\ m[2] = b[2] /\ m[3] = b[3] /\ m[4] = b[4]
      BY <1>3, <2>1, Zenon
    <2> QED BY <1>2, <1>3, <2>2, Zenon
  <1>5. ASSUME NEW k \in 1 .. Len(a) PROVE Holds(m, Position(a, k), a[k])
    <2>1. Position(a, k) \in Nat
      <3>1. k \in 1 .. Len(a) + 1
        BY <1>0
      <3> QED BY <1>0, <3>1, Positions, Zenon
    <2>2. PICK x \in Attributes, o \in Nat : x = a[k] /\ o = Position(a, k) /\ Holds(b, o, x)
      BY <1>0, <1>2, <2>1, Zenon
    <2>3. Holds(m, o, x)
      BY <1>3, <2>2, HoldsCut, Zenon
    <2> QED BY <2>2, <2>3, Zenon
  <1> QED BY <1>2, <1>3, <1>4, <1>5, Zenon

\* One round of the walk over an answer.
LEMMA RoundAt == ASSUME Walkable, ParseMapped, answer \in Answers, answer # None,
                        msg = Cutting(Answer(answer)), found = None, Reached(answer, i)
    PROVE  \/ pc' = "walk" /\ found' = None /\ Reached(answer, i')
           \/ pc' = "push" /\ Ended(answer, msg, found')
  <1>0. pc = "walk" /\ i \in Nat /\ Len(msg) >= 20 /\ Len(msg) \in Nat
    <2>1. pc = "walk"
      BY DEF ParseMapped
    <2> QED BY <2>1, LenProperties DEF Walkable
  <1>1. PICK a \in Answers : a = answer
    OBVIOUS
  <1>2. /\ a \in Seq(Attributes) /\ Len(a) \in Nat
        /\ \A k \in 1 .. Len(a) : a[k] \in Attributes /\ Carries(a[k])
    BY AnswersAre
  <1>3. PICK k \in 1 .. Len(a) + 1 : i = Position(a, k) /\ \A j \in 1 .. k - 1 : a[j].addr = None
    BY <1>1 DEF Reached
  <1>4. /\ Len(msg) <= Position(a, Len(a) + 1)
        /\ Len(msg) <= 20 + (msg[3] * 256 + msg[4]) /\ 20 + (msg[3] * 256 + msg[4]) \in Nat
        /\ \A j \in 1 .. Len(a) : Holds(msg, Position(a, j), a[j])
    BY <1>0, <1>1, ReceivedBytes, Zenon
  <1>5. End = Len(msg)
    <2>1. 20 + U16(2) = 20 + (msg[3] * 256 + msg[4])
      <3>1. 2 + 1 = 3 /\ 2 + 1 + 1 = 4
        OBVIOUS
      <3> QED BY <3>1, Zenon DEF U16, U8
    <2>2. PICK e \in Nat : e = 20 + U16(2) /\ Len(msg) <= e
      BY <1>4, <2>1, Zenon
    <2>3. MinOf(e, Len(msg)) = Len(msg)
      BY <1>0, <2>2 DEF MinOf
    <2> QED BY <2>2, <2>3, Zenon DEF End
  <1>6. CASE i + 4 > Len(msg)
    <2>1. pc' = "push" /\ found' = None
      BY <1>5, <1>6 DEF ParseMapped
    <2>2. Ended(a, msg, None)
      BY <1>0, <1>3, <1>6, NothingLeft
    <2> QED BY <1>1, <2>1, <2>2
  <1>7. CASE i + 4 <= Len(msg)
    <2>1. k \in 1 .. Len(a)
      <3>1. k # Len(a) + 1
        <4>1. Position(a, Len(a) + 1) \in Nat
          <5>1. Len(a) + 1 \in 1 .. Len(a) + 1
            BY <1>2
          <5> QED BY <1>2, <5>1, Positions, Zenon
        <4> QED BY <1>0, <1>3, <1>4, <1>7, <4>1
      <3> QED BY <1>2, <3>1
    <2>2. PICK x \in Attributes : x = a[k]
      BY <1>2, <2>1
    <2>3. Carries(x) /\ Holds(msg, i, x)
      BY <1>2, <1>3, <1>4, <2>1, <2>2, Zenon
    <2>4. PICK n \in Nat : n = Len(x.value)
      BY AttributeFields
    <2>5. U16(i) = x.type /\ U16(i + 2) = n
      <3>1. msg[i + 1] * 256 + msg[i + 2] = x.type /\ msg[i + 3] * 256 + msg[i + 4] = n
        BY <1>7, <2>3, <2>4, Zenon DEF Holds
      <3>2. i + 1 + 1 = i + 2 /\ i + 2 + 1 = i + 3 /\ i + 2 + 1 + 1 = i + 4
        BY <1>0
      <3> QED BY <3>1, <3>2, Zenon DEF U16, U8
    <2>6. ~(i + 4 > End) /\ ~(i + 4 > Len(msg))
      BY <1>0, <1>5, <1>7
    <2>7. IF i + 4 + n > Len(msg) THEN pc' = "push" /\ UNCHANGED <<i, found>>
          ELSE IF IsMapped(x.type, i + 4, n)
               THEN pc' = "push" /\ found' = Address(x.type, i + 4) /\ UNCHANGED i
               ELSE i' = Skip(i + 4, n) /\ UNCHANGED <<pc, found>>
      BY <2>5, <2>6, Zenon DEF ParseMapped
    <2>8. CASE i + 4 + n > Len(msg)
      <3>1. pc' = "push" /\ found' = None
        BY <2>7, <2>8
      <3>2. k <= Len(a) /\ Position(a, k) + 4 + Len(a[k].value) > Len(msg)
        <4>1. k <= Len(a)
          BY <1>2, <2>1
        <4> QED BY <1>3, <2>2, <2>4, <2>8, <4>1, Zenon
      <3>3. Ended(a, msg, None)
        BY <1>0, <1>3, <3>2, NothingLeft, Zenon
      <3> QED BY <1>1, <3>1, <3>3
    <2>9. CASE ~(i + 4 + n > Len(msg))
      <3>0. i + 4 + n <= Len(msg)
        BY <1>0, <2>9
      <3>1. /\ IsMapped(x.type, i + 4, n) <=> x.addr # None
            /\ x.addr # None => Address(x.type, i + 4) = x.addr
        <4>1. i + 4 + Len(x.value) <= Len(msg)
          BY <2>4, <3>0
        <4>2. /\ IsMapped(x.type, i + 4, Len(x.value)) <=> x.addr # None
              /\ x.addr # None => Address(x.type, i + 4) = x.addr
          BY <1>0, <2>3, <4>1, ReadsAddress
        <4> QED BY <2>4, <4>2, Zenon
      <3>2. CASE x.addr # None
        <4>1. pc' = "push" /\ found' = a[k].addr
          BY <2>2, <2>7, <2>9, <3>1, <3>2, Zenon
        <4>2. Position(a, k) + 4 + Len(a[k].value) <= Len(msg)
          BY <1>3, <2>2, <2>4, <3>0, Zenon
        <4>3. a[k].addr # None
          BY <2>2, <3>2
        <4>4. Ended(a, msg, a[k].addr)
          BY <1>3, <2>1, <4>2, <4>3, FirstMapping, Zenon
        <4> QED BY <1>1, <4>1, <4>4, Zenon
      <3>3. CASE x.addr = None
        <4>1. i' = i + 4 + n + Pad(n) /\ pc' = "walk" /\ found' = None
          <5>1. i' = Skip(i + 4, n) /\ UNCHANGED <<pc, found>>
            BY <2>7, <2>9, <3>1, <3>3, Zenon
          <5> QED BY <1>0, <5>1 DEF Skip
        <4>2. Position(a, k + 1) = i + 4 + n + Pad(n)
          <5>1. Position(a, k + 1) = Position(a, k) + 4 + Len(a[k].value) + Pad(Len(a[k].value))
            BY <1>2, <2>1, Positions, Zenon
          <5> QED BY <1>3, <2>2, <2>4, <5>1, Zenon
        <4>3. PICK q \in 1 .. Len(a) + 1 : q = k + 1
          BY <1>2, <2>1
        <4>4. \A j \in 1 .. q - 1 : a[j].addr = None
          <5>1. ASSUME NEW j \in 1 .. q - 1 PROVE a[j].addr = None
            <6>1. j = k \/ j \in 1 .. k - 1
              BY <1>2, <4>3
            <6> QED BY <1>3, <2>2, <3>3, <6>1
          <5> QED BY <5>1
        <4>5. PICK o : o = i'
          OBVIOUS
        <4>6. Reached(a, o)
          BY <4>1, <4>2, <4>3, <4>4, <4>5, Zenon DEF Reached
        <4> QED BY <1>1, <4>1, <4>5, <4>6, Zenon
      <3> QED BY <3>2, <3>3
    <2> QED BY <2>8, <2>9
  <1> QED BY <1>0, <1>6, <1>7

\* Every step of gather_candidates keeps the walk at an attribute.
LEMMA AtAttributeNext == Walkable /\ AtAttribute /\ [Next]_vars => AtAttribute'
  <1> SUFFICES ASSUME Walkable, AtAttribute, [Next]_vars PROVE AtAttribute'
    OBVIOUS
  <1>1. CASE GatherCandidates
    BY <1>1 DEF GatherCandidates, AtAttribute
  <1>2. CASE StunBinding
    BY <1>2 DEF StunBinding, AtAttribute
  <1>3. CASE RecvFrom
    <2>1. pc = "wait" /\ answer = None /\ i = 20 /\ found = None /\ UNCHANGED <<i, found>>
      BY <1>3 DEF RecvFrom, AtAttribute
    <2>2. CASE pc' = "push" /\ UNCHANGED <<answer, msg>>
      BY <2>1, <2>2 DEF AtAttribute
    <2>3. CASE /\ FirstDatagram
               /\ pc' = IF Len(msg') >= 20 /\ msg'[1] = 1 /\ msg'[2] = 1 THEN "walk" ELSE "push"
      <3>1. CASE \E m \in Strays : answer' = None /\ msg' = Cutting(m)
        BY <2>1, <2>3, <3>1 DEF AtAttribute
      <3>2. ASSUME NEW a \in Answers, answer' = a, msg' = Cutting(Answer(a)) PROVE AtAttribute'
        <4>1. PICK m : m = msg'
          OBVIOUS
        <4>2. m = Cutting(Answer(a))
          BY <3>2, <4>1
        <4>3. /\ Len(m) \in Nat /\ Len(m) <= Position(a, Len(a) + 1)
              /\ Len(m) >= 20 => m[1] = 1 /\ m[2] = 1
          BY <4>2, ReceivedBytes, Zenon
        <4>4. a \in Seq(Attributes) /\ Len(a) \in Nat
          BY AnswersAre
        <4>5. Position(a, 1) = 20
          BY <4>4, Positions, Zenon
        <4>6. 1 \in 1 .. Len(a) + 1 /\ 1 .. 1 - 1 = {}
          BY <4>4
        <4>7. CASE Len(m) >= 20
          <5>1. pc' = "walk"
            BY <2>3, <4>1, <4>3, <4>7
          <5>2. Reached(a, 20)
            BY <4>5, <4>6, Zenon DEF Reached
          <5>3. answer' = a /\ msg' = Cutting(Answer(a)) /\ i' = 20 /\ found' = None
            BY <2>1, <3>2
          <5> QED BY <5>1, <5>2, <5>3 DEF AtAttribute
        <4>8. CASE Len(m) < 20
          <5>1. pc' = "push"
            BY <2>3, <4>1, <4>3, <4>8
          <5>2. Ended(a, m, None)
            <6>1. Position(a, 1) + 4 > Len(m) /\ \A j \in 1 .. 1 - 1 : a[j].addr = None
              BY <4>3, <4>5, <4>6, <4>8
            <6> QED BY <4>3, <4>6, <6>1, NothingLeft, Zenon
          <5>3. answer' = a /\ msg' = Cutting(Answer(a)) /\ msg' = m /\ found' = None
            BY <2>1, <3>2, <4>1
          <5>4. Ended(answer', msg', found')
            BY <5>2, <5>3, Zenon
          <5> QED BY <5>1, <5>3, <5>4 DEF AtAttribute
        <4> QED BY <4>3, <4>7, <4>8
      <3>3. \/ \E a \in Answers : answer' = a /\ msg' = Cutting(Answer(a))
            \/ \E m \in Strays : answer' = None /\ msg' = Cutting(m)
        BY <2>3, Zenon DEF FirstDatagram, Cutting
      <3> QED BY <3>1, <3>2, <3>3, Zenon
    <2> QED BY <1>3, <2>2, <2>3 DEF RecvFrom
  <1>4. CASE ParseMapped
    <2>1. UNCHANGED <<answer, msg>> /\ pc = "walk" /\ found = None
      BY <1>4 DEF ParseMapped, AtAttribute
    <2>2. CASE answer = None
      <3>1. pc' = "push" \/ (pc' = "walk" /\ found' = found) \/ pc' = "panic"
        BY <1>4, Zenon DEF ParseMapped
      <3> QED BY <2>1, <2>2, <3>1 DEF AtAttribute
    <2>3. CASE answer # None
      <3>1. answer \in Answers /\ msg = Cutting(Answer(answer)) /\ Reached(answer, i)
        BY <2>1, <2>3 DEF AtAttribute
      <3>2. \/ pc' = "walk" /\ found' = None /\ Reached(answer, i')
            \/ pc' = "push" /\ Ended(answer, msg, found')
        BY <1>4, <2>1, <2>3, <3>1, RoundAt
      <3> QED BY <2>1, <2>3, <3>1, <3>2 DEF AtAttribute
    <2> QED BY <2>2, <2>3
  <1>5. CASE Push
    BY <1>5 DEF Push, AtAttribute
  <1>6. CASE UNCHANGED vars
    BY <1>6 DEF vars, AtAttribute
  <1> QED BY <1>1, <1>2, <1>3, <1>4, <1>5, <1>6 DEF Next

\* Whatever attributes the server puts around it and wherever the buffer cuts
\* the answer, parse_mapped returns the address of the first IPv4 mapping that
\* was received whole, and none if there is none.
THEOREM FirstMappingFound == Spec => []FindsFirstMapping
  <1>1. Init => Walkable /\ AtAttribute
    <2> SUFFICES ASSUME Init PROVE Walkable /\ AtAttribute
      OBVIOUS
    <2>1. Walkable
      BY WalkableInit
    <2>2. AtAttribute
      BY DEF Init, AtAttribute
    <2> QED BY <2>1, <2>2
  <1>2. (Walkable /\ AtAttribute) /\ [Next]_vars => (Walkable /\ AtAttribute)'
    BY WalkableNext, AtAttributeNext
  <1>3. Walkable /\ AtAttribute => FindsFirstMapping
    <2> SUFFICES ASSUME AtAttribute, pc \in {"push", "done"}, answer # None
                 PROVE  LET ks == {k \in DOMAIN answer : answer[k].addr # None /\ Received(k)} IN
                        IF ks = {} THEN found = None
                        ELSE \E k \in ks : (\A m \in ks : k <= m) /\ found = answer[k].addr
      BY Zenon DEF FindsFirstMapping
    <2>1. answer \in Answers /\ Ended(answer, msg, found)
      BY DEF AtAttribute
    <2>2. /\ answer \in Seq(Attributes) /\ Len(answer) \in Nat
          /\ DOMAIN answer = 1 .. Len(answer)
      BY <2>1, AnswersAre
    <2>3. ASSUME NEW k \in DOMAIN answer
          PROVE  Received(k) <=> Position(answer, k) + 4 + Len(answer[k].value) <= Len(msg)
      <3>1. k \in 1 .. Len(answer) + 1
        BY <2>2
      <3>2. Body(SubSeq(answer, 1, k - 1)) = Upto(answer)[k - 1]
        BY <2>2, <3>1, BodyOfPrefix
      <3> QED BY <3>2, Zenon DEF Received, Position
    <2>4. {k \in DOMAIN answer : answer[k].addr # None /\ Received(k)}
            = {k \in DOMAIN answer : /\ answer[k].addr # None
                                     /\ Position(answer, k) + 4 + Len(answer[k].value) <= Len(msg)}
      BY <2>3, Zenon
    <2> QED BY <2>1, <2>4, Zenon DEF Ended
  <1> QED BY <1>1, <1>2, <1>3, PTL DEF Spec

-----------------------------------------------------------------------------
\* Frame::encode and Frame::decode.

\* A channel is its two bytes, big-endian.
LEMMA Bytes16 == ASSUME NEW c \in u16
                 PROVE  /\ c \div 256 \in u8 /\ c % 256 \in u8
                        /\ (c \div 256) * 256 + (c % 256) = c
  <1> DEFINE q == c \div 256
             r == c % 256
  <1>1. c \in Nat /\ c <= 65535
    BY SMT DEF u16
  <1>2. q \in Nat /\ r \in u8 /\ c = q * 256 + r
    BY <1>1, LowByte
  <1> HIDE DEF q, r
  <1>3. q \in u8
    BY <1>1, <1>2, SMT DEF u8
  <1>4. q * 256 + r = c
    BY <1>2
  <1> QED BY <1>2, <1>3, <1>4 DEF q, r

\* A sequence number is its four bytes, big-endian.
LEMMA Bytes32 == ASSUME NEW s \in u32
                 PROVE  /\ s \div 16777216 \in u8 /\ (s \div 65536) % 256 \in u8
                        /\ (s \div 256) % 256 \in u8 /\ s % 256 \in u8
                        /\ (s \div 16777216) * 16777216 + ((s \div 65536) % 256) * 65536
                           + ((s \div 256) % 256) * 256 + (s % 256) = s
  <1> DEFINE q1 == s \div 256
             q2 == q1 \div 256
             q3 == q2 \div 256
             r0 == s % 256
             r1 == q1 % 256
             r2 == q2 % 256
  <1>1. s \in Nat /\ s \div 16777216 \in u8
    BY DEF u32
  <1>2. q1 \in Nat /\ r0 \in u8 /\ s = q1 * 256 + r0
    BY <1>1, LowByte
  <1>3. q2 \in Nat /\ r1 \in u8 /\ q1 = q2 * 256 + r1
    BY <1>2, LowByte
  <1>4. q3 \in Nat /\ r2 \in u8 /\ q2 = q3 * 256 + r2
    BY <1>3, LowByte
  <1>5. q2 = s \div 65536 /\ q3 = s \div 16777216
    BY <1>1, SMT
  <1> HIDE DEF q1, q2, q3, r0, r1, r2
  <1>6. q3 \in u8 /\ q3 * 16777216 + r2 * 65536 + r1 * 256 + r0 = s
    BY <1>1, <1>2, <1>3, <1>4, <1>5, SMT DEF u8
  <1>7. r2 = (s \div 65536) % 256 /\ r1 = (s \div 256) % 256 /\ r0 = s % 256
    BY <1>5 DEF r0, r1, r2, q1
  <1> QED BY <1>2, <1>3, <1>4, <1>5, <1>6, <1>7

\* The header is made of bytes.
LEMMA HeaderBytes == ASSUME NEW f \in Frame
                     PROVE  Header(f) \in Seq(u8) /\ Len(Header(f)) = 9
  BY Bytes16, Bytes32, SMT DEF Header, Frame, VERSION, u8

\* What a header of nine elements and a payload are when put together.
LEMMA Prefixed == ASSUME NEW S, NEW h \in Seq(S), NEW p \in Seq(S), Len(h) = 9
                  PROVE  /\ h \o p \in Seq(S) /\ Len(h \o p) = 9 + Len(p) /\ Len(p) \in Nat
                         /\ \A k \in 1 .. 9 : (h \o p)[k] = h[k]
                         /\ SubSeq(h \o p, 10, Len(h \o p)) = p
  <1> DEFINE b == h \o p
             t == SubSeq(b, 10, 9 + Len(p))
  <1>0. /\ b \in Seq(S) /\ Len(b) = Len(h) + Len(p)
        /\ \A k \in 1 .. Len(h) + Len(p) : b[k] = IF k <= Len(h) THEN h[k] ELSE p[k - Len(h)]
    BY ConcatProperties, Zenon
  <1>1. b \in Seq(S) /\ Len(b) = 9 + Len(p) /\ Len(p) \in Nat
    BY <1>0, LenProperties
  <1>2. \A k \in 1 .. 9 + Len(p) : b[k] = IF k <= 9 THEN h[k] ELSE p[k - 9]
    BY <1>0
  <1> HIDE DEF b
  <1>3. \A k \in 10 .. 9 + Len(p) : b[k] \in S
    BY <1>1, ElementOfSeq, SMT
  <1>4. /\ t \in Seq(S) /\ Len(t) = (IF 10 <= 9 + Len(p) THEN 9 + Len(p) - 10 + 1 ELSE 0)
        /\ \A k \in 1 .. 9 + Len(p) - 10 + 1 : t[k] = b[10 + k - 1]
    <2>1. 10 \in Int /\ 9 + Len(p) \in Int
      BY <1>1, SMT
    <2> QED BY <1>3, <2>1, SubSeqProperties
  <1> HIDE DEF t
  <1>5. Len(t) = Len(p) /\ \A k \in 1 .. Len(t) : t[k] = p[k]
    BY <1>1, <1>2, <1>4, SMT
  <1>6. t = p
    BY <1>4, <1>5, SeqEqual
  <1>7. \A k \in 1 .. 9 : b[k] = h[k]
    BY <1>1, <1>2, SMT
  <1> QED BY <1>1, <1>6, <1>7 DEF t, b

\* decode undoes encode, whatever the fields and however long the payload: the
\* byte order and the offsets of the nine header bytes agree.
THEOREM FrameRoundTrip == \A f \in Frame : encode(f) \in Seq(u8) /\ decode(encode(f)) = f
  <1> SUFFICES ASSUME NEW f \in Frame PROVE encode(f) \in Seq(u8) /\ decode(encode(f)) = f
    OBVIOUS
  <1> DEFINE h == Header(f)
             p == f.payload
             b == h \o p
  <1>1. p \in Seq(u8) /\ f.channel \in u16 /\ f.seq \in u32
    BY DEF Frame
  <1>2. h \in Seq(u8) /\ Len(h) = 9
    BY HeaderBytes
  <1>3. /\ h[1] = VERSION /\ h[2] = f.service /\ h[3] * 256 + h[4] = f.channel /\ h[5] = f.flags
        /\ U32(h[6], h[7], h[8], h[9]) = f.seq
    BY <1>1, Bytes16, Bytes32, SMT DEF Header, U32
  <1> HIDE DEF h, p
  <1>4. /\ b \in Seq(u8) /\ Len(b) = 9 + Len(p) /\ Len(p) \in Nat
        /\ \A k \in 1 .. 9 : b[k] = h[k]
        /\ SubSeq(b, 10, Len(b)) = p
    BY <1>1, <1>2, Prefixed
  <1> HIDE DEF b
  <1>5. /\ b[1] = VERSION /\ b[2] = f.service /\ b[3] * 256 + b[4] = f.channel /\ b[5] = f.flags
        /\ U32(b[6], b[7], b[8], b[9]) = f.seq
    <2>1. /\ b[1] = h[1] /\ b[2] = h[2] /\ b[3] = h[3] /\ b[4] = h[4] /\ b[5] = h[5]
          /\ b[6] = h[6] /\ b[7] = h[7] /\ b[8] = h[8] /\ b[9] = h[9]
      BY <1>4, SMT
    <2> QED BY <1>3, <2>1
  <1>6. ~(Len(b) < HEADER_LEN \/ b[1] # VERSION) /\ HEADER_LEN + 1 = 10
    BY <1>4, <1>5, SMT DEF HEADER_LEN
  <1>7. decode(b) = [service |-> f.service, channel |-> f.channel, flags |-> f.flags,
                     seq |-> f.seq, payload |-> p]
    <2>1. decode(b) = Parse(b)
      BY <1>6 DEF decode
    <2>2. Parse(b) = [service |-> f.service, channel |-> f.channel, flags |-> f.flags,
                      seq |-> f.seq, payload |-> p]
      BY <1>4, <1>5, <1>6, Zenon DEF Parse
    <2> QED BY <2>1, <2>2
  <1>8. f = [service |-> f.service, channel |-> f.channel, flags |-> f.flags,
              seq |-> f.seq, payload |-> f.payload]
    BY DEF Frame
  <1>9. encode(f) = b
    BY DEF encode, h, p, b
  <1> QED BY <1>4, <1>7, <1>8, <1>9 DEF p
=============================================================================
