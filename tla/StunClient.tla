----------------------------- MODULE StunClient -----------------------------
(***************************************************************************)
(* gather_candidates (transport/punch.rs) and the STUN client it asks for  *)
(* the reflexive address (nat/stun.rs): one request, one datagram read --  *)
(* the first that comes, up to 512 bytes of it -- and a walk over its      *)
(* attributes.  Bytes are kept: the walk is arithmetic on lengths that the *)
(* datagram itself states.  A slice index out of range panics.             *)
(***************************************************************************)
EXTENDS Integers, Sequences, FiniteSets

CONSTANTS Answers,   \* the server's answers: sequences of [type, value, addr]
          Strays,    \* other datagrams that may arrive on the socket
          Buffer,    \* size of the receive buffer, 512 in the code
          None

\* An attribute's addr is the address it is meant to carry, None if it carries
\* no IPv4 address.
Byte == 0 .. 255
Word == 0 .. 65535
Addresses == [port : Word, ip : [1 .. 4 -> Byte]]
Attributes == [type : Word, value : Seq(Byte), addr : Addresses \cup {None}]
Pad(n) == (4 - (n % 4)) % 4

MAGIC == <<33, 18, 164, 66>>   \* 0x2112A442

\* Exclusive or of two bytes.
XorByte(a, b) ==
    LET bit(p) == ((a \div p) + (b \div p)) % 2 IN
    bit(1) + 2 * bit(2) + 4 * bit(4) + 8 * bit(8)
    + 16 * bit(16) + 32 * bit(32) + 64 * bit(64) + 128 * bit(128)

\* The bytes of an address, as MAPPED-ADDRESS carries them.
Plain(addr) == <<addr.port \div 256, addr.port % 256>> \o addr.ip

\* MAPPED-ADDRESS (1) and XOR-MAPPED-ADDRESS (32) carry an IPv4 address in bytes
\* 3 to 8 of their value, the latter combined with the magic cookie.
Carries(a) ==
    IF a.type \in {1, 32} /\ Len(a.value) >= 8 /\ a.value[2] = 1
    THEN /\ a.addr # None
         /\ \A k \in 1 .. 6 : a.value[k + 2] =
               IF a.type = 1 THEN Plain(a.addr)[k]
               ELSE XorByte(Plain(a.addr)[k], MAGIC[IF k <= 2 THEN k ELSE k - 2])
    ELSE a.addr = None

ASSUME BufferAssumption == Buffer \in Nat
ASSUME StrayAssumption == Strays \subseteq Seq(Byte)
ASSUME AttributeAssumption ==
    /\ Answers \subseteq Seq(Attributes)
    /\ \A attrs \in Answers : \A k \in DOMAIN attrs : Carries(attrs[k])

\* The answer as bytes: a header of 20, then the attributes, padded.
Tlv(a) == <<a.type \div 256, a.type % 256, Len(a.value) \div 256, Len(a.value) % 256>>
          \o a.value \o [k \in 1 .. Pad(Len(a.value)) |-> 0]
Upto(attrs) == LET u[k \in 0 .. Len(attrs)] ==
                      IF k = 0 THEN <<>> ELSE u[k - 1] \o Tlv(attrs[k])
               IN u
Body(attrs) == Upto(attrs)[Len(attrs)]
Answer(attrs) == <<1, 1, Len(Body(attrs)) \div 256, Len(Body(attrs)) % 256>>
              \o [k \in 1 .. 16 |-> 0] \o Body(attrs)

ASSUME AnswerAssumption == \A attrs \in Answers : Answer(attrs) \in Seq(Byte)

VARIABLES pc,      \* "bind", "ask", "wait", "walk", "push", "done" or "panic"
          host,    \* the address of the identity is known
          answer,  \* the attributes of the answer, None if a stray was read
          msg,     \* the datagram as far as it was received
          i,       \* offset of the attribute the walk is at
          found,   \* the result of stun_binding
          cands    \* the candidates gathered

vars == <<pc, host, answer, msg, i, found, cands>>

-----------------------------------------------------------------------------
U8(j) == msg[j + 1]
U16(j) == U8(j) * 256 + U8(j + 1)
MinOf(a, b) == IF a < b THEN a ELSE b

\* The address in the value at offset v.
Address(type, v) ==
    IF type = 32
    THEN [port |-> XorByte(U8(v + 2), 33) * 256 + XorByte(U8(v + 3), 18),
          ip |-> [k \in 1 .. 4 |-> XorByte(U8(v + 3 + k), MAGIC[k])]]
    ELSE [port |-> U16(v + 2), ip |-> [k \in 1 .. 4 |-> U8(v + 3 + k)]]

\* XOR-MAPPED-ADDRESS or MAPPED-ADDRESS of an IPv4 address.
IsMapped(type, v, n) == type \in {32, 1} /\ n >= 8 /\ U8(v + 1) = 1

\* Mutant: the length in the header is believed.
EndStated == 20 + U16(2)

End == MinOf(20 + U16(2), Len(msg))

\* Mutants: without the padding; without the attribute's own header.
SkipPacked(v, n) == v + n
SkipValue(v, n) == v - 4 + n + Pad(n)

\* The attribute after the one whose value, of n bytes, is at v.
Skip(v, n) == v + n + Pad(n)

-----------------------------------------------------------------------------
\* gather_candidates: a socket, and the host candidate.
GatherCandidates ==
    /\ pc = "bind"
    /\ \/ pc' = "done" /\ UNCHANGED cands               \* bind failed
       \/ /\ cands' = IF host THEN {[kind |-> "host", addr |-> None]} ELSE cands
          /\ \/ pc' = "ask"
             \/ pc' = "done"                            \* the server's name does not resolve
    /\ UNCHANGED <<host, answer, msg, i, found>>

\* stun_binding: the request is sent, or not.
StunBinding ==
    /\ pc = "ask" /\ pc' \in {"wait", "push"}
    /\ UNCHANGED <<host, answer, msg, i, found, cands>>

\* The first datagram on the socket, from whomever, cut to the buffer.
FirstDatagram ==
    LET Cut(m) == SubSeq(m, 1, MinOf(Buffer, Len(m))) IN
    \/ \E attrs \in Answers : answer' = attrs /\ msg' = Cut(Answer(attrs))
    \/ \E m \in Strays : answer' = None /\ msg' = Cut(m)

\* recv_from times out, or parse_mapped looks at length and type.
RecvFrom ==
    /\ pc = "wait"
    /\ \/ pc' = "push" /\ UNCHANGED <<answer, msg>>
       \/ /\ FirstDatagram
          /\ pc' = IF Len(msg') >= 20 /\ msg'[1] = 1 /\ msg'[2] = 1 THEN "walk" ELSE "push"
    /\ UNCHANGED <<host, i, found, cands>>

\* parse_mapped: one round of the loop.
ParseMapped ==
    LET n == U16(i + 2)
        v == i + 4 IN
    /\ pc = "walk"
    /\ IF i + 4 > End THEN pc' = "push" /\ UNCHANGED <<i, found>>
       ELSE IF i + 4 > Len(msg) THEN pc' = "panic" /\ UNCHANGED <<i, found>>
       ELSE IF v + n > Len(msg) THEN pc' = "push" /\ UNCHANGED <<i, found>>
       ELSE IF IsMapped(U16(i), v, n) THEN pc' = "push" /\ found' = Address(U16(i), v) /\ UNCHANGED i
       ELSE i' = Skip(v, n) /\ UNCHANGED <<pc, found>>
    /\ UNCHANGED <<host, answer, msg, cands>>

\* gather_candidates: the reflexive candidate; with none at all there is no
\* socket to punch from.
Push ==
    /\ pc = "push" /\ pc' = "done"
    /\ cands' = IF found = None THEN cands ELSE cands \cup {[kind |-> "srflx", addr |-> found]}
    /\ UNCHANGED <<host, answer, msg, i, found>>

Init ==
    /\ pc = "bind" /\ host \in BOOLEAN /\ answer = None /\ msg = <<>>
    /\ i = 20 /\ found = None /\ cands = {}

Next == GatherCandidates \/ StunBinding \/ RecvFrom \/ ParseMapped \/ Push

Spec == Init /\ [][Next]_vars

\* Every step is a thread's own, and recv_from has a timeout.
FairSpec == Spec /\ WF_vars(Next)

-----------------------------------------------------------------------------
\* Properties.

\* Types of the datagram and the offset; what may be found is the subject of
\* FindsFirstMapping.
TypeOK ==
    /\ pc \in {"bind", "ask", "wait", "walk", "push", "done", "panic"} /\ host \in BOOLEAN
    /\ answer \in Answers \cup {None} /\ msg \in Seq(Byte) /\ i \in Nat

\* No datagram, however its lengths contradict each other, makes the walk read
\* past what was received.
NoPanic == pc # "panic"

\* Attribute k was received whole.
Received(k) ==
    20 + Len(Body(SubSeq(answer, 1, k - 1))) + 4 + Len(answer[k].value) <= Len(msg)

\* The address gathered is that of the first IPv4 mapping the server's answer
\* holds, whatever comes before it and though the buffer cuts the answer short.
FindsFirstMapping ==
    pc \in {"push", "done"} /\ answer # None =>
        LET ks == {k \in DOMAIN answer : answer[k].addr # None /\ Received(k)} IN
        IF ks = {} THEN found = None
        ELSE \E k \in ks : (\A m \in ks : k <= m) /\ found = answer[k].addr

\* A round of the walk that does not end it moves on, by a header at least, to
\* an offset at most the padding past the end of what was received.
Advances == [][pc = "walk" /\ pc' = "walk" => i' >= i + 4 /\ i' <= Len(msg) + 3]_vars

\* Gathering comes to an end.
GatherEnds == <>(pc = "done")
=============================================================================
