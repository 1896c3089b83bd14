---------------------------- MODULE MCWire ----------------------------
(* The two parsers: StunClient for answers of up to three attributes, some   *)
(* of which do not fit the buffer, and for datagrams whose lengths are       *)
(* wrong; FrameCodec for a few thousand frames and byte strings.             *)
EXTENDS StunClient, FrameCodec, Bitwise

\* 203.0.113.7:40000
Seen == [port |-> 40000, ip |-> <<203, 0, 113, 7>>]

Attr(type, value, addr) == [type |-> type, value |-> value, addr |-> addr]
Zeros(n) == [k \in 1 .. n |-> 0]

Mapped == Attr(1, <<0, 1, 40000 \div 256, 40000 % 256>> \o Seen.ip, Seen)
XorMapped == Attr(32, LET port == 40000 ^^ 8466     \* 0x2112
                      IN <<0, 1, port \div 256, port % 256>>
                         \o [k \in 1 .. 4 |-> Seen.ip[k] ^^ MAGIC[k]],
                  Seen)
Mapped6 == Attr(32, <<0, 2>> \o Zeros(18), None)
Short == Attr(1, <<0, 1, 5, 5>>, None)
Software == {Attr(32802, Zeros(n), None) : n \in {0, 1, 3, 6}}

SeqsUpTo(S, n) == UNION {[1 .. k -> S] : k \in 0 .. n}
MCAnswers == SeqsUpTo({Mapped, XorMapped, Mapped6, Short} \cup Software, 3)

MCStrays ==
    {<<>>, Zeros(19), Zeros(24)}
    \cup {<<1, 1, 0, len>> \o Zeros(16) \o body :
             len \in {0, 3, 8, 60}, body \in SeqsUpTo({0, 1, 8}, 5)}

Edges == {0, 1, 255}
SmallFrames ==
    [service : Edges, channel : {0, 255, 256, 65535}, flags : Edges,
     seq : {0, 255, 256, 65536, 16777215, 16777216, 2147483647}, payload : SeqsUpTo({0, 2}, 2)]

\* encode and decode are each other's inverse, and decode rejects what is too
\* short or of another version.
ASSUME FramesChecked ==
    /\ \A f \in SmallFrames : decode(encode(f)) = f
    /\ \A b \in {Zeros(n) : n \in 0 .. 10} \cup {<<2>> \o Zeros(n) : n \in 0 .. 10} :
          IF Len(b) >= 9 /\ b[1] = 2 THEN encode(decode(b)) = b ELSE decode(b) = NoFrame
=============================================================================
