----------------------------- MODULE FrameCodec -----------------------------
(***************************************************************************)
(* The v2 frame (wire/frame.rs): a header of 9 bytes, big-endian, and the  *)
(* payload.  Frames are records of bounded numbers, messages sequences of  *)
(* bytes.                                                                  *)
(***************************************************************************)
EXTENDS Integers, Sequences

u8 == 0 .. 255
u16 == 0 .. 65535
u32 == {n \in Nat : n \div 16777216 \in u8}

VERSION == 2
HEADER_LEN == 9

Frame == [service : u8, channel : u16, flags : u8, seq : u32, payload : Seq(u8)]
NoFrame == <<>>

Header(f) == <<VERSION, f.service, f.channel \div 256, f.channel % 256, f.flags,
               f.seq \div 16777216, (f.seq \div 65536) % 256, (f.seq \div 256) % 256, f.seq % 256>>

encode(f) == Header(f) \o f.payload

\* u32::from_be_bytes.
U32(a, b, c, d) == a * 16777216 + b * 65536 + c * 256 + d

Parse(b) == [service |-> b[2], channel |-> b[3] * 256 + b[4], flags |-> b[5],
             seq |-> U32(b[6], b[7], b[8], b[9]),
             payload |-> SubSeq(b, HEADER_LEN + 1, Len(b))]

decode(b) == IF Len(b) < HEADER_LEN \/ b[1] # VERSION THEN NoFrame ELSE Parse(b)

is_datagram(f) == f.flags % 2 = 1
=============================================================================
