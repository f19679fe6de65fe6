----------------------------- MODULE BCASPacket -----------------------------
(***************************************************************************)
(* The format of the packets in a B-CAS byte stream, as the macros of      *)
(* lib/bcas_stream.c read it: a header whose last byte is the length of    *)
(* the payload, the payload, and a checksum.                               *)
(***************************************************************************)
EXTENDS Integers, Sequences

CONSTANTS
    ByteCount,      \* number of values of a guint8, 256 in the source
    HeaderSize,     \* PACKET_HEADER_SIZE, the length byte is the last of them
    Command,        \* the command of an ECM request, the start of its payload
    MinSize,        \* PACKET_MIN_SIZE
    XorByte(_, _),  \* exclusive or of two bytes
    Streams         \* the byte streams the reader may feed

Byte == 0 .. ByteCount - 1

\* The offset of a payload's data: PACKET_COMMAND_INDEX + 4 in the source.
CommandEnd == HeaderSize + Len(Command)

ASSUME SizesAssumption ==
    /\ HeaderSize \in Nat \ {0}
    /\ Command \in Seq(Byte) /\ Len(Command) > 0
    /\ MinSize \in Nat /\ MinSize > CommandEnd
    /\ ByteCount \in Nat /\ ByteCount > MinSize

ASSUME StreamsAssumption == Streams \subseteq Seq(Byte)

Packet == [at : Nat, bytes : Seq(Byte), first : BOOLEAN]

-----------------------------------------------------------------------------
(* Reading packets.  Offsets count from 0 as in C, sequences from 1.       *)

\* IS_ECM_REQUEST at offset k of s.
IsEcmRequest(s, k) ==
    \A i \in 1 .. Len(Command) : s[k + HeaderSize + i] = Command[i]

\* The length byte of a packet at offset k of s.
PayloadLen(s, k) == s[k + HeaderSize]

\* What a packet at offset k takes: header, payload and checksum.
PacketSize(s, k) == HeaderSize + PayloadLen(s, k) + 1

\* The same sum in the guint8 the source keeps it in.
ByteSize(s, k) == PacketSize(s, k) % ByteCount

XorOf(s) ==
    LET x[i \in 0 .. Len(s)] == IF i = 0 THEN 0 ELSE XorByte(x[i - 1], s[i])
    IN  x[Len(s)]

\* Header and payload of the packet at offset k.
Body(s, k) == SubSeq(s, k + 1, k + HeaderSize + PayloadLen(s, k))

\* How far the parser goes on after a delivered packet, and where it ends.
Extent(q) == (Len(q.bytes) + 1) % ByteCount
End(q)    == q.at + Extent(q)

\* Packets whose size does not fit in the guint8 the parser keeps it in.
Long(q) == Len(q.bytes) + 1 >= ByteCount
=============================================================================
