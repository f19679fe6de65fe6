---------------------------- MODULE MCBCASStream ----------------------------
(***************************************************************************)
(* The parser on a scaled-down packet format: bytes of 3 bits, one header  *)
(* byte, which is the length, and a command of one byte.  A request is     *)
(* <<2, 5, data, checksum>>, and 4 bytes are the least the parser looks    *)
(* at, as the 26 bytes of PACKET_MIN_SIZE are in the source.               *)
(***************************************************************************)
EXTENDS BCASStream, FiniteSets, SequencesExt, Bitwise

MCByteCount  == 8
MCHeaderSize == 1
MCCommand    == <<5>>
MCMinSize    == 4

\* A table, because the operator is evaluated bit by bit.
XorTable        == [a \in 0 .. 7, b \in 0 .. 7 |-> a ^^ b]
MCXorByte(a, b) == XorTable[a, b]

\* Appends the right checksum, or a wrong one.
Sealed(s) == Append(s, FoldLeft(MCXorByte, 0, s))
Broken(s) == Append(s, MCXorByte(FoldLeft(MCXorByte, 0, s), 1))

Request(a)  == Sealed(<<2, 5, a>>)
Response(b) == Sealed(<<3, 1, b, 0>>)

\* What comes between two ends of a stream: sound packets of every kind, a
\* corrupted request, a corrupted response, a packet shorter than MinSize
\* and one whose length byte was hit.
Segments == {Request(1), Response(3), Sealed(<<1, 2>>),
             Broken(<<2, 5, 1>>), Broken(<<3, 1, 0, 0>>), <<0, 5, 1, 6>>}

\* The middle of a packet, as a reader that starts late sees it.
Noise == {<< >>, <<3>>, <<4, 1>>}

MCStreams ==
    {n \o Request(1) \o s1 \o s2 \o s3 :
        n \in Noise, s1, s2, s3 \in Segments}

\* Any nonsense: every stream of 8 bytes over a length, a command and a zero.
Garbage == [1 .. 8 -> {0, 2, 5}]

\* Packets whose size wraps to 0, a response with a checksum that fits behind
\* Request(1) and one without, and a request; and one whose size wraps to 1.
Wrapping == {<<6, 0, 0, 0, 0, 0, 0, 0>>, <<6, 1, 0, 0, 0, 0, 0, 0>>,
             <<6, 5, 0, 0, 0, 0, 0, 0>>, <<7, 0, 0, 0, 0, 0, 0, 0, 0>>}

WrappingStreams ==
    {n \o r \o w \o s :
        n \in Noise, r \in {<< >>, Request(1)}, w \in Wrapping, s \in Segments}

MCAllStreams == MCStreams \cup Garbage \cup WrappingStreams

-----------------------------------------------------------------------------
(* A parser that is stuck delivers the same packet again and again; of those  *)
(* deliveries there are as many as MaxPackets allows.                         *)

MaxPackets == 6

Bounded == Stuck => Len(packets) < MaxPackets

MCNext == Bounded /\ Next

MCSpec == Init /\ [][MCNext]_vars /\ WF_vars(Bounded /\ Parse)

-----------------------------------------------------------------------------
(* A reference for streams without corruption and without sizes that wrap *)

\* The packets of s from offset k on, cut one after the other; << >> if one
\* of them is broken, the truncated one at the end of s not counted.
RECURSIVE Cut(_, _)
Cut(s, k) ==
    IF Len(s) - k < HeaderSize \/ Len(s) - k < PacketSize(s, k)
    THEN << >>
    ELSE <<[at |-> k, bytes |-> Body(s, k), first |-> k = 0]>>
            \o Cut(s, k + PacketSize(s, k))

Clean(s) ==
    /\ IsEcmRequest(s, 0)
    /\ \A i \in 1 .. Len(Cut(s, 0)) : LET q == Cut(s, 0)[i] IN
          ~Long(q) /\ XorOf(q.bytes) = s[q.at + Len(q.bytes) + 1]

\* Of those, the ones n bytes of s suffice for.  The first needs CommandEnd
\* bytes more, and what is shorter than MinSize waits for as many bytes.
Expected(s, n) ==
    IF n < CommandEnd + PacketSize(s, 0)
    THEN << >>
    ELSE SelectSeq(Cut(s, 0), LAMBDA q : /\ q.at + Len(q.bytes) < n
                                        /\ q.at + MinSize <= n)

\* Clean streams: the packets delivered depend on how much was pushed and
\* not on where the pushes were cut (the intent of verify_bcas_stream,
\* main.c:815-822).
ChunkingIrrelevant ==
    pc = "idle" /\ Clean(stream) => packets = Expected(stream, fed)
=============================================================================
