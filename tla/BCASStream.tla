----------------------------- MODULE BCASStream -----------------------------
(***************************************************************************)
(* The incremental B-CAS packet parser, lib/bcas_stream.c.                 *)
(*                                                                         *)
(* The reader thread pushes chunks of a byte stream; every push runs the   *)
(* loop of bcas_stream_parse, which synchronises on an ECM request, checks *)
(* and delivers packets through a callback and strips what it has parsed.  *)
(* One iteration of that loop is one action: the callback of a delivery    *)
(* runs while other threads do, so the points between two iterations are   *)
(* visible outside of the parser.                                          *)
(*                                                                         *)
(* The pointer p of the source is raw_stream->data + parsed_size and its   *)
(* left_size is raw_stream->len - parsed_size whenever the loop uses them. *)
(***************************************************************************)
EXTENDS BCASPacket

VARIABLES
    raw_stream,         \* received and not yet stripped
    is_synced,
    n_sync_packets,     \* packets delivered since the last synchronisation
    pos,                \* the parser's own idea of its place in the stream
    pc,                 \* "idle" between pushes, "parse" in the loop
    parsed_size,        \* local of bcas_stream_parse
    stream,             \* the whole stream that will be pushed
    fed,                \* how much of it was pushed
    dropped,            \* history: how many bytes were stripped, in truth
    packets             \* history: the callback's calls

self  == <<raw_stream, is_synced, n_sync_packets, pos>>
input == <<stream, fed>>
vars  == <<self, pc, parsed_size, input, dropped, packets>>

-----------------------------------------------------------------------------
\* Bug: no byte is compared.
AnyChecksum(s, k) == Byte

\* The bytes p[size - 1] may hold for the packet at offset k.  A size that
\* wrapped to 0 reads the byte before the packet, which is outside of the
\* buffer when the packet is its first: then any byte may be there.
ChecksumBytes(s, k) ==
    IF k + ByteSize(s, k) = 0 THEN Byte ELSE {s[k + ByteSize(s, k)]}

\* Bug: one byte too many is removed.
DropOneMore(s, n) == SubSeq(s, n + 2, Len(s))

\* g_byte_array_remove_range of the first n bytes.
Drop(s, n) == SubSeq(s, n + 1, Len(s))

-----------------------------------------------------------------------------
(* bcas_stream_sync *)

\* Bug: the parser starts with any packet.
AnyOffsets(s) == 0 .. Len(s) - CommandEnd - 1

\* Where the search for an ECM request may stop in s; it leaves one byte
\* after the command.
EcmOffsets(s) ==
    {k \in 0 .. Len(s) - CommandEnd - 1 : IsEcmRequest(s, k)}

FirstEcm(s, skip) ==
    /\ Len(s) >= MinSize
    /\ skip \in EcmOffsets(s)
    /\ \A k \in EcmOffsets(s) : skip <= k

\* p[PACKET_LEN_INDEX] after the skipped bytes were removed: p still points
\* skip bytes into the array whose contents have moved down by skip.
StaleLen(s, skip) ==
    IF skip + HeaderSize <= Len(s) - skip
    THEN s[skip + HeaderSize + skip]
    ELSE s[skip + HeaderSize]

\* The test that keeps the parser unsynchronised although it found an ECM.
Refused(s, skip) ==
    Len(s) - CommandEnd - skip < HeaderSize + StaleLen(s, skip) + 1

-----------------------------------------------------------------------------
Init ==
    /\ raw_stream = << >>
    /\ is_synced = FALSE
    /\ n_sync_packets = 0
    /\ pos = 0
    /\ pc = "idle"
    /\ parsed_size = 0
    /\ stream \in Streams
    /\ fed = 0
    /\ dropped = 0
    /\ packets = << >>

\* bcas_stream_push of the next n bytes, up to the loop.
Push(n) ==
    /\ pc = "idle"
    /\ fed + n <= Len(stream)
    /\ raw_stream' = raw_stream \o SubSeq(stream, fed + 1, fed + n)
    /\ fed' = fed + n
    /\ pc' = "parse"
    /\ parsed_size' = 0
    /\ UNCHANGED <<is_synced, n_sync_packets, pos, stream, dropped, packets>>

\* What a synchronisation resets.
Restart ==
    /\ is_synced' = TRUE
    /\ n_sync_packets' = 0
    /\ parsed_size' = 0

\* The synchronisation succeeds: the loop restarts at the ECM request.
Resync(skip) ==
    /\ pc = "parse" /\ ~is_synced
    /\ FirstEcm(raw_stream, skip)
    /\ ~Refused(raw_stream, skip)
    /\ raw_stream' = Drop(raw_stream, skip)
    /\ dropped' = dropped + skip
    /\ pos' = pos + skip
    /\ Restart
    /\ UNCHANGED <<pc, input, packets>>

\* Stripping of the parsed bytes once the loop is left, of a buffer that
\* bcas_stream_sync has shortened by skip.  GLib refuses a range that is not
\* in the array and returns NULL, which the next line dereferences.
Strip(skip) ==
    IF parsed_size <= Len(raw_stream) - skip
    THEN /\ raw_stream' = Drop(raw_stream, skip + parsed_size)
         /\ dropped' = dropped + skip + parsed_size
         /\ pc' = "idle"
         /\ parsed_size' = 0
    ELSE /\ pc' = "crashed"
         /\ UNCHANGED <<raw_stream, dropped, parsed_size>>

\* The synchronisation fails, for want of an ECM request or because the one
\* found is refused; its prefix is skipped nevertheless.
CouldntSync(skip) ==
    /\ pc = "parse" /\ ~is_synced
    /\ \/ /\ Len(raw_stream) < MinSize \/ EcmOffsets(raw_stream) = {}
          /\ skip = 0
       \/ /\ FirstEcm(raw_stream, skip)
          /\ Refused(raw_stream, skip)
    /\ pos' = pos + skip
    /\ Strip(skip)
    /\ UNCHANGED <<is_synced, n_sync_packets, input, packets>>

\* Bug: a packet that ends with the buffer has to wait.
PacketAndMoreLeft ==
    LET left_size == Len(raw_stream) - parsed_size IN
    /\ left_size >= MinSize
    /\ left_size > PacketSize(raw_stream, parsed_size)

\* There is a packet's worth of bytes left at p.
PacketLeft ==
    LET left_size == Len(raw_stream) - parsed_size IN
    /\ left_size >= MinSize
    /\ left_size >= PacketSize(raw_stream, parsed_size)

\* The loop ends until more bytes are pushed.
Starved ==
    /\ pc = "parse" /\ is_synced
    /\ ~PacketLeft
    /\ Strip(0)
    /\ UNCHANGED <<is_synced, n_sync_packets, pos, input, packets>>

\* Bug: the command of a corrupted request stays and is found again.
StripParsed == parsed_size

\* What is removed with a corrupted packet: all that was parsed and, for a
\* request, its command, so that the search does not find it again.
StripSize ==
    parsed_size + (IF IsEcmRequest(raw_stream, parsed_size) THEN CommandEnd ELSE 0)

\* The checksum is wrong.  parsed_size keeps its value: only a
\* synchronisation resets it.
Corrupt ==
    /\ pc = "parse" /\ is_synced
    /\ PacketLeft
    /\ \E checksum \in ChecksumBytes(raw_stream, parsed_size) :
          XorOf(Body(raw_stream, parsed_size)) # checksum
    /\ raw_stream' = Drop(raw_stream, StripSize)
    /\ dropped' = dropped + StripSize
    /\ pos' = pos + StripSize
    /\ is_synced' = FALSE
    /\ UNCHANGED <<n_sync_packets, pc, parsed_size, input, packets>>

\* The packet is sound: it goes to the callback.
Deliver ==
    LET size == ByteSize(raw_stream, parsed_size) IN
    /\ pc = "parse" /\ is_synced
    /\ PacketLeft
    /\ XorOf(Body(raw_stream, parsed_size))
          \in ChecksumBytes(raw_stream, parsed_size)
    /\ n_sync_packets' = n_sync_packets + 1
    /\ packets' = Append(packets,
                    [at    |-> dropped + parsed_size,
                     bytes |-> Body(raw_stream, parsed_size),
                     first |-> n_sync_packets' = 1])
    /\ parsed_size' = parsed_size + size
    /\ pos' = pos + size
    /\ UNCHANGED <<raw_stream, is_synced, pc, input, dropped>>

Parse ==
    \/ \E skip \in 0 .. Len(raw_stream) : Resync(skip) \/ CouldntSync(skip)
    \/ Starved
    \/ Corrupt
    \/ Deliver

Next == Parse \/ \E n \in 1 .. Len(stream) : Push(n)

\* The loop runs on one thread and calls nothing that blocks, so it goes on;
\* nothing obliges the card to send more.
Spec == Init /\ [][Next]_vars /\ WF_vars(Parse)
-----------------------------------------------------------------------------
(* Properties *)

\* The types of the fields of BCASStream and of the history.
TypeOK ==
    /\ raw_stream \in Seq(Byte)
    /\ is_synced \in BOOLEAN
    /\ n_sync_packets \in Nat
    /\ pos \in Nat
    /\ pc \in {"idle", "parse", "crashed"}
    /\ parsed_size \in Nat
    /\ stream \in Seq(Byte)
    /\ fed \in 0 .. Len(stream)
    /\ dropped \in 0 .. fed
    /\ packets \in Seq(Packet)

\* A delivered packet is a stretch of the stream that was received whole:
\* whatever was stripped, skipped or pushed in pieces, the parser never
\* delivers bytes from two places (the moves of raw_stream, lines 77, 149
\* and 175 of bcas_stream.c, keep p on a packet of the stream).
PacketsIntact ==
    \A i \in 1 .. Len(packets) : LET q == packets[i] IN
        /\ q.at + Len(q.bytes) < fed
        /\ q.bytes = SubSeq(stream, q.at + 1, q.at + Len(q.bytes))

\* The flag is_first_sync of the callback (bcas_stream.c:164) marks exactly
\* the packets before which bytes were lost: the consumer may pair a
\* response with the request before it unless the flag tells it not to, and
\* is never told so for nothing.
FirstIffGap ==
    \A i \in 1 .. Len(packets) - 1 :
        IF packets[i + 1].first
        THEN packets[i + 1].at > End(packets[i])
        ELSE packets[i + 1].at = End(packets[i])

\* A synchronisation starts with an ECM request: the first packet ever and
\* every packet flagged is one, so no response is delivered before some
\* request (bcas_stream.c:62-67 and line 234, "always lead by
\* request_packet").
FirstIsRequest ==
    \A i \in 1 .. Len(packets) :
        /\ packets[i].first => IsEcmRequest(stream, packets[i].at)
        /\ i = 1 => packets[i].first

\* The loop is at a packet whose size wraps to 0 (bcas_stream.c:132) and whose
\* checksum is that of the byte before it: such a packet is never left behind.
Stuck ==
    /\ is_synced /\ PacketLeft
    /\ ByteSize(raw_stream, parsed_size) = 0
    /\ XorOf(Body(raw_stream, parsed_size))
          \in ChecksumBytes(raw_stream, parsed_size)

\* Every push returns or crashes, corrupted requests and wrapping sizes
\* included, unless it gets stuck: the one way for the loop of
\* bcas_stream_parse to go round for ever on the bytes it has is a packet of
\* size 0 (lines 132 and 167-169) with a checksum that fits.
PushReturns == pc = "parse" ~> pc # "parse" \/ Stuck

-----------------------------------------------------------------------------
(* What the comments of the source say of it, and the code does not do. *)

\* "Strip the stream whose parsing is over" (bcas_stream.c:173): a parser
\* that looks for a synchronisation strips no ECM request it could find.
StripsOnlyParsed ==
    [][~is_synced => \A k \in EcmOffsets(raw_stream) : dropped' <= dropped + k]_vars

-----------------------------------------------------------------------------
\* The parser implements what it promises to its callback.
Feed == INSTANCE PacketFeed
FeedSpec == Feed!Spec
=============================================================================
