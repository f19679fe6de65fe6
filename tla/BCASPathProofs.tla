--------------------------- MODULE BCASPathProofs ---------------------------
(***************************************************************************)
(* Proofs for every packet format.  Of BCASStream, for every stream: its   *)
(* type invariant, what it promises of the packets it delivers, and that   *)
(* it implements PacketFeed.  Of BCASPath, for every way a card that       *)
(* answers is received: what the pseudo card promises holds until a loss   *)
(* goes unnoticed, that costs one wrong key, and what is received behind   *)
(* the last loss puts the history right.                                   *)
(***************************************************************************)
EXTENDS BCASPath, SequenceTheorems, FiniteSetTheorems, TLAPS

(***************************************************************************)
(* The inductive invariant.  The history variable dropped places the       *)
(* buffer in the stream, and the last packet delivered is placed against   *)
(* the point where the parser goes on.                                     *)
(***************************************************************************)

\* raw_stream is the part of the stream from dropped to fed.
Window ==
    /\ Len(raw_stream) = fed - dropped
    /\ \A i \in 1 .. Len(raw_stream) : raw_stream[i] = stream[dropped + i]

\* What was parsed is in the buffer, but for the double strip to come.
ParsedInBuffer ==
    /\ is_synced => parsed_size <= Len(raw_stream)
    /\ pc = "idle" => parsed_size = 0

LastPacket == packets[Len(packets)]

\* The parser is at the head of the buffer on an ECM request.
AtRequest ==
    /\ CommandEnd <= Len(raw_stream)
    /\ IsEcmRequest(raw_stream, 0)

\* While synchronised the parser goes on where the last packet ended; right
\* after a synchronisation it is on a request beyond it; and while not
\* synchronised it is beyond it or on a corrupted packet that is no request.
Linked ==
    /\ n_sync_packets > 0 => packets # << >>
    /\ is_synced /\ n_sync_packets > 0 => End(LastPacket) = dropped + parsed_size
    /\ is_synced /\ n_sync_packets = 0 =>
          /\ parsed_size = 0
          /\ AtRequest
          /\ packets # << >> => End(LastPacket) < dropped
    /\ ~is_synced /\ packets # << >> =>
          \/ End(LastPacket) < dropped
          \/ /\ End(LastPacket) = dropped
             /\ CommandEnd <= Len(raw_stream)
             /\ ~IsEcmRequest(raw_stream, 0)

Delivered == PacketsIntact /\ FirstIffGap /\ FirstIsRequest

IInv == TypeOK /\ Window /\ ParsedInBuffer /\ Linked /\ Delivered

-----------------------------------------------------------------------------
(* Lemmas on the packet format *)

\* The constants are numbers and in order.
LEMMA Constants ==
    /\ HeaderSize \in Nat /\ HeaderSize > 0
    /\ Len(Command) \in Nat /\ Len(Command) > 0
    /\ CommandEnd \in Nat /\ CommandEnd = HeaderSize + Len(Command)
    /\ CommandEnd > HeaderSize
    /\ MinSize \in Nat /\ MinSize > CommandEnd
    /\ ByteCount \in Nat /\ ByteCount > 0
  <1>1. Command \in Seq(Byte)
    BY SizesAssumption
  <1>2. Len(Command) \in Nat
    BY <1>1, LenProperties
  <1> QED
    BY <1>2, SizesAssumption DEF CommandEnd

\* Dropping n bytes leaves the others in their order.
LEMMA DropFacts ==
    ASSUME NEW s \in Seq(Byte), NEW n \in 0 .. Len(s)
    PROVE  /\ Drop(s, n) \in Seq(Byte)
           /\ Len(Drop(s, n)) = Len(s) - n
           /\ \A i \in 1 .. Len(s) - n : Drop(s, n)[i] = s[n + i]
  <1>1. Len(s) \in Nat /\ \A i \in 1 .. Len(s) : s[i] \in Byte
    BY LenProperties
  <1>2. \A i \in n + 1 .. Len(s) : s[i] \in Byte
    BY <1>1
  <1>3. /\ SubSeq(s, n + 1, Len(s)) \in Seq(Byte)
        /\ Len(SubSeq(s, n + 1, Len(s)))
              = IF n + 1 <= Len(s) THEN Len(s) - (n + 1) + 1 ELSE 0
        /\ \A i \in 1 .. Len(s) - (n + 1) + 1 :
              SubSeq(s, n + 1, Len(s))[i] = s[n + 1 + i - 1]
    <2> HIDE DEF Byte
    <2> QED BY <1>1, <1>2, SubSeqProperties
  <1> QED
    BY <1>1, <1>3 DEF Drop

\* A chunk of n bytes after the first m.
LEMMA ChunkFacts ==
    ASSUME NEW s \in Seq(Byte), NEW m \in Nat, NEW n \in Nat, n > 0,
           m + n <= Len(s)
    PROVE  /\ SubSeq(s, m + 1, m + n) \in Seq(Byte)
           /\ Len(SubSeq(s, m + 1, m + n)) = n
           /\ \A i \in 1 .. n : SubSeq(s, m + 1, m + n)[i] = s[m + i]
  <1>1. Len(s) \in Nat /\ \A i \in 1 .. Len(s) : s[i] \in Byte
    BY LenProperties
  <1>2. \A i \in m + 1 .. m + n : s[i] \in Byte
    BY <1>1
  <1>3. /\ SubSeq(s, m + 1, m + n) \in Seq(Byte)
        /\ Len(SubSeq(s, m + 1, m + n))
              = IF m + 1 <= m + n THEN m + n - (m + 1) + 1 ELSE 0
        /\ \A i \in 1 .. m + n - (m + 1) + 1 :
              SubSeq(s, m + 1, m + n)[i] = s[m + 1 + i - 1]
    <2> HIDE DEF Byte
    <2> QED BY <1>2, SubSeqProperties
  <1>4. m + 1 <= m + n /\ m + n - (m + 1) + 1 = n
    OBVIOUS
  <1>5. ASSUME NEW i \in 1 .. n
        PROVE  SubSeq(s, m + 1, m + n)[i] = s[m + i]
    <2>1. m + 1 + i - 1 = m + i /\ i \in 1 .. m + n - (m + 1) + 1
      OBVIOUS
    <2> QED
      BY <1>3, <2>1
  <1> QED
    BY <1>3, <1>4, <1>5

\* Whether a packet is a request depends on the bytes of its head only.
LEMMA EcmShift ==
    ASSUME NEW s, NEW k \in Nat, NEW t, NEW j \in Nat,
           \A i \in 1 .. CommandEnd : s[k + i] = t[j + i]
    PROVE  IsEcmRequest(s, k) <=> IsEcmRequest(t, j)
  <1>1. ASSUME NEW i \in 1 .. Len(Command)
        PROVE  s[k + HeaderSize + i] = t[j + HeaderSize + i]
    <2>1. HeaderSize + i \in 1 .. CommandEnd
      BY Constants
    <2>2. s[k + (HeaderSize + i)] = t[j + (HeaderSize + i)]
      BY <2>1
    <2> QED
      BY <2>2, Constants
  <1> QED
    BY <1>1 DEF IsEcmRequest

\* A packet's length is a byte, so its size is a number.
LEMMA SizeFacts ==
    ASSUME NEW s \in Seq(Byte), NEW k \in Nat, k + HeaderSize <= Len(s)
    PROVE  /\ PayloadLen(s, k) \in Byte
           /\ PayloadLen(s, k) \in Nat
           /\ PacketSize(s, k) \in Nat
           /\ PacketSize(s, k) = HeaderSize + PayloadLen(s, k) + 1
           /\ ByteSize(s, k) \in Nat
           /\ ByteSize(s, k) <= PacketSize(s, k)
  <1>1. k + HeaderSize \in 1 .. Len(s)
    BY Constants, LenProperties
  <1>2. PayloadLen(s, k) \in Byte
    BY <1>1, LenProperties DEF PayloadLen
  <1>3. PayloadLen(s, k) \in Nat
    BY <1>2, Constants DEF Byte
  <1>4. PacketSize(s, k) \in Nat
    BY <1>3, Constants DEF PacketSize
  <1>5. \A n \in Nat : n % ByteCount \in Nat /\ n % ByteCount <= n
    BY Constants
  <1> QED
    BY <1>2, <1>3, <1>4, <1>5 DEF PacketSize, ByteSize

\* The header and payload of a packet that is in s.
LEMMA BodyFacts ==
    ASSUME NEW s \in Seq(Byte), NEW k \in Nat, k + HeaderSize <= Len(s),
           k + PacketSize(s, k) <= Len(s)
    PROVE  /\ Body(s, k) \in Seq(Byte)
           /\ Len(Body(s, k)) = HeaderSize + PayloadLen(s, k)
           /\ \A i \in 1 .. Len(Body(s, k)) : Body(s, k)[i] = s[k + i]
  <1> DEFINE m == k + 1
             n == k + HeaderSize + PayloadLen(s, k)
  <1>1. /\ Len(s) \in Nat /\ PayloadLen(s, k) \in Nat /\ HeaderSize \in Nat
        /\ n < Len(s)
    BY SizeFacts, Constants, LenProperties
  <1>2. \A i \in m .. n : s[i] \in Byte
    BY <1>1, LenProperties
  <1>3. /\ SubSeq(s, m, n) \in Seq(Byte)
        /\ Len(SubSeq(s, m, n)) = IF m <= n THEN n - m + 1 ELSE 0
        /\ \A i \in 1 .. n - m + 1 : SubSeq(s, m, n)[i] = s[m + i - 1]
    <2>1. m \in Int /\ n \in Int
      BY <1>1
    <2> HIDE DEF Byte, m, n
    <2> QED BY <1>2, <2>1, SubSeqProperties
  <1> QED
    BY <1>1, <1>3, Constants DEF Body

\* The last packet is one, and its end a place in the stream.
LEMMA LastFacts ==
    ASSUME TypeOK, packets # << >>
    PROVE  /\ Len(packets) \in Nat /\ Len(packets) > 0
           /\ LastPacket \in Packet
           /\ End(LastPacket) \in Nat
  <1>1. Len(packets) \in Nat /\ Len(packets) > 0
    BY LenProperties, EmptySeq DEF TypeOK
  <1>2. LastPacket \in Packet
    BY <1>1, LenProperties DEF TypeOK, LastPacket
  <1>3. LastPacket.at \in Nat /\ Len(LastPacket.bytes) \in Nat
    BY <1>2, LenProperties DEF Packet
  <1> DEFINE m == Len(LastPacket.bytes) + 1
  <1>4. m % ByteCount \in Nat
    <2>1. m \in Nat
      BY <1>3
    <2> HIDE DEF m
    <2> QED
      BY <2>1, Constants
  <1>5. Extent(LastPacket) \in Nat
    BY <1>4 DEF Extent
  <1> QED
    BY <1>1, <1>2, <1>3, <1>5 DEF End

-----------------------------------------------------------------------------
(* The invariant holds initially and is preserved *)

\* How the window moves when the buffer is stripped.
LEMMA DropWindow ==
    ASSUME TypeOK, Window, NEW n \in 0 .. Len(raw_stream),
           raw_stream' = Drop(raw_stream, n), dropped' = dropped + n,
           UNCHANGED input
    PROVE  /\ raw_stream' \in Seq(Byte)
           /\ dropped' \in 0 .. fed'
           /\ Len(raw_stream') = Len(raw_stream) - n
           /\ Window'
  <1>1. /\ Len(raw_stream) \in Nat /\ dropped \in Nat /\ fed \in Nat
        /\ n \in Nat
    BY LenProperties DEF TypeOK
  <1>2. /\ raw_stream' \in Seq(Byte)
        /\ Len(raw_stream') = Len(raw_stream) - n
        /\ \A i \in 1 .. Len(raw_stream) - n : raw_stream'[i] = raw_stream[n + i]
    BY DropFacts DEF TypeOK
  <1>3. ASSUME NEW i \in 1 .. Len(raw_stream')
        PROVE  raw_stream'[i] = stream'[dropped' + i]
    <2>1. n + i \in 1 .. Len(raw_stream)
      BY <1>1, <1>2
    <2>2. raw_stream[n + i] = stream[dropped + (n + i)]
      BY <2>1 DEF Window
    <2> QED
      BY <1>1, <1>2, <2>2 DEF input
  <1> QED
    BY <1>1, <1>2, <1>3 DEF Window, input

\* What was delivered stays delivered when more is received.
LEMMA DeliveredKept ==
    ASSUME TypeOK, Delivered, stream' = stream, packets' = packets,
           fed' \in Nat, fed <= fed'
    PROVE  Delivered'
  <1>1. PacketsIntact'
    <2> SUFFICES ASSUME NEW i \in 1 .. Len(packets)
                 PROVE  packets[i].at + Len(packets[i].bytes) < fed'
      BY DEF Delivered, PacketsIntact
    <2>1. packets[i] \in Packet
      BY LenProperties DEF TypeOK
    <2>2. packets[i].at \in Nat /\ Len(packets[i].bytes) \in Nat
      BY <2>1, LenProperties DEF Packet
    <2>3. packets[i].at + Len(packets[i].bytes) < fed
      BY DEF Delivered, PacketsIntact
    <2>4. fed \in Nat
      BY LenProperties DEF TypeOK
    <2> QED
      BY <2>2, <2>3, <2>4
  <1>2. FirstIffGap'
    BY DEF Delivered, FirstIffGap
  <1>3. FirstIsRequest'
    BY DEF Delivered, FirstIsRequest
  <1> QED
    BY <1>1, <1>2, <1>3 DEF Delivered

\* The invariant holds initially.
LEMMA InitIInv == Init => IInv
  <1> SUFFICES ASSUME Init PROVE IInv
    OBVIOUS
  <1>1. stream \in Seq(Byte) /\ Len(stream) \in Nat
    BY StreamsAssumption, LenProperties DEF Init
  <1>2. TypeOK
    <2>1. << >> \in Seq(Byte) /\ << >> \in Seq(Packet)
      OBVIOUS
    <2>2. raw_stream \in Seq(Byte) /\ packets \in Seq(Packet)
      BY <2>1 DEF Init
    <2>3. fed \in 0 .. Len(stream) /\ dropped \in 0 .. fed
      BY <1>1 DEF Init
    <2> QED
      BY <1>1, <2>2, <2>3 DEF Init, TypeOK
  <1>3. Window /\ ParsedInBuffer /\ Linked
    BY <1>1 DEF Init, Window, ParsedInBuffer, Linked
  <1>4. Delivered
    BY DEF Init, Delivered, PacketsIntact, FirstIffGap, FirstIsRequest
  <1> QED
    BY <1>2, <1>3, <1>4 DEF IInv

\* A push extends the window.
LEMMA PushIInv ==
    ASSUME IInv, NEW n \in 1 .. Len(stream), Push(n)
    PROVE  IInv'
  <1> USE DEF IInv
  <1>1. /\ stream \in Seq(Byte) /\ raw_stream \in Seq(Byte)
        /\ Len(stream) \in Nat /\ Len(raw_stream) \in Nat
        /\ fed \in Nat /\ dropped \in Nat /\ n \in Nat
        /\ fed + n <= Len(stream)
        /\ Len(raw_stream) = fed - dropped
    BY LenProperties DEF TypeOK, Push, Window
  <1> DEFINE chunk == SubSeq(stream, fed + 1, fed + n)
  <1>2. /\ chunk \in Seq(Byte)
        /\ Len(chunk) = n
        /\ \A i \in 1 .. n : chunk[i] = stream[fed + i]
    BY <1>1, ChunkFacts
  <1>3. /\ raw_stream' \in Seq(Byte)
        /\ Len(raw_stream') = Len(raw_stream) + n
        /\ \A i \in 1 .. Len(raw_stream) + n : raw_stream'[i] =
              IF i <= Len(raw_stream) THEN raw_stream[i]
              ELSE chunk[i - Len(raw_stream)]
    <2>1. raw_stream' = raw_stream \o chunk
      BY DEF Push
    <2> HIDE DEF chunk
    <2> QED
      BY <1>1, <1>2, <2>1, ConcatProperties
  <1> HIDE DEF chunk
  <1>4. TypeOK'
    BY <1>1, <1>3 DEF TypeOK, Push
  <1>5. Window'
    <2>1. ASSUME NEW i \in 1 .. Len(raw_stream')
          PROVE  raw_stream'[i] = stream'[dropped' + i]
      <3>1. CASE i <= Len(raw_stream)
        <4>1. i \in 1 .. Len(raw_stream)
          BY <1>1, <1>3, <3>1
        <4>2. raw_stream'[i] = raw_stream[i]
          BY <1>1, <1>3, <4>1
        <4> QED
          BY <4>1, <4>2 DEF Window, Push
      <3>2. CASE i > Len(raw_stream)
        <4>1. /\ i - Len(raw_stream) \in 1 .. n
              /\ fed + (i - Len(raw_stream)) = dropped + i
          BY <1>1, <1>3, <3>2
        <4>2. raw_stream'[i] = stream[fed + (i - Len(raw_stream))]
          BY <1>1, <1>2, <1>3, <3>2, <4>1
        <4> QED
          BY <4>1, <4>2 DEF Push
      <3> QED
        BY <1>1, <3>1, <3>2
    <2>2. Len(raw_stream') = fed' - dropped'
      BY <1>1, <1>3 DEF Window, Push
    <2> QED
      BY <2>1, <2>2 DEF Window
  <1>6. ParsedInBuffer'
    BY <1>1, <1>3 DEF ParsedInBuffer, Push
  <1>7. CommandEnd <= Len(raw_stream) =>
          (IsEcmRequest(raw_stream', 0) <=> IsEcmRequest(raw_stream, 0))
    <2> HAVE CommandEnd <= Len(raw_stream)
    <2>1. ASSUME NEW i \in 1 .. CommandEnd
          PROVE  raw_stream'[0 + i] = raw_stream[0 + i]
      <3>1. i \in 1 .. Len(raw_stream) + n /\ i <= Len(raw_stream) /\ 0 + i = i
        BY <1>1, Constants
      <3> QED
        BY <1>3, <3>1
    <2> QED
      BY <2>1, EcmShift
  <1>8. Linked'
    <2>1. parsed_size = 0 /\ parsed_size' = 0
      BY DEF Push, ParsedInBuffer
    <2>2. LastPacket' = LastPacket
      BY DEF LastPacket, Push
    <2>3. CommandEnd <= Len(raw_stream) => CommandEnd <= Len(raw_stream')
      BY <1>1, <1>3, Constants
    <2> QED
      BY <1>7, <2>1, <2>2, <2>3 DEF Linked, AtRequest, Push, End, Extent
  <1>9. Delivered'
    BY <1>1, DeliveredKept DEF Push, input
  <1> QED
    BY <1>4, <1>5, <1>6, <1>8, <1>9

\* Stripping nothing leaves the head of the buffer as it is.
LEMMA DropNothing ==
    ASSUME raw_stream \in Seq(Byte), raw_stream' = Drop(raw_stream, 0),
           CommandEnd <= Len(raw_stream)
    PROVE  /\ CommandEnd <= Len(raw_stream')
           /\ IsEcmRequest(raw_stream', 0) <=> IsEcmRequest(raw_stream, 0)
  <1>1. Len(raw_stream) \in Nat
    BY LenProperties
  <1>2. 0 \in 0 .. Len(raw_stream)
    BY <1>1
  <1>3. /\ Len(raw_stream') = Len(raw_stream)
        /\ \A i \in 1 .. Len(raw_stream) : raw_stream'[i] = raw_stream[i]
    BY <1>1, <1>2, DropFacts
  <1>4. \A i \in 1 .. CommandEnd : raw_stream'[0 + i] = raw_stream[0 + i]
    BY <1>1, <1>3, Constants
  <1> QED
    BY <1>3, <1>4, EcmShift

\* Leaving the loop, from either of its two exits.
LEMMA StripIInv ==
    ASSUME IInv, pc = "parse", NEW skip \in 0 .. Len(raw_stream),
           is_synced => skip = 0,
           Strip(skip), pos' \in Nat,
           UNCHANGED <<is_synced, n_sync_packets, input, packets>>
    PROVE  IInv'
  <1>1. /\ Len(raw_stream) \in Nat /\ dropped \in Nat /\ parsed_size \in Nat
        /\ fed \in Nat /\ skip \in Nat /\ raw_stream \in Seq(Byte)
        /\ skip <= Len(raw_stream)
    BY LenProperties DEF IInv, TypeOK
  <1>2. Delivered'
    BY <1>1, DeliveredKept DEF IInv, input
  <1>3. LastPacket' = LastPacket /\ End(LastPacket)' = End(LastPacket)
    BY DEF LastPacket, End, Extent
  <1>4. packets # << >> => End(LastPacket) \in Nat
    BY LastFacts DEF IInv
  <1>5. CASE parsed_size <= Len(raw_stream) - skip
    <2> DEFINE n == skip + parsed_size
    <2>1. /\ n \in 0 .. Len(raw_stream)
          /\ raw_stream' = Drop(raw_stream, n)
          /\ dropped' = dropped + n
          /\ pc' = "idle" /\ parsed_size' = 0
      BY <1>1, <1>5 DEF Strip
    <2>2. /\ raw_stream' \in Seq(Byte) /\ dropped' \in 0 .. fed'
          /\ Len(raw_stream') \in Nat
          /\ Window'
      <3> HIDE DEF n
      <3> QED BY <2>1, DropWindow, LenProperties DEF IInv
    <2>3. TypeOK' /\ ParsedInBuffer'
      BY <2>1, <2>2 DEF IInv, TypeOK, ParsedInBuffer, input
    <2>4. Linked'
      <3>1. CASE n = 0
        <4>1. skip = 0 /\ parsed_size = 0 /\ dropped' = dropped
          BY <1>1, <2>1, <3>1
        <4>2. CommandEnd <= Len(raw_stream) =>
                /\ CommandEnd <= Len(raw_stream')
                /\ IsEcmRequest(raw_stream', 0) <=> IsEcmRequest(raw_stream, 0)
          BY <1>1, <2>1, <3>1, DropNothing
        <4> QED
          BY <1>3, <2>1, <4>1, <4>2 DEF IInv, Linked, AtRequest
      <3>2. CASE n # 0
        <4>1. dropped < dropped'
          BY <1>1, <2>1, <3>2
        <4>2. CASE is_synced
          <5>1. skip = 0 /\ parsed_size # 0
            BY <1>1, <3>2, <4>2
          <5>2. n_sync_packets > 0
            BY <4>2, <5>1 DEF IInv, Linked, TypeOK
          <5>3. dropped' + parsed_size' = dropped + parsed_size
            BY <1>1, <2>1, <5>1
          <5> QED
            BY <1>3, <4>2, <5>2, <5>3 DEF IInv, Linked, TypeOK
        <4>3. CASE ~is_synced
          BY <1>1, <1>3, <1>4, <2>1, <4>1, <4>3 DEF IInv, Linked
        <4> QED
          BY <4>2, <4>3
      <3> QED
        BY <3>1, <3>2
    <2> QED
      BY <1>2, <2>2, <2>3, <2>4 DEF IInv
  <1>6. CASE ~(parsed_size <= Len(raw_stream) - skip)
    <2>1. pc' = "crashed" /\ UNCHANGED <<raw_stream, dropped, parsed_size>>
      BY <1>6 DEF Strip
    <2>2. TypeOK' /\ Window' /\ ParsedInBuffer'
      BY <2>1 DEF IInv, TypeOK, Window, ParsedInBuffer, input
    <2>3. Linked'
      BY <1>3, <2>1 DEF IInv, Linked, AtRequest
    <2> QED
      BY <1>2, <2>2, <2>3 DEF IInv
  <1> QED
    BY <1>5, <1>6

LEMMA StarvedIInv == IInv /\ Starved => IInv'
  <1> SUFFICES ASSUME IInv, Starved PROVE IInv'
    OBVIOUS
  <1>1. 0 \in 0 .. Len(raw_stream) /\ pos' \in Nat
    BY LenProperties DEF IInv, TypeOK, Starved
  <1> QED
    BY <1>1, StripIInv DEF Starved

LEMMA CouldntSyncIInv ==
    ASSUME IInv, NEW skip \in 0 .. Len(raw_stream), CouldntSync(skip)
    PROVE  IInv'
  <1>1. pos' \in Nat
    BY LenProperties DEF IInv, TypeOK, CouldntSync
  <1> QED
    BY <1>1, StripIInv DEF CouldntSync

\* A synchronisation moves the parser to a request beyond the last packet.
LEMMA ResyncIInv ==
    ASSUME IInv, NEW skip \in 0 .. Len(raw_stream), Resync(skip)
    PROVE  IInv'
  <1>1. /\ Len(raw_stream) \in Nat /\ dropped \in Nat /\ fed \in Nat
        /\ skip \in Nat /\ raw_stream \in Seq(Byte)
    BY LenProperties DEF IInv, TypeOK
  <1>2. /\ skip + CommandEnd < Len(raw_stream)
        /\ IsEcmRequest(raw_stream, skip)
    BY <1>1, Constants DEF Resync, FirstEcm, EcmOffsets
  <1>3. /\ raw_stream' \in Seq(Byte) /\ dropped' \in 0 .. fed'
        /\ Len(raw_stream') = Len(raw_stream) - skip
        /\ Window'
    BY DropWindow DEF IInv, Resync
  <1>4. TypeOK' /\ ParsedInBuffer'
    BY <1>1, <1>3 DEF IInv, TypeOK, ParsedInBuffer, Resync, Restart, input
  <1>5. AtRequest'
    <2>0. \A i \in 1 .. Len(raw_stream) - skip : raw_stream'[i] = raw_stream[skip + i]
      BY <1>1, DropFacts DEF Resync
    <2>1. \A i \in 1 .. CommandEnd : raw_stream'[0 + i] = raw_stream[skip + i]
      BY <1>1, <1>2, <2>0, Constants
    <2>2. IsEcmRequest(raw_stream', 0)
      BY <1>1, <1>2, <2>1, EcmShift
    <2> QED
      BY <1>1, <1>2, <1>3, <2>2, Constants DEF AtRequest
  <1>6. packets # << >> => End(LastPacket) < dropped'
    <2> HAVE packets # << >>
    <2>1. CASE End(LastPacket) < dropped
      BY <1>1, <2>1, LastFacts DEF IInv, Resync
    <2>2. CASE End(LastPacket) = dropped /\ ~IsEcmRequest(raw_stream, 0)
      BY <1>1, <1>2, <2>2 DEF Resync
    <2> QED
      BY <2>1, <2>2 DEF IInv, Linked, Resync
  <1>7. LastPacket' = LastPacket /\ End(LastPacket)' = End(LastPacket)
    BY DEF Resync, LastPacket, End, Extent
  <1>8. Linked'
    BY <1>5, <1>6, <1>7 DEF Linked, Resync, Restart, IInv
  <1>9. Delivered'
    BY <1>1, DeliveredKept DEF IInv, Resync, input
  <1> QED
    BY <1>3, <1>4, <1>8, <1>9 DEF IInv

\* A corrupted packet leaves the parser beyond the last packet or on the
\* corrupted one, which is then no request.
LEMMA CorruptIInv == IInv /\ Corrupt => IInv'
  <1> SUFFICES ASSUME IInv, Corrupt PROVE IInv'
    OBVIOUS
  <1>1. /\ Len(raw_stream) \in Nat /\ dropped \in Nat /\ parsed_size \in Nat
        /\ fed \in Nat /\ raw_stream \in Seq(Byte)
        /\ pos \in Nat /\ n_sync_packets \in Nat
    BY LenProperties DEF IInv, TypeOK
  <1>2. parsed_size + CommandEnd < Len(raw_stream)
    BY <1>1, Constants DEF Corrupt, PacketLeft
  <1>3. StripSize \in 0 .. Len(raw_stream) /\ StripSize \in Nat
    BY <1>1, <1>2, Constants DEF StripSize
  <1>4. /\ raw_stream' \in Seq(Byte) /\ dropped' \in 0 .. fed'
        /\ Len(raw_stream') = Len(raw_stream) - StripSize
        /\ Window'
    BY <1>3, DropWindow DEF IInv, Corrupt
  <1>5. TypeOK' /\ ParsedInBuffer'
    <2>1. pos' \in Nat
      BY <1>1, <1>3 DEF Corrupt
    <2> QED
      BY <1>4, <2>1 DEF IInv, TypeOK, ParsedInBuffer, Corrupt, input
  <1>6. LastPacket' = LastPacket /\ End(LastPacket)' = End(LastPacket)
    BY DEF Corrupt, LastPacket, End, Extent
  <1>7. packets # << >> =>
          \/ End(LastPacket) < dropped'
          \/ /\ End(LastPacket) = dropped'
             /\ CommandEnd <= Len(raw_stream')
             /\ ~IsEcmRequest(raw_stream', 0)
    <2> HAVE packets # << >>
    <2>1. End(LastPacket) \in Nat
      BY LastFacts DEF IInv
    <2>2. End(LastPacket) <= dropped + parsed_size
      BY <1>1, <2>1 DEF IInv, Linked, Corrupt
    <2>3. CASE IsEcmRequest(raw_stream, parsed_size)
      <3>1. dropped' = dropped + (parsed_size + CommandEnd)
        BY <2>3 DEF Corrupt, StripSize
      <3> QED
        BY <1>1, <2>1, <2>2, <3>1, Constants
    <2>4. CASE ~IsEcmRequest(raw_stream, parsed_size)
      <3>1. StripSize = parsed_size
        BY <1>1, <2>4 DEF StripSize
      <3>2. n_sync_packets > 0
        BY <1>1, <2>4 DEF IInv, Linked, AtRequest, Corrupt
      <3>3. End(LastPacket) = dropped'
        BY <3>1, <3>2 DEF IInv, Linked, Corrupt
      <3>4. \A i \in 1 .. CommandEnd : raw_stream'[0 + i] = raw_stream[parsed_size + i]
        <4>1. \A i \in 1 .. Len(raw_stream) - parsed_size :
                 raw_stream'[i] = raw_stream[parsed_size + i]
          BY <1>1, <1>3, <3>1, DropFacts DEF Corrupt
        <4>2. ASSUME NEW i \in 1 .. CommandEnd
              PROVE  raw_stream'[0 + i] = raw_stream[parsed_size + i]
          <5>1. i \in 1 .. Len(raw_stream) - parsed_size /\ 0 + i = i
            BY <1>1, <1>2, Constants
          <5> QED
            BY <4>1, <5>1
        <4> QED
          BY <4>2
      <3>5. ~IsEcmRequest(raw_stream', 0)
        BY <1>1, <2>4, <3>4, EcmShift
      <3>6. CommandEnd <= Len(raw_stream')
        BY <1>1, <1>2, <1>4, <3>1, Constants
      <3> QED
        BY <3>3, <3>5, <3>6
    <2> QED
      BY <2>3, <2>4
  <1>8. Linked'
    BY <1>6, <1>7 DEF Linked, Corrupt, IInv
  <1>9. Delivered'
    BY <1>1, DeliveredKept DEF IInv, Corrupt, input
  <1> QED
    BY <1>4, <1>5, <1>8, <1>9 DEF IInv

\* Where the parser is in the stream, and the packet there.
Here == dropped + parsed_size

Delivery == [at    |-> Here,
             bytes |-> Body(raw_stream, parsed_size),
             first |-> n_sync_packets + 1 = 1]

\* The packet the parser would read next is the one of the stream.
LEMMA AheadFacts ==
    ASSUME IInv, PacketLeft
    PROVE  /\ Here \in Nat /\ fed \in Nat /\ Len(raw_stream) \in Nat /\ parsed_size \in Nat
           /\ Here + MinSize <= fed
           /\ Here + PacketSize(stream, Here) <= fed
           /\ PacketSize(raw_stream, parsed_size) = PacketSize(stream, Here)
           /\ PacketSize(stream, Here) \in Nat
           /\ PacketSize(stream, Here) = HeaderSize + PayloadLen(stream, Here) + 1
           /\ PayloadLen(stream, Here) \in Nat
           /\ parsed_size + PacketSize(raw_stream, parsed_size) <= Len(raw_stream)
           /\ Body(raw_stream, parsed_size) \in Seq(Byte)
           /\ Len(Body(raw_stream, parsed_size)) = HeaderSize + PayloadLen(stream, Here)
           /\ Body(raw_stream, parsed_size) = Body(stream, Here)
           /\ \A i \in 1 .. Len(raw_stream) - parsed_size :
                 raw_stream[parsed_size + i] = stream[Here + i]
  <1>1. /\ Len(raw_stream) \in Nat /\ dropped \in Nat /\ parsed_size \in Nat
        /\ fed \in Nat /\ raw_stream \in Seq(Byte) /\ stream \in Seq(Byte)
        /\ Len(stream) \in Nat /\ fed <= Len(stream)
        /\ n_sync_packets \in Nat /\ Here \in Nat
    BY LenProperties DEF IInv, TypeOK, Here
  <1>2. /\ Len(raw_stream) - parsed_size >= MinSize
        /\ Len(raw_stream) - parsed_size >= PacketSize(raw_stream, parsed_size)
        /\ Len(raw_stream) = fed - dropped
    BY DEF PacketLeft, IInv, Window
  <1>3. /\ parsed_size + HeaderSize <= Len(raw_stream)
        /\ Here + HeaderSize <= Len(stream)
    BY <1>1, <1>2, Constants DEF Here
  <1>4. ASSUME NEW i \in 1 .. Len(raw_stream) - parsed_size
        PROVE  raw_stream[parsed_size + i] = stream[Here + i]
    <2>1. parsed_size + i \in 1 .. Len(raw_stream)
      BY <1>1
    <2>2. raw_stream[parsed_size + i] = stream[dropped + (parsed_size + i)]
      BY <2>1 DEF IInv, Window
    <2> QED
      BY <1>1, <2>2 DEF Here
  <1>5. PayloadLen(raw_stream, parsed_size) = PayloadLen(stream, Here)
    <2>1. HeaderSize \in 1 .. Len(raw_stream) - parsed_size
      BY <1>1, <1>3, Constants
    <2> QED
      BY <1>4, <2>1 DEF PayloadLen
  <1>6. /\ PacketSize(raw_stream, parsed_size) = PacketSize(stream, Here)
        /\ PacketSize(stream, Here) \in Nat
        /\ PacketSize(stream, Here) = HeaderSize + PayloadLen(stream, Here) + 1
        /\ PayloadLen(stream, Here) \in Nat
    BY <1>1, <1>3, <1>5, SizeFacts DEF PacketSize
  <1>7. Here + PacketSize(stream, Here) <= fed /\ Here + MinSize <= fed
    BY <1>1, <1>2, <1>6, Constants DEF Here
  <1>8. parsed_size + PacketSize(raw_stream, parsed_size) <= Len(raw_stream)
    BY <1>1, <1>2, <1>6
  <1>9. Here + PacketSize(stream, Here) <= Len(stream)
    BY <1>1, <1>6, <1>7
  <1>10. /\ Body(raw_stream, parsed_size) \in Seq(Byte)
         /\ Len(Body(raw_stream, parsed_size)) = HeaderSize + PayloadLen(stream, Here)
         /\ \A i \in 1 .. HeaderSize + PayloadLen(stream, Here) :
               Body(raw_stream, parsed_size)[i] = raw_stream[parsed_size + i]
    BY <1>1, <1>3, <1>5, <1>8, BodyFacts
  <1>11. /\ Body(stream, Here) \in Seq(Byte)
         /\ Len(Body(stream, Here)) = HeaderSize + PayloadLen(stream, Here)
         /\ \A i \in 1 .. HeaderSize + PayloadLen(stream, Here) :
               Body(stream, Here)[i] = stream[Here + i]
    <2>1. /\ Body(stream, Here) \in Seq(Byte)
          /\ Len(Body(stream, Here)) = HeaderSize + PayloadLen(stream, Here)
          /\ \A i \in 1 .. Len(Body(stream, Here)) : Body(stream, Here)[i] = stream[Here + i]
      BY <1>1, <1>3, <1>9, BodyFacts
    <2> QED
      BY <2>1
  <1>12. Body(raw_stream, parsed_size) = Body(stream, Here)
    <2>1. ASSUME NEW i \in 1 .. HeaderSize + PayloadLen(stream, Here)
          PROVE  Body(raw_stream, parsed_size)[i] = Body(stream, Here)[i]
      <3>1. i \in 1 .. Len(raw_stream) - parsed_size
        BY <1>1, <1>6, <1>8, Constants
      <3> QED
        BY <1>4, <1>10, <1>11, <3>1
    <2> HIDE DEF Byte
    <2> QED
      BY <1>10, <1>11, <2>1, SeqEqual
  <1> QED
    BY <1>1, <1>4, <1>6, <1>7, <1>8, <1>10, <1>12

\* The packet delivered is the one of the stream, received whole; flagged,
\* it is a request beyond the last packet, and else it follows that.
LEMMA DeliveryFacts ==
    ASSUME IInv, Deliver
    PROVE  /\ Here \in Nat /\ fed \in Nat
           /\ Delivery \in Packet
           /\ packets' = Append(packets, Delivery)
           /\ Here + MinSize <= fed
           /\ Here + PacketSize(stream, Here) <= fed
           /\ PacketSize(stream, Here) = PacketSize(raw_stream, parsed_size)
           /\ PacketSize(stream, Here) \in Nat
           /\ Len(Delivery.bytes) + 1 = PacketSize(stream, Here)
           /\ Body(raw_stream, parsed_size) = Body(stream, Here)
           /\ Delivery.bytes = SubSeq(stream, Here + 1, Here + Len(Delivery.bytes))
           /\ Delivery.first => /\ IsEcmRequest(stream, Here)
                                /\ packets # << >> => End(LastPacket) < Here
           /\ ~Delivery.first => /\ packets # << >>
                                 /\ Here = End(LastPacket)
  <1>1. /\ Len(raw_stream) \in Nat /\ dropped \in Nat /\ parsed_size \in Nat
        /\ fed \in Nat /\ raw_stream \in Seq(Byte) /\ stream \in Seq(Byte)
        /\ n_sync_packets \in Nat /\ Here \in Nat
        /\ PacketLeft /\ Len(raw_stream) - parsed_size >= MinSize
    BY LenProperties DEF IInv, TypeOK, Here, Deliver, PacketLeft
  <1>2. Delivery \in Packet
    BY <1>1, AheadFacts DEF Delivery, Packet
  <1>3. packets' = Append(packets, Delivery)
    BY DEF Deliver, Delivery, Here
  <1>4. Len(Delivery.bytes) + 1 = PacketSize(stream, Here)
    BY <1>1, AheadFacts, Constants DEF Delivery
  <1>5. Delivery.first => /\ IsEcmRequest(stream, Here)
                          /\ packets # << >> => End(LastPacket) < Here
    <2> HAVE Delivery.first
    <2>0. Delivery.first = (n_sync_packets + 1 = 1)
      BY Zenon DEF Delivery
    <2>1. n_sync_packets = 0
      <3>1. n_sync_packets + 1 = 1
        BY <2>0
      <3> QED
        BY <1>1, <3>1
    <2>2. /\ parsed_size = 0 /\ AtRequest
          /\ packets # << >> => End(LastPacket) < dropped
      BY <2>1 DEF IInv, Linked, Deliver
    <2>3. \A i \in 1 .. CommandEnd : raw_stream[parsed_size + i] = stream[Here + i]
      <3>1. \A i \in 1 .. CommandEnd : i \in 1 .. Len(raw_stream) - parsed_size
        BY <1>1, Constants
      <3> QED
        BY <1>1, <3>1, AheadFacts
    <2>4. IsEcmRequest(stream, Here)
      BY <1>1, <2>2, <2>3, EcmShift DEF AtRequest
    <2> QED
      BY <1>1, <2>2, <2>4 DEF Here
  <1>6. ~Delivery.first => packets # << >> /\ Here = End(LastPacket)
    <2> HAVE ~Delivery.first
    <2>0. Delivery.first = (n_sync_packets + 1 = 1)
      BY Zenon DEF Delivery
    <2>1. n_sync_packets > 0
      <3>1. n_sync_packets + 1 # 1
        BY <2>0
      <3> QED
        BY <1>1, <3>1
    <2> QED
      BY <2>1 DEF IInv, Linked, Deliver, Here
  <1>7. Delivery.bytes = SubSeq(stream, Here + 1, Here + Len(Delivery.bytes))
    <2>1. Delivery.bytes = SubSeq(stream, Here + 1, Here + HeaderSize + PayloadLen(stream, Here))
      BY <1>1, AheadFacts DEF Delivery, Body
    <2>2. Here + HeaderSize + PayloadLen(stream, Here) = Here + Len(Delivery.bytes)
      <3>1. Len(Delivery.bytes) = HeaderSize + PayloadLen(stream, Here)
        BY <1>1, AheadFacts DEF Delivery
      <3> QED
        BY <1>1, <3>1, AheadFacts, Constants
    <2> QED
      BY <2>1, <2>2
  <1> QED
    BY <1>1, <1>2, <1>3, <1>4, <1>5, <1>6, <1>7, AheadFacts

\* A delivery keeps the promises to the callback and moves the parser to the
\* end of the packet.
LEMMA DeliverIInv == IInv /\ Deliver => IInv'
  <1> SUFFICES ASSUME IInv, Deliver PROVE IInv'
    OBVIOUS
  <1>1. /\ Len(raw_stream) \in Nat /\ dropped \in Nat /\ parsed_size \in Nat
        /\ fed \in Nat /\ raw_stream \in Seq(Byte) /\ n_sync_packets \in Nat
        /\ pos \in Nat /\ packets \in Seq(Packet)
    BY LenProperties DEF IInv, TypeOK
  <1>2. /\ Delivery \in Packet
        /\ packets' = Append(packets, Delivery)
    BY DeliveryFacts
  <1>3. /\ packets' \in Seq(Packet)
        /\ Len(packets) \in Nat
        /\ Len(packets') = Len(packets) + 1
        /\ \A i \in 1 .. Len(packets) : packets'[i] = packets[i]
        /\ packets'[Len(packets) + 1] = Delivery
    <2> HIDE DEF Packet
    <2> QED BY <1>1, <1>2, AppendProperties, LenProperties
  <1>4. /\ PacketSize(raw_stream, parsed_size) \in Nat
        /\ PacketSize(raw_stream, parsed_size) <= Len(raw_stream) - parsed_size
        /\ ByteSize(raw_stream, parsed_size) \in Nat
        /\ ByteSize(raw_stream, parsed_size) <= PacketSize(raw_stream, parsed_size)
    <2>1. parsed_size + HeaderSize <= Len(raw_stream)
      BY <1>1, Constants DEF Deliver, PacketLeft
    <2> QED
      BY <1>1, <2>1, SizeFacts DEF Deliver, PacketLeft
  <1>5. TypeOK'
    BY <1>1, <1>3, <1>4 DEF IInv, TypeOK, Deliver, input
  <1>6. Window' /\ ParsedInBuffer'
    <2>1. /\ raw_stream' = raw_stream /\ dropped' = dropped /\ fed' = fed
          /\ stream' = stream /\ pc' = "parse"
          /\ parsed_size' = parsed_size + ByteSize(raw_stream, parsed_size)
      BY DEF Deliver, input
    <2>2. Window'
      BY <2>1 DEF IInv, Window
    <2>3. parsed_size' <= Len(raw_stream')
      BY <1>1, <1>4, <2>1
    <2> QED
      BY <2>1, <2>2, <2>3 DEF ParsedInBuffer
  <1>7. Linked'
    <2>1. LastPacket' = Delivery
      BY <1>3 DEF LastPacket
    <2>2. Extent(Delivery) = ByteSize(raw_stream, parsed_size)
      BY DeliveryFacts DEF Extent, ByteSize
    <2>3. End(Delivery) = dropped + (parsed_size + ByteSize(raw_stream, parsed_size))
      BY <1>1, <1>4, <2>2 DEF End, Delivery, Here
    <2>4. End(LastPacket)' = dropped' + parsed_size'
      BY <2>1, <2>3 DEF Deliver, End, Extent
    <2>5. n_sync_packets' > 0 /\ packets' # << >> /\ is_synced'
      BY <1>1, <1>3 DEF Deliver
    <2> QED
      BY <2>4, <2>5 DEF Linked
  <1>8. PacketsIntact'
    <2> SUFFICES ASSUME NEW i \in 1 .. Len(packets')
                 PROVE  /\ packets'[i].at + Len(packets'[i].bytes) < fed
                        /\ packets'[i].bytes = SubSeq(stream, packets'[i].at + 1,
                                          packets'[i].at + Len(packets'[i].bytes))
      BY DEF PacketsIntact, Deliver, input
    <2>1. CASE i \in 1 .. Len(packets)
      BY <1>3, <2>1 DEF IInv, Delivered, PacketsIntact
    <2>2. CASE i = Len(packets) + 1
      <3>1. packets'[i].at = Here
        BY <1>3, <2>2 DEF Delivery
      <3>2. Len(Delivery.bytes) \in Nat
        BY <1>2, LenProperties DEF Packet
      <3>3. Here + Len(Delivery.bytes) < fed
        BY <3>2, DeliveryFacts
      <3>4. Delivery.bytes = SubSeq(stream, Here + 1, Here + Len(Delivery.bytes))
        BY DeliveryFacts
      <3>5. packets'[i] = Delivery
        BY <1>3, <2>2
      <3> QED
        BY <3>1, <3>3, <3>4, <3>5
    <2> QED
      BY <1>3, <2>1, <2>2
  <1>9. FirstIffGap'
    <2> SUFFICES ASSUME NEW i \in 1 .. Len(packets') - 1
                 PROVE  IF packets'[i + 1].first
                        THEN packets'[i + 1].at > End(packets'[i])
                        ELSE packets'[i + 1].at = End(packets'[i])
      BY DEF FirstIffGap
    <2>1. CASE i \in 1 .. Len(packets) - 1
      <3>1. i \in 1 .. Len(packets) /\ i + 1 \in 1 .. Len(packets)
        BY <1>3, <2>1
      <3>2. packets'[i] = packets[i] /\ packets'[i + 1] = packets[i + 1]
        BY <1>3, <3>1
      <3> QED
        BY <2>1, <3>2 DEF IInv, Delivered, FirstIffGap
    <2>2. CASE i = Len(packets)
      <3>1. /\ packets'[i] = LastPacket /\ packets'[i + 1] = Delivery
            /\ packets # << >>
        BY <1>3, <2>2 DEF LastPacket
      <3>2. packets'[i + 1].at = Here
        BY <3>1 DEF Delivery
      <3>3. Here \in Nat /\ End(LastPacket) \in Nat
        BY <3>1, DeliveryFacts, LastFacts DEF IInv
      <3>4. Delivery.first => Here > End(LastPacket)
        BY <3>1, <3>3, DeliveryFacts
      <3>5. ~Delivery.first => Here = End(LastPacket)
        BY DeliveryFacts
      <3> QED
        BY <3>1, <3>2, <3>4, <3>5
    <2> QED
      BY <1>3, <2>1, <2>2
  <1>10. FirstIsRequest'
    <2> SUFFICES ASSUME NEW i \in 1 .. Len(packets')
                 PROVE  /\ packets'[i].first => IsEcmRequest(stream, packets'[i].at)
                        /\ i = 1 => packets'[i].first
      BY DEF FirstIsRequest, Deliver, input
    <2>1. CASE i \in 1 .. Len(packets)
      BY <1>3, <2>1 DEF IInv, Delivered, FirstIsRequest
    <2>2. CASE i = Len(packets) + 1
      <3>1. packets'[i] = Delivery /\ packets'[i].at = Here
        BY <1>3, <2>2 DEF Delivery
      <3>2. i = 1 => packets = << >>
        BY <1>1, <1>3, <2>2, EmptySeq
      <3> QED
        BY <3>1, <3>2, DeliveryFacts
    <2> QED
      BY <1>3, <2>1, <2>2
  <1> QED
    BY <1>5, <1>6, <1>7, <1>8, <1>9, <1>10 DEF IInv, Delivered

LEMMA StutterIInv == IInv /\ UNCHANGED vars => IInv'
  BY DEF vars, self, input, IInv, TypeOK, Window, ParsedInBuffer, Linked,
         AtRequest, LastPacket, End, Extent, Delivered, PacketsIntact, FirstIffGap,
         FirstIsRequest

\* Every step of the parser preserves the invariant.
LEMMA NextIInv == IInv /\ [Next]_vars => IInv'
  <1> SUFFICES ASSUME IInv, [Next]_vars PROVE IInv'
    OBVIOUS
  <1>1. ASSUME NEW n \in 1 .. Len(stream), Push(n) PROVE IInv'
    BY <1>1, PushIInv
  <1>2. ASSUME NEW skip \in 0 .. Len(raw_stream), Resync(skip) PROVE IInv'
    BY <1>2, ResyncIInv
  <1>3. ASSUME NEW skip \in 0 .. Len(raw_stream), CouldntSync(skip) PROVE IInv'
    BY <1>3, CouldntSyncIInv
  <1>4. CASE Starved
    BY <1>4, StarvedIInv
  <1>5. CASE Corrupt
    BY <1>5, CorruptIInv
  <1>6. CASE Deliver
    BY <1>6, DeliverIInv
  <1>7. CASE UNCHANGED vars
    BY <1>7, StutterIInv
  <1> QED
    BY <1>1, <1>2, <1>3, <1>4, <1>5, <1>6, <1>7 DEF Next, Parse

-----------------------------------------------------------------------------
(* Theorems *)

\* The invariant holds in every reachable state of the parser.
THEOREM Invariance == Spec => []IInv
  BY InitIInv, NextIInv, PTL DEF Spec

\* Type correctness: what bcas_stream.c keeps in its guint variables is a
\* number of bytes that fits the stream, and the buffer holds bytes.
THEOREM TypeCorrect == Spec => []TypeOK
  <1>1. IInv => TypeOK
    BY DEF IInv
  <1> QED
    BY <1>1, Invariance, PTL

\* Whatever the stream and however it is cut into pushes, every packet given
\* to the callback is a stretch of the stream that was received whole.
THEOREM DeliversIntactPackets == Spec => []PacketsIntact
  <1>1. IInv => PacketsIntact
    BY DEF IInv, Delivered
  <1> QED
    BY <1>1, Invariance, PTL

\* is_first_sync is set exactly on the packets before which bytes were lost.
THEOREM FlagsEveryGap == Spec => []FirstIffGap
  <1>1. IInv => FirstIffGap
    BY DEF IInv, Delivered
  <1> QED
    BY <1>1, Invariance, PTL

\* The first packet, and every packet after a loss, is an ECM request.
THEOREM ResumesOnRequest == Spec => []FirstIsRequest
  <1>1. IInv => FirstIsRequest
    BY DEF IInv, Delivered
  <1> QED
    BY <1>1, Invariance, PTL

-----------------------------------------------------------------------------
(* The parser implements PacketFeed *)

\* PacketFeed is about the same packet format.
LEMMA SameFormat ==
    /\ Feed!CommandEnd = CommandEnd
    /\ \A q : Feed!End(q) = End(q)
    /\ \A q : Feed!Long(q) = Long(q)
    /\ \A s : Feed!XorOf(s) = XorOf(s)
    /\ \A s, k : Feed!PacketSize(s, k) = PacketSize(s, k)
    /\ \A s, k : Feed!Body(s, k) = Body(s, k)
    /\ \A s, k : Feed!IsEcmRequest(s, k) = IsEcmRequest(s, k)
  <1>1. /\ Feed!CommandEnd = CommandEnd
        /\ \A q : Feed!End(q) = End(q)
        /\ \A q : Feed!Long(q) = Long(q)
        /\ \A s, k : Feed!PacketSize(s, k) = PacketSize(s, k)
        /\ \A s, k : Feed!Body(s, k) = Body(s, k)
    BY DEF Feed!CommandEnd, CommandEnd, Feed!End, End, Feed!Extent, Extent,
           Feed!Long, Long, Feed!PacketSize, PacketSize, Feed!Body, Body,
           Feed!PayloadLen, PayloadLen
  <1>2. \A s : Feed!XorOf(s) = XorOf(s)
    BY DEF Feed!XorOf, XorOf
  <1>3. \A s, k : Feed!IsEcmRequest(s, k) = IsEcmRequest(s, k)
    BY DEF Feed!IsEcmRequest, IsEcmRequest
  <1> QED
    BY <1>1, <1>2, <1>3

\* The checksum of the packet delivered fits, unless its size wraps.
LEMMA DeliverySound ==
    ASSUME IInv, Deliver
    PROVE  Long(Delivery) \/ XorOf(Delivery.bytes) = stream[Here + PacketSize(stream, Here)]
  <1> SUFFICES ASSUME ~Long(Delivery)
               PROVE  XorOf(Delivery.bytes) = stream[Here + PacketSize(stream, Here)]
    OBVIOUS
  <1>1. /\ PacketSize(stream, Here) \in Nat
        /\ PacketSize(stream, Here) < ByteCount
    BY DeliveryFacts, Constants DEF Long
  <1>2. PacketSize(stream, Here) % ByteCount = PacketSize(stream, Here)
    BY <1>1, Constants
  <1>3. ByteSize(raw_stream, parsed_size) = PacketSize(stream, Here)
    BY <1>2, DeliveryFacts DEF ByteSize
  <1>4. /\ parsed_size \in Nat /\ dropped \in Nat /\ Len(raw_stream) \in Nat
        /\ PacketSize(stream, Here) > 0
        /\ parsed_size + PacketSize(stream, Here) <= Len(raw_stream)
    <2>1. /\ parsed_size \in Nat /\ dropped \in Nat
          /\ Len(raw_stream) \in Nat /\ raw_stream \in Seq(Byte)
      BY LenProperties DEF IInv, TypeOK
    <2>2. parsed_size + HeaderSize <= Len(raw_stream)
      BY <2>1, Constants DEF Deliver, PacketLeft
    <2>3. PacketSize(stream, Here) > 0
      BY <2>1, <2>2, SizeFacts, DeliveryFacts, Constants
    <2>4. Len(raw_stream) - parsed_size >= PacketSize(stream, Here)
      BY DeliveryFacts DEF Deliver, PacketLeft
    <2> QED
      BY <1>1, <2>1, <2>3, <2>4
  <1>5. ChecksumBytes(raw_stream, parsed_size)
           = {raw_stream[parsed_size + PacketSize(stream, Here)]}
    BY <1>1, <1>3, <1>4 DEF ChecksumBytes
  <1>6. raw_stream[parsed_size + PacketSize(stream, Here)]
           = stream[dropped + (parsed_size + PacketSize(stream, Here))]
    BY <1>1, <1>4 DEF IInv, Window
  <1>7. XorOf(Body(raw_stream, parsed_size)) = stream[Here + PacketSize(stream, Here)]
    BY <1>1, <1>4, <1>5, <1>6 DEF Deliver, Here
  <1> QED
    BY <1>7 DEF Delivery

\* A delivery is an emission of the feed.
LEMMA DeliverEmits == IInv /\ Deliver => Feed!Next
  <1> SUFFICES ASSUME IInv, Deliver PROVE Feed!Next
    OBVIOUS
  <1>1. Here \in 0 .. fed - CommandEnd
    BY DeliveryFacts, Constants
  <1>2. Delivery.first \in BOOLEAN
    BY DeliveryFacts DEF Packet
  <1> DEFINE q == [at |-> Here, bytes |-> Body(stream, Here),
                   first |-> Delivery.first]
  <1>3. q = Delivery
    BY DeliveryFacts DEF Delivery
  <1>4. Long(q) \/ XorOf(q.bytes) = stream[Here + PacketSize(stream, Here)]
    BY <1>3, DeliverySound
  <1>5. IF Delivery.first
        THEN /\ IsEcmRequest(stream, Here)
             /\ packets # << >> => Here > Feed!LastEnd
        ELSE /\ packets # << >>
             /\ Here = Feed!LastEnd
    <2>1. Feed!LastEnd = End(LastPacket)
      BY SameFormat DEF Feed!LastEnd, LastPacket
    <2>2. packets # << >> => End(LastPacket) \in Nat
      BY LastFacts DEF IInv
    <2>3. packets # << >> /\ End(LastPacket) < Here => Here > End(LastPacket)
      BY <2>2, DeliveryFacts
    <2> QED
      BY <2>1, <2>3, DeliveryFacts
  <1>6. packets' = Append(packets, q) /\ UNCHANGED <<stream, fed>>
    BY <1>3, DeliveryFacts DEF Deliver, input
  <1>7. Feed!Emit(Here, Delivery.first)
    <2>1. Here + PacketSize(stream, Here) <= fed
      BY DeliveryFacts
    <2> QED
      BY <1>4, <1>5, <1>6, <2>1, SameFormat DEF Feed!Emit
  <1> QED
    BY <1>1, <1>2, <1>7, SameFormat DEF Feed!Next

\* What no callback sees is a reception or no step of the feed.
LEMMA StepSimulation == IInv /\ [Next]_vars => [Feed!Next]_Feed!vars
  <1> SUFFICES ASSUME IInv, [Next]_vars PROVE [Feed!Next]_Feed!vars
    OBVIOUS
  <1>1. ASSUME NEW n \in 1 .. Len(stream), Push(n) PROVE Feed!Next
    <2>1. fed \in Nat /\ Len(stream) \in Nat
      BY LenProperties DEF IInv, TypeOK
    <2>2. Feed!Receive
      BY <1>1, <2>1 DEF Push, Feed!Receive
    <2> QED
      BY <2>2 DEF Feed!Next
  <1>2. CASE Deliver
    BY <1>2, DeliverEmits
  <1>3. ASSUME NEW skip \in 0 .. Len(raw_stream), Resync(skip) \/ CouldntSync(skip)
        PROVE  UNCHANGED Feed!vars
    BY <1>3 DEF Resync, CouldntSync, input, Feed!vars
  <1>4. CASE Starved \/ Corrupt
    BY <1>4 DEF Starved, Corrupt, input, Feed!vars
  <1>5. CASE UNCHANGED vars
    BY <1>5 DEF vars, input, Feed!vars
  <1> QED
    BY <1>1, <1>2, <1>3, <1>4, <1>5 DEF Next, Parse

\* The parser implements what PacketFeed promises to the callback.
THEOREM ImplementsFeed == Spec => FeedSpec
  <1>1. Init => Feed!Init
    BY DEF Init, Feed!Init
  <1> QED
    BY <1>1, StepSimulation, Invariance, PTL DEF Spec, FeedSpec, Feed!Spec

-----------------------------------------------------------------------------
(***************************************************************************)
(* The way to the card.  While every loss was noticed, the packets the     *)
(* parser delivers are the card's: a packet inside of which something was  *)
(* lost would leave that loss unnoticed, and so would one that follows     *)
(* another over a loss.                                                    *)
(***************************************************************************)

\* The packets come in the order of the stream.
Ordered ==
    \A i, j \in 1 .. Len(packets) : i < j => End(packets[i]) <= packets[j].at

\* What is received.
Source(r) == stream = r.stream /\ losses = r.losses

\* The parser goes on where a packet of the card begins, and the pseudo card knows the
\* request before it.  A size that wraps to 0 leaves the parser where it is; and at a
\* loss nothing is known.
Paired(r) ==
    packets # << >> =>
        /\ synced
        /\ IF Extent(LastPacket) = 0
           THEN LastPacket.bytes = Body(stream, End(LastPacket))
           ELSE End(LastPacket) \notin losses =>
                   /\ End(LastPacket) \in DOMAIN r.ecm
                   /\ asked = r.ecm[End(LastPacket)]

PathIInv ==
    /\ IInv
    /\ Ordered
    /\ \E r \in Received : Source(r) /\ (Unnoticed = {} => Paired(r))

-----------------------------------------------------------------------------
(* Lemmas on payloads *)

\* The payload of the packet at offset k of s.
LEMMA WrittenFacts ==
    ASSUME NEW s \in Seq(Byte), NEW k \in Nat, k + HeaderSize <= Len(s),
           k + PacketSize(s, k) <= Len(s), NEW q, q.bytes = Body(s, k)
    PROVE  /\ Written(q) \in Seq(Byte)
           /\ Len(Written(q)) \in Nat
           /\ Len(q.bytes) = HeaderSize + Len(Written(q))
           /\ PacketSize(s, k) = Len(q.bytes) + 1
           /\ \A i \in 1 .. Len(Written(q)) : Written(q)[i] = s[k + HeaderSize + i]
  <1>1. /\ Body(s, k) \in Seq(Byte)
        /\ Len(Body(s, k)) = HeaderSize + PayloadLen(s, k)
        /\ \A i \in 1 .. Len(Body(s, k)) : Body(s, k)[i] = s[k + i]
    BY BodyFacts
  <1>2. /\ PayloadLen(s, k) \in Nat
        /\ PacketSize(s, k) = HeaderSize + PayloadLen(s, k) + 1
    BY SizeFacts
  <1>3. HeaderSize \in 0 .. Len(Body(s, k))
    BY <1>1, <1>2, Constants
  <1>4. Written(q) = Drop(Body(s, k), HeaderSize)
    BY DEF Written, Drop
  <1>5. /\ Written(q) \in Seq(Byte)
        /\ Len(Written(q)) = Len(Body(s, k)) - HeaderSize
        /\ \A i \in 1 .. Len(Body(s, k)) - HeaderSize :
              Written(q)[i] = Body(s, k)[HeaderSize + i]
    BY <1>1, <1>3, <1>4, DropFacts
  <1>6. Len(Written(q)) = PayloadLen(s, k)
    BY <1>1, <1>2, <1>5, Constants
  <1>7. ASSUME NEW i \in 1 .. Len(Written(q))
        PROVE  Written(q)[i] = s[k + HeaderSize + i]
    <2>1. HeaderSize + i \in 1 .. Len(Body(s, k))
      BY <1>1, <1>2, <1>6, Constants
    <2>2. Written(q)[i] = s[k + (HeaderSize + i)]
      BY <1>1, <1>5, <2>1
    <2> QED
      BY <2>2, Constants
  <1> QED
    BY <1>1, <1>2, <1>5, <1>6, <1>7, Constants

\* A prefix, element by element.
LEMMA PrefixFacts ==
    ASSUME NEW c \in Seq(Byte), NEW s \in Seq(Byte)
    PROVE  IsPrefix(c, s) <=> Len(c) <= Len(s) /\ \A i \in 1 .. Len(c) : c[i] = s[i]
  <1>1. Len(c) \in Nat /\ Len(s) \in Nat
    BY LenProperties
  <1> SUFFICES ASSUME Len(c) <= Len(s)
               PROVE  SubSeq(c, 1, Len(c)) = SubSeq(s, 1, Len(c))
                         <=> \A i \in 1 .. Len(c) : c[i] = s[i]
    BY DEF IsPrefix
  <1>2. /\ \A i \in 1 .. Len(c) : c[i] \in Byte
        /\ \A i \in 1 .. Len(c) : s[i] \in Byte
    BY <1>1, LenProperties
  <1> HIDE DEF Byte
  <1>3. /\ SubSeq(c, 1, Len(c)) \in Seq(Byte)
        /\ Len(SubSeq(c, 1, Len(c))) = IF 1 <= Len(c) THEN Len(c) - 1 + 1 ELSE 0
        /\ \A i \in 1 .. Len(c) - 1 + 1 : SubSeq(c, 1, Len(c))[i] = c[1 + i - 1]
    BY <1>1, <1>2, SubSeqProperties
  <1>4. /\ SubSeq(s, 1, Len(c)) \in Seq(Byte)
        /\ Len(SubSeq(s, 1, Len(c))) = IF 1 <= Len(c) THEN Len(c) - 1 + 1 ELSE 0
        /\ \A i \in 1 .. Len(c) - 1 + 1 : SubSeq(s, 1, Len(c))[i] = s[1 + i - 1]
    BY <1>1, <1>2, SubSeqProperties
  <1>5. Len(c) - 1 + 1 = Len(c) /\ \A i \in 1 .. Len(c) : 1 + i - 1 = i
    BY <1>1
  <1>6. /\ Len(SubSeq(c, 1, Len(c))) = Len(c)
        /\ Len(SubSeq(s, 1, Len(c))) = Len(c)
        /\ \A i \in 1 .. Len(c) : SubSeq(c, 1, Len(c))[i] = c[i]
        /\ \A i \in 1 .. Len(c) : SubSeq(s, 1, Len(c))[i] = s[i]
    BY <1>1, <1>3, <1>4, <1>5
  <1>7. ASSUME SubSeq(c, 1, Len(c)) = SubSeq(s, 1, Len(c))
        PROVE  \A i \in 1 .. Len(c) : c[i] = s[i]
    BY <1>6, <1>7
  <1>8. ASSUME \A i \in 1 .. Len(c) : c[i] = s[i]
        PROVE  SubSeq(c, 1, Len(c)) = SubSeq(s, 1, Len(c))
    BY <1>3, <1>4, <1>6, <1>8, SeqEqual
  <1> QED
    BY <1>7, <1>8

\* What parse_packet may find in a payload begins with what was written, and there is
\* enough of it for a command and an ECM.
LEMMA PayloadFacts ==
    ASSUME NEW q, Written(q) \in Seq(Byte), NEW payload \in Payloads(q)
    PROVE  /\ payload \in Seq(Byte)
           /\ Len(payload) \in Nat
           /\ Len(payload) > Len(Command)
           /\ Len(payload) >= Len(Written(q))
           /\ \A i \in 1 .. Len(Written(q)) : payload[i] = Written(q)[i]
  <1> DEFINE w == Written(q)
             n == Len(Command) + 1 - Len(w)
             m == IF n > 0 THEN n ELSE 0
  <1>1. Len(w) \in Nat /\ Len(Command) \in Nat /\ w \in Seq(Byte)
    BY Constants, LenProperties
  <1>2. PICK rest \in [1 .. n -> Byte] : payload = w \o rest
    BY DEF Payloads
  <1>3. m \in Nat /\ 1 .. n = 1 .. m /\ n <= m
    BY <1>1
  <1>4. rest \in Seq(Byte) /\ Len(rest) = m
    <2>1. rest \in [1 .. m -> Byte]
      BY <1>2, <1>3
    <2> HIDE DEF m, Byte
    <2>2. rest \in Seq(Byte)
      BY <1>3, <2>1, SeqDef
    <2>3. DOMAIN rest = 1 .. Len(rest) /\ Len(rest) \in Nat
      BY <2>2, LenProperties
    <2>4. 1 .. Len(rest) = 1 .. m
      BY <2>1, <2>3
    <2> QED
      BY <1>3, <2>2, <2>3, <2>4
  <1>5. /\ payload \in Seq(Byte)
        /\ Len(payload) = Len(w) + Len(rest)
        /\ \A i \in 1 .. Len(w) + Len(rest) :
              payload[i] = IF i <= Len(w) THEN w[i] ELSE rest[i - Len(w)]
    <2> HIDE DEF w, m, n, Byte
    <2> QED
      BY <1>1, <1>2, <1>4, ConcatProperties
  <1>6. \A i \in 1 .. Len(w) : payload[i] = w[i]
    BY <1>1, <1>3, <1>4, <1>5
  <1>7. Len(payload) \in Nat /\ Len(payload) > Len(Command) /\ Len(payload) >= Len(w)
    BY <1>1, <1>3, <1>4, <1>5
  <1> QED
    BY <1>5, <1>6, <1>7

\* Requests and responses are told by what was written, and so is what they carry, as
\* far as that reaches.
LEMMA KindFacts ==
    ASSUME NEW q, Written(q) \in Seq(Byte), NEW payload \in Payloads(q),
           Len(Written(q)) >= Len(Command)
    PROVE  /\ IsRequest(payload) <=> IsRequest(Written(q))
           /\ Len(Written(q)) > Len(Command) => EcmOf(payload) = EcmOf(Written(q))
           /\ Len(q.bytes) = HeaderSize + Len(Written(q)) =>
                 /\ IsResponse(q, payload) <=> IsResponse(q, Written(q))
                 /\ IsResponse(q, payload) => KeyOf(payload) = KeyOf(Written(q))
  <1> DEFINE w == Written(q)
  <1>1. /\ payload \in Seq(Byte) /\ Len(payload) \in Nat
        /\ Len(payload) > Len(Command) /\ Len(payload) >= Len(w)
        /\ \A i \in 1 .. Len(w) : payload[i] = w[i]
    BY PayloadFacts
  <1>2. /\ Len(w) \in Nat /\ Len(Command) \in Nat /\ Len(ResponseStart) \in Nat
        /\ ResponseLen \in Nat /\ Len(ResponseStart) < ResponseLen /\ HeaderSize \in Nat
        /\ Command \in Seq(Byte) /\ ResponseStart \in Seq(Byte)
    BY Constants, LenProperties, SizesAssumption, ResponseAssumption
  <1>3. IsRequest(payload) <=> IsRequest(w)
    <2>1. \A i \in 1 .. Len(Command) : payload[i] = w[i]
      BY <1>1, <1>2
    <2> QED
      BY <1>1, <1>2, <2>1, PrefixFacts DEF IsRequest
  <1>4. Len(w) > Len(Command) => EcmOf(payload) = EcmOf(w)
    BY <1>1, <1>2 DEF EcmOf
  <1>5. ASSUME Len(q.bytes) = HeaderSize + Len(w), Len(q.bytes) = HeaderSize + ResponseLen
        PROVE  /\ IsPrefix(ResponseStart, payload) <=> IsPrefix(ResponseStart, w)
               /\ KeyOf(payload) = KeyOf(w)
    <2>1. Len(w) > Len(ResponseStart)
      BY <1>2, <1>5
    <2>2. \A i \in 1 .. Len(ResponseStart) : payload[i] = w[i]
      BY <1>1, <1>2, <2>1
    <2>3. IsPrefix(ResponseStart, payload) <=> IsPrefix(ResponseStart, w)
      BY <1>1, <1>2, <2>1, <2>2, PrefixFacts
    <2> QED
      BY <1>1, <1>2, <2>1, <2>3 DEF KeyOf
  <1> QED
    BY <1>3, <1>4, <1>5 DEF IsResponse

\* The parser's look at a request and the one at its payload agree.
LEMMA RequestFacts ==
    ASSUME NEW s \in Seq(Byte), NEW k \in Nat, k + HeaderSize <= Len(s),
           k + PacketSize(s, k) <= Len(s), NEW q, q.bytes = Body(s, k),
           Len(Written(q)) >= Len(Command)
    PROVE  IsRequest(Written(q)) <=> IsEcmRequest(s, k)
  <1>1. /\ Written(q) \in Seq(Byte) /\ Len(Written(q)) \in Nat
        /\ \A i \in 1 .. Len(Written(q)) : Written(q)[i] = s[k + HeaderSize + i]
    BY WrittenFacts
  <1>2. Command \in Seq(Byte) /\ Len(Command) \in Nat
    BY SizesAssumption, Constants
  <1>3. \A i \in 1 .. Len(Command) : Written(q)[i] = s[k + HeaderSize + i]
    BY <1>1, <1>2
  <1> QED
    BY <1>1, <1>2, <1>3, PrefixFacts DEF IsRequest, IsEcmRequest

-----------------------------------------------------------------------------
(* Where a packet lies between the losses *)

\* The packets so far stay, and the new one comes behind them.
LEMMA AppendedFacts ==
    ASSUME PathIInv, Deliver
    PROVE  /\ Len(packets) \in Nat
           /\ Len(packets') = Len(packets) + 1
           /\ \A i \in 1 .. Len(packets) : packets'[i] = packets[i]
           /\ packets'[Len(packets) + 1] = Delivery
           /\ Last(packets') = Delivery /\ LastPacket' = Delivery
           /\ packets' # << >>
           /\ \A i \in 1 .. Len(packets) : /\ packets[i] \in Packet
                                           /\ End(packets[i]) \in Nat
                                           /\ End(packets[i]) <= Here
           /\ Here \in Nat
           /\ Extent(Delivery) \in Nat
           /\ End(Delivery) = Here + Extent(Delivery)
  <1>1. /\ packets \in Seq(Packet) /\ Len(packets) \in Nat
        /\ \A i \in 1 .. Len(packets) : packets[i] \in Packet
    BY LenProperties DEF PathIInv, IInv, TypeOK
  <1>2. Delivery \in Packet /\ packets' = Append(packets, Delivery) /\ Here \in Nat
    BY DeliveryFacts DEF PathIInv
  <1>3. /\ packets' \in Seq(Packet)
        /\ Len(packets') = Len(packets) + 1
        /\ \A i \in 1 .. Len(packets) : packets'[i] = packets[i]
        /\ packets'[Len(packets) + 1] = Delivery
    <2> HIDE DEF Packet
    <2> QED BY <1>1, <1>2, AppendProperties, LenProperties
  <1>4. ASSUME NEW q \in Packet
        PROVE  q.at \in Nat /\ Extent(q) \in Nat /\ End(q) = q.at + Extent(q)
    <2>1. q.at \in Nat /\ Len(q.bytes) \in Nat
      BY LenProperties DEF Packet
    <2>2. Len(q.bytes) + 1 \in Nat
      BY <2>1
    <2>3. \A n \in Nat : n % ByteCount \in Nat
      BY Constants
    <2> QED
      BY <2>1, <2>2, <2>3 DEF Extent, End
  <1>5. ASSUME NEW i \in 1 .. Len(packets)
        PROVE  End(packets[i]) \in Nat /\ End(packets[i]) <= Here
    <2>1. packets[i] \in Packet /\ LastPacket \in Packet
      BY <1>1 DEF LastPacket
    <2>2. /\ End(packets[i]) \in Nat /\ LastPacket.at \in Nat
          /\ End(LastPacket) \in Nat /\ LastPacket.at <= End(LastPacket)
      BY <1>4, <2>1
    <2>3. End(packets[i]) <= End(LastPacket)
      <3>1. CASE i = Len(packets)
        BY <2>2, <3>1 DEF LastPacket
      <3>2. CASE i < Len(packets)
        <4>1. End(packets[i]) <= LastPacket.at
          BY <1>1, <3>2 DEF PathIInv, Ordered, LastPacket
        <4> QED
          BY <2>2, <4>1
      <3> QED
        BY <1>1, <3>1, <3>2
    <2>4. End(LastPacket) <= Here
      <3>1. packets # << >>
        BY <1>1
      <3>2. /\ Delivery.first => End(LastPacket) < Here
            /\ ~Delivery.first => Here = End(LastPacket)
        BY <3>1, DeliveryFacts DEF PathIInv
      <3> QED
        BY <1>2, <2>2, <3>2
    <2> QED
      BY <1>2, <2>2, <2>3, <2>4
  <1>6. Last(packets') = Delivery /\ LastPacket' = Delivery
    BY <1>3 DEF Last, LastPacket
  <1>7. packets' # << >>
    BY <1>1, <1>3
  <1>8. Extent(Delivery) \in Nat /\ End(Delivery) = Here + Extent(Delivery)
    BY <1>2, <1>4 DEF Delivery
  <1>9. \A i \in 1 .. Len(packets) : /\ packets[i] \in Packet
                                     /\ End(packets[i]) \in Nat
                                     /\ End(packets[i]) <= Here
    BY <1>1, <1>5
  <1>10. Len(packets) \in Nat /\ Here \in Nat
    BY <1>1, <1>2
  <1> QED
    BY <1>3, <1>6, <1>7, <1>8, <1>9, <1>10

LEMMA OrderedKept == PathIInv /\ Deliver => Ordered'
  <1> SUFFICES ASSUME PathIInv, Deliver,
                      NEW i \in 1 .. Len(packets'), NEW j \in 1 .. Len(packets'), i < j
               PROVE  End(packets'[i]) <= packets'[j].at
    BY DEF Ordered
  <1>0. Len(packets) \in Nat /\ Len(packets') = Len(packets) + 1
    BY AppendedFacts
  <1>1. /\ i \in 1 .. Len(packets) /\ packets'[i] = packets[i]
        /\ j \in 1 .. Len(packets) \/ j = Len(packets) + 1
    <2>1. i \in 1 .. Len(packets) /\ (j \in 1 .. Len(packets) \/ j = Len(packets) + 1)
      BY <1>0
    <2>2. packets'[i] = packets[i]
      BY <2>1, AppendedFacts
    <2> QED
      BY <2>1, <2>2
  <1>2. CASE j \in 1 .. Len(packets)
    BY <1>1, <1>2, AppendedFacts DEF PathIInv, Ordered
  <1>3. CASE j = Len(packets) + 1
    <2>1. packets'[j].at = Here
      BY <1>3, AppendedFacts DEF Delivery
    <2> QED
      BY <1>1, <2>1, AppendedFacts
  <1> QED
    BY <1>1, <1>2, <1>3

\* A loss that was not noticed stays so.
LEMMA UnnoticedStays == PathIInv /\ Deliver /\ losses' = losses => Unnoticed \subseteq Unnoticed'
  <1> SUFFICES ASSUME PathIInv, Deliver, losses' = losses, NEW k \in Unnoticed
               PROVE  k \in Unnoticed'
    OBVIOUS
  <1>1. PICK i \in 1 .. Len(packets) :
            /\ End(packets[i]) > k
            /\ \A j \in 1 .. i - 1 : End(packets[j]) <= k
            /\ ~packets[i].first \/ packets[i].at < k
    BY DEF Unnoticed
  <1>2. /\ i \in 1 .. Len(packets') /\ packets'[i] = packets[i]
        /\ \A j \in 1 .. i - 1 : packets'[j] = packets[j]
    BY AppendedFacts
  <1>3. /\ End(packets'[i]) > k
        /\ \A j \in 1 .. i - 1 : End(packets'[j]) <= k
        /\ ~packets'[i].first \/ packets'[i].at < k
    BY <1>1, <1>2
  <1> QED
    BY <1>2, <1>3 DEF Unnoticed

\* A loss inside of the packet delivered, or before it without a flag, was not noticed.
LEMMA LossInside ==
    ASSUME PathIInv, Deliver, losses' = losses, NEW l \in losses, l \in Nat,
           Here <= l, l < End(Delivery), ~Delivery.first \/ Here < l
    PROVE  l \in Unnoticed' /\ l \notin Unnoticed
  <1> DEFINE i == Len(packets) + 1
  <1>1. \A j \in 1 .. Len(packets) : End(packets[j]) \in Nat /\ End(packets[j]) <= l
    BY AppendedFacts
  <1>2. l \notin Unnoticed
    BY <1>1 DEF Unnoticed
  <1>3. i \in 1 .. Len(packets') /\ packets'[i] = Delivery /\ Delivery.at = Here
    BY AppendedFacts DEF Delivery
  <1>4. \A j \in 1 .. i - 1 : End(packets'[j]) <= l
    <2>1. \A j \in 1 .. i - 1 : packets'[j] = packets[j] /\ End(packets[j]) <= l
      BY <1>1, AppendedFacts
    <2> QED
      BY <2>1
  <1>5. End(packets'[i]) > l
    BY <1>3, AppendedFacts
  <1>6. ~packets'[i].first \/ packets'[i].at < l
    BY <1>3, AppendedFacts
  <1> HIDE DEF i
  <1>7. l \in Unnoticed'
    BY <1>3, <1>4, <1>5, <1>6 DEF Unnoticed
  <1> QED
    BY <1>2, <1>7

\* Nothing was lost inside of the packet delivered.
Uncut == \A l \in losses : l <= Here \/ l >= End(Delivery)

LEMMA LossesAreNat == PathIInv => losses \subseteq Nat
  <1> SUFFICES ASSUME PathIInv PROVE losses \subseteq Nat
    OBVIOUS
  <1>1. PICK r \in Received : Source(r)
    BY DEF PathIInv
  <1>2. losses \subseteq 0 .. Len(stream) /\ Len(stream) \in Nat
    BY <1>1, ReceivedAssumption, LenProperties DEF Source, PathIInv, IInv, TypeOK
  <1> QED
    BY <1>2

\* While every loss is noticed, none is inside of the packet delivered, nor before a
\* packet without the flag.
LEMMA NoLossInside ==
    ASSUME PathIInv, Deliver, losses' = losses, Unnoticed' = {}
    PROVE  /\ Uncut
           /\ ~Delivery.first /\ Here \in losses => Extent(Delivery) = 0
  <1>1. /\ Here \in Nat /\ Extent(Delivery) \in Nat
        /\ End(Delivery) = Here + Extent(Delivery)
    BY AppendedFacts
  <1>2. ASSUME NEW l \in losses, ~(l <= Here \/ l >= End(Delivery)) PROVE FALSE
    <2>1. l \in Nat /\ Here < l /\ l < End(Delivery)
      BY <1>1, <1>2, LossesAreNat
    <2> QED
      BY <1>1, <2>1, LossInside
  <1>3. ASSUME ~Delivery.first, Here \in losses, Extent(Delivery) # 0 PROVE FALSE
    <2>1. Here < End(Delivery)
      BY <1>1, <1>3
    <2> QED
      BY <1>1, <1>3, <2>1, LossInside
  <1> QED
    BY <1>2, <1>3 DEF Uncut

-----------------------------------------------------------------------------
(* What the card's packets do to the pseudo card *)

\* The bytes of the packet delivered.
LEMMA DeliveredFacts ==
    ASSUME PathIInv, Deliver
    PROVE  /\ Here \in 0 .. Len(stream) - MinSize
           /\ Here + HeaderSize <= Len(stream)
           /\ Here + PacketSize(stream, Here) <= Len(stream)
           /\ Delivery.bytes = Body(stream, Here)
           /\ Written(Delivery) \in Seq(Byte)
           /\ Len(Delivery.bytes) = HeaderSize + Len(Written(Delivery))
           /\ Extent(Delivery) = ByteSize(stream, Here)
           /\ ~Long(Delivery) =>
                 /\ Extent(Delivery) = PacketSize(stream, Here)
                 /\ Extent(Delivery) > 0
  <1>1. /\ IInv /\ Here \in Nat /\ fed \in Nat /\ fed <= Len(stream) /\ Len(stream) \in Nat
        /\ stream \in Seq(Byte)
        /\ Here + MinSize <= fed /\ Here + PacketSize(stream, Here) <= fed
        /\ PacketSize(stream, Here) \in Nat
        /\ Len(Delivery.bytes) + 1 = PacketSize(stream, Here)
        /\ Delivery.bytes = Body(stream, Here)
    BY DeliveryFacts, LenProperties DEF PathIInv, IInv, TypeOK, Delivery
  <1>2. /\ Here \in 0 .. Len(stream) - MinSize
        /\ Here + HeaderSize <= Len(stream)
        /\ Here + PacketSize(stream, Here) <= Len(stream)
    BY <1>1, Constants
  <1>3. /\ Written(Delivery) \in Seq(Byte) /\ Len(Written(Delivery)) \in Nat
        /\ Len(Delivery.bytes) = HeaderSize + Len(Written(Delivery))
    BY <1>1, <1>2, WrittenFacts
  <1>4. Extent(Delivery) = ByteSize(stream, Here)
    BY <1>1 DEF Extent, ByteSize
  <1>5. ASSUME ~Long(Delivery)
        PROVE  Extent(Delivery) = PacketSize(stream, Here) /\ Extent(Delivery) > 0
    <2>1. PacketSize(stream, Here) < ByteCount /\ PacketSize(stream, Here) > 0
      BY <1>1, <1>3, <1>5, Constants DEF Long
    <2>2. PacketSize(stream, Here) % ByteCount = PacketSize(stream, Here)
      BY <1>1, <2>1, Constants
    <2> QED
      BY <1>4, <2>1, <2>2 DEF ByteSize
  <1> QED
    BY <1>1, <1>2, <1>3, <1>4, <1>5

\* The packet delivered as CardAnswers speaks of it.
LEMMA DeliveredWhole ==
    ASSUME PathIInv, Deliver, Uncut, NEW r \in Received, Source(r)
    PROVE  /\ Here \in 0 .. Len(r.stream) - MinSize
           /\ Whole(r, Here)
  <1>1. /\ Here \in 0 .. Len(stream) - MinSize
        /\ Here + PacketSize(stream, Here) <= Len(stream)
    BY DeliveredFacts
  <1>2. End(Delivery) = Here + ByteSize(stream, Here)
    BY DeliveredFacts, AppendedFacts
  <1>3. \A l \in r.losses : l <= Here \/ l >= Here + ByteSize(stream, Here)
    BY <1>2 DEF Uncut, Source
  <1> QED
    BY <1>1, <1>3 DEF Whole, Source

\* A request that came whole is one of the card's.
LEMMA RequestIsSent ==
    ASSUME PathIInv, Deliver, Uncut, IsEcmRequest(stream, Here), NEW r \in Received, Source(r)
    PROVE  Here \in DOMAIN r.ecm
  <1>1. /\ Here \in 0 .. Len(r.stream) - MinSize /\ Whole(r, Here) /\ r.stream = stream
        /\ Delivery.bytes = Body(stream, Here)
    BY DeliveredWhole, DeliveredFacts DEF Source
  <1>2. Long(Delivery) \/ XorOf(Delivery.bytes) = stream[Here + PacketSize(stream, Here)]
    BY DeliverySound DEF PathIInv
  <1> QED
    BY <1>1, <1>2, ReceivedAssumption DEF CardAnswers, Long

\* A flagged packet is a request.
LEMMA FirstIsSent ==
    ASSUME PathIInv, Deliver, Uncut, Delivery.first, NEW r \in Received, Source(r)
    PROVE  Here \in DOMAIN r.ecm
  <1>1. IsEcmRequest(stream, Here)
    BY DeliveryFacts DEF PathIInv
  <1> QED
    BY <1>1, RequestIsSent

\* A packet delivered is one of the card's, or so long that its size wraps to 0.
LEMMA DeliveredIsSent ==
    ASSUME PathIInv, Deliver, losses' = losses, Unnoticed' = {},
           NEW r \in Received, Source(r), Paired(r)
    PROVE  \/ ~Delivery.first /\ Extent(Delivery) = 0 /\ Long(Delivery)
           \/ /\ Here \in DOMAIN r.ecm
              /\ ~Delivery.first => asked = r.ecm[Here]
  <1>1. Uncut /\ Delivery.bytes = Body(stream, Here)
    BY NoLossInside, DeliveredFacts
  <1>2. CASE Delivery.first
    BY <1>1, <1>2, FirstIsSent
  <1>3. CASE ~Delivery.first
    <2>1. packets # << >> /\ Here = End(LastPacket)
      BY <1>3, DeliveryFacts DEF PathIInv
    <2>2. CASE Extent(LastPacket) = 0
      <3>1. LastPacket.bytes = Delivery.bytes
        BY <1>1, <2>1, <2>2 DEF Paired
      <3>2. Extent(Delivery) = 0
        BY <2>2, <3>1 DEF Extent
      <3>3. Long(Delivery)
        BY <3>2, DeliveredFacts
      <3> QED
        BY <1>3, <3>2, <3>3
    <2>3. CASE Extent(LastPacket) # 0
      <3>1. CASE Here \in losses
        <4>1. Extent(Delivery) = 0
          BY <1>3, <3>1, NoLossInside
        <4> QED
          BY <1>3, <4>1, DeliveredFacts
      <3>2. CASE Here \notin losses
        BY <2>1, <2>3, <3>2 DEF Paired
      <3> QED
        BY <3>1, <3>2
    <2> QED
      BY <2>2, <2>3
  <1> QED
    BY <1>2, <1>3

\* What CardAnswers says of a packet of the card that is delivered.
LEMMA SentFacts ==
    ASSUME PathIInv, Deliver, Uncut, NEW r \in Received, Source(r), Here \in DOMAIN r.ecm
    PROVE  LET payload == Written(Delivery) IN
           /\ ~Long(Delivery) /\ Len(payload) >= Len(Command)
           /\ IsRequest(payload) <=> IsEcmRequest(stream, Here)
           /\ IsRequest(payload) => Len(payload) > Len(Command)
           /\ IsResponse(Delivery, payload) => KeyOf(payload) = r.ecm[Here]
           /\ End(Delivery) \notin losses =>
                 /\ End(Delivery) \in DOMAIN r.ecm
                 /\ r.ecm[End(Delivery)] =
                       IF IsRequest(payload) THEN EcmOf(payload) ELSE r.ecm[Here]
  <1> DEFINE q == [bytes |-> Body(r.stream, Here)]
             payload == Written(Delivery)
             size == PacketSize(stream, Here)
  <1>1. /\ Here \in 0 .. Len(r.stream) - MinSize /\ Whole(r, Here)
        /\ r.stream = stream /\ r.losses = losses
        /\ Delivery.bytes = Body(stream, Here)
    BY DeliveredWhole, DeliveredFacts DEF Source
  <1>2. /\ Written(q) = payload
        /\ Long(q) <=> Long(Delivery)
        /\ IsResponse(q, payload) <=> IsResponse(Delivery, payload)
    BY <1>1 DEF Written, Long, IsResponse
  <1>3. /\ ~Long(q) /\ Len(payload) >= Len(Command)
        /\ IsRequest(payload) => Len(payload) > Len(Command)
        /\ IsResponse(q, payload) => KeyOf(payload) = r.ecm[Here]
        /\ Here + size \notin losses =>
              /\ Here + size \in DOMAIN r.ecm
              /\ r.ecm[Here + size] = IF IsRequest(payload) THEN EcmOf(payload) ELSE r.ecm[Here]
    <2>1. CardAnswers(r)
      BY ReceivedAssumption
    <2> QED
      BY <1>1, <1>2, <2>1 DEF CardAnswers
  <1>4. End(Delivery) = Here + size
    BY <1>2, <1>3, DeliveredFacts, AppendedFacts
  <1>5. IsRequest(payload) <=> IsEcmRequest(stream, Here)
    BY <1>1, <1>3, DeliveredFacts, RequestFacts DEF PathIInv, IInv, TypeOK
  <1> QED
    BY <1>2, <1>3, <1>4, <1>5

\* The call of the callback, with what it finds in the payload.
LEMMA CallFacts ==
    ASSUME PathIInv, ParsePacket
    PROVE  \E payload \in Payloads(Delivery) :
              /\ EcmOf(payload) \in Byte
              /\ IsResponse(Delivery, payload) => KeyOf(payload) \in Byte
              /\ \/ IsRequest(payload) /\ Card!Request(EcmOf(payload), Delivery.first)
                 \/ ~IsRequest(payload) /\ Delivery.first /\ Disposed
                 \/ ~IsRequest(payload) /\ ~Delivery.first
                    /\ IF IsResponse(Delivery, payload) /\ pending_ecm_packet # NoCell
                       THEN Card!Answer(KeyOf(payload))
                       ELSE UNCHANGED card
  <1>1. Deliver
    BY DEF ParsePacket
  <1>2. Last(packets') = Delivery
    BY <1>1, AppendedFacts
  <1>3. PICK payload \in Payloads(Delivery) :
          \/ IsRequest(payload) /\ Card!Request(EcmOf(payload), Delivery.first)
          \/ ~IsRequest(payload) /\ Delivery.first /\ Disposed
          \/ ~IsRequest(payload) /\ ~Delivery.first
             /\ IF IsResponse(Delivery, payload) /\ pending_ecm_packet # NoCell
                THEN Card!Answer(KeyOf(payload))
                ELSE UNCHANGED card
    BY <1>2 DEF ParsePacket
  <1>4. /\ Written(Delivery) \in Seq(Byte) /\ Len(Written(Delivery)) \in Nat
        /\ Len(Delivery.bytes) = HeaderSize + Len(Written(Delivery))
    BY <1>1, DeliveredFacts, LenProperties
  <1>5. /\ payload \in Seq(Byte) /\ Len(payload) \in Nat
        /\ Len(payload) > Len(Command) /\ Len(payload) >= Len(Written(Delivery))
    BY <1>4, PayloadFacts
  <1>6. EcmOf(payload) \in Byte
    <2>1. Len(Command) + 1 \in 1 .. Len(payload)
      BY <1>5, Constants
    <2> QED
      BY <1>5, <2>1, LenProperties DEF EcmOf
  <1>7. ASSUME IsResponse(Delivery, payload) PROVE KeyOf(payload) \in Byte
    <2>1. Len(ResponseStart) \in Nat /\ Len(ResponseStart) < ResponseLen /\ ResponseLen \in Nat
      BY ResponseAssumption, LenProperties
    <2>2. Len(Delivery.bytes) = HeaderSize + ResponseLen
      BY <1>7 DEF IsResponse
    <2>3. Len(ResponseStart) + 1 \in 1 .. Len(payload)
      BY <1>4, <1>5, <2>1, <2>2, Constants
    <2> QED
      BY <1>5, <2>3, LenProperties DEF KeyOf
  <1> QED
    BY <1>3, <1>6, <1>7

\* While every loss is noticed, the call of the callback is one the card expects, and
\* leaves it expecting the next.
LEMMA ParseServes ==
    ASSUME PathIInv, ParsePacket, Unnoticed' = {},
           NEW r \in Received, Source(r), Paired(r)
    PROVE  (Card!Next \/ UNCHANGED card) /\ Paired(r)'
  <1>1. Deliver /\ losses' = losses /\ stream' = stream
    BY DEF ParsePacket, Deliver, input
  <1>2. /\ Last(packets') = Delivery /\ LastPacket' = Delivery /\ packets' # << >>
        /\ Delivery.first \in BOOLEAN
    BY <1>1, AppendedFacts, DeliveryFacts DEF PathIInv, Packet
  <1>3. PICK payload \in Payloads(Delivery) :
          /\ EcmOf(payload) \in Byte
          /\ \/ IsRequest(payload) /\ Card!Request(EcmOf(payload), Delivery.first)
             \/ ~IsRequest(payload) /\ Delivery.first /\ Disposed
             \/ ~IsRequest(payload) /\ ~Delivery.first
                /\ IF IsResponse(Delivery, payload) /\ pending_ecm_packet # NoCell
                   THEN Card!Answer(KeyOf(payload))
                   ELSE UNCHANGED card
    BY CallFacts
  <1>4. /\ Written(Delivery) \in Seq(Byte)
        /\ Len(Delivery.bytes) = HeaderSize + Len(Written(Delivery))
        /\ Uncut
    BY <1>1, DeliveredFacts, NoLossInside
  <1>6. ASSUME IsRequest(payload), Card!Request(EcmOf(payload), Delivery.first)
        PROVE  /\ Card!Next
               /\ synced' /\ asked' = EcmOf(payload)
    BY <1>2, <1>3, <1>6 DEF Card!Next, Card!Request
  <1>7. ~Delivery.first => synced
    BY <1>1, DeliveryFacts DEF PathIInv, Paired
  <1>8. CASE ~Delivery.first /\ Extent(Delivery) = 0 /\ Long(Delivery)
    <2>1. ~IsResponse(Delivery, payload)
      BY <1>8, ResponseAssumption, Constants DEF Long, IsResponse
    <2>2. (Card!Next \/ UNCHANGED card) /\ synced'
      BY <1>3, <1>6, <1>7, <1>8, <2>1 DEF card
    <2>3. Delivery.bytes = Body(stream, End(Delivery))
      BY <1>1, <1>8, AppendedFacts, DeliveredFacts
    <2> QED
      BY <1>1, <1>2, <1>8, <2>2, <2>3 DEF Paired, Extent, End
  <1>9. CASE Here \in DOMAIN r.ecm /\ (~Delivery.first => asked = r.ecm[Here])
    <2> DEFINE w == Written(Delivery)
    <2>1. /\ ~Long(Delivery) /\ Len(w) >= Len(Command)
          /\ IsRequest(w) <=> IsEcmRequest(stream, Here)
          /\ IsRequest(w) => Len(w) > Len(Command)
          /\ IsResponse(Delivery, w) => KeyOf(w) = r.ecm[Here]
          /\ End(Delivery) \notin losses =>
                /\ End(Delivery) \in DOMAIN r.ecm
                /\ r.ecm[End(Delivery)] = IF IsRequest(w) THEN EcmOf(w) ELSE r.ecm[Here]
      BY <1>1, <1>4, <1>9, SentFacts
    <2>2. /\ IsRequest(payload) <=> IsRequest(w)
          /\ IsRequest(w) => EcmOf(payload) = EcmOf(w)
          /\ IsResponse(Delivery, payload) => KeyOf(payload) = r.ecm[Here]
      BY <1>4, <2>1, KindFacts
    <2>3. Delivery.first => IsRequest(payload)
      BY <1>1, <2>1, <2>2, DeliveryFacts DEF PathIInv
    <2>4. Extent(Delivery) # 0
      BY <1>1, <2>1, DeliveredFacts
    <2>5. /\ Card!Next \/ UNCHANGED card
          /\ synced'
          /\ asked' = IF IsRequest(payload) THEN EcmOf(payload) ELSE r.ecm[Here]
      <3>1. CASE IsRequest(payload)
        BY <1>3, <1>6, <3>1
      <3>2. CASE ~IsRequest(payload) /\ IsResponse(Delivery, payload) /\ pending_ecm_packet # NoCell
        <4>1. Card!Answer(KeyOf(payload)) /\ ~Delivery.first
          BY <1>3, <2>3, <3>2
        <4>2. KeyOf(payload) = asked
          BY <1>9, <2>2, <3>2, <4>1
        <4>3. Card!Next
          BY <4>1, <4>2 DEF Card!Next, Card!Response
        <4>4. synced' = synced /\ asked' = asked
          BY <4>1 DEF Card!Answer
        <4> QED
          BY <1>7, <1>9, <3>2, <4>1, <4>3, <4>4
      <3>3. CASE ~IsRequest(payload) /\ ~(IsResponse(Delivery, payload) /\ pending_ecm_packet # NoCell)
        <4>1. UNCHANGED card /\ ~Delivery.first
          BY <1>3, <2>3, <3>3
        <4> QED
          BY <1>7, <1>9, <3>3, <4>1 DEF card
      <3> QED
        BY <3>1, <3>2, <3>3
    <2> QED
      BY <1>1, <1>2, <2>1, <2>2, <2>4, <2>5 DEF Paired, Extent, End
  <1> QED
    BY <1>1, <1>8, <1>9, DeliveredIsSent

-----------------------------------------------------------------------------
(* The invariant of the way *)

LEMMA PathInitIInv == PathInit => PathIInv
  <1> SUFFICES ASSUME PathInit PROVE PathIInv
    OBVIOUS
  <1>1. IInv
    BY InitIInv DEF PathInit
  <1>2. packets = << >> /\ Len(packets) = 0
    BY DEF PathInit, Init
  <1>3. Ordered
    BY <1>2 DEF Ordered
  <1>4. \E r \in Received : Source(r) /\ (Unnoticed = {} => Paired(r))
    BY <1>2 DEF PathInit, Source, Paired
  <1> QED
    BY <1>1, <1>3, <1>4 DEF PathIInv

\* Every step of the way is one of the parser's or leaves it alone.
LEMMA ReaderStep == IInv /\ [PathNext]_pathvars => [Next]_vars
  <1> SUFFICES ASSUME IInv, [PathNext]_pathvars PROVE [Next]_vars
    OBVIOUS
  <1>1. CASE TransferBcas
    <2>1. PICK n \in Transfer : \E m \in 1 .. n : Push(m)
      BY <1>1 DEF TransferBcas
    <2>2. PICK m \in 1 .. n : Push(m)
      BY <2>1
    <2>3. /\ n \in Nat /\ m \in Nat /\ m >= 1 /\ fed \in Nat /\ Len(stream) \in Nat
          /\ fed + m <= Len(stream)
      BY <2>2, ReceivedAssumption, LenProperties DEF IInv, TypeOK, Push
    <2>4. m \in 1 .. Len(stream)
      BY <2>3
    <2> QED
      BY <2>2, <2>4 DEF Next
  <1>2. CASE Search
    BY <1>2 DEF Search, Next, Parse
  <1>3. CASE ParsePacket
    BY <1>3 DEF ParsePacket, Next, Parse
  <1>4. CASE Registered \/ UNCHANGED pathvars
    BY <1>4 DEF Registered, pathvars
  <1> QED
    BY <1>1, <1>2, <1>3, <1>4 DEF PathNext

\* What moves neither the packets nor the card's feed keeps the pairing.
LEMMA QuietKept ==
    ASSUME PathIInv, IInv', UNCHANGED <<losses, stream, packets, synced, asked>>
    PROVE  PathIInv' /\ Unnoticed' = Unnoticed
  <1>1. Ordered' /\ Unnoticed' = Unnoticed
    BY DEF PathIInv, Ordered, Unnoticed, End, Extent
  <1>2. PICK r \in Received : Source(r) /\ (Unnoticed = {} => Paired(r))
    BY DEF PathIInv
  <1>3. Source(r)' /\ (Unnoticed' = {} => Paired(r)')
    BY <1>1, <1>2 DEF Source, Paired, LastPacket, End, Extent
  <1> QED
    BY <1>1, <1>3 DEF PathIInv

LEMMA PathNextIInv == PathIInv /\ [PathNext]_pathvars => PathIInv'
  <1> SUFFICES ASSUME PathIInv, [PathNext]_pathvars PROVE PathIInv'
    OBVIOUS
  <1>1. IInv'
    BY ReaderStep, NextIInv DEF PathIInv
  <1>2. CASE TransferBcas
    <2>1. UNCHANGED <<losses, stream, packets, synced, asked>>
      BY <1>2 DEF TransferBcas, Push, card
    <2> QED
      BY <1>1, <2>1, QuietKept
  <1>3. CASE Search
    <2>1. UNCHANGED <<losses, stream, packets, synced, asked>>
      BY <1>3 DEF Search, Resync, CouldntSync, Starved, Corrupt, input, card
    <2> QED
      BY <1>1, <2>1, QuietKept
  <1>4. CASE Registered \/ UNCHANGED pathvars
    <2>1. UNCHANGED <<losses, stream, packets, synced, asked>>
      BY <1>4 DEF Registered, Card!Registered, Card!feed, pathvars, vars, input, card
    <2> QED
      BY <1>1, <2>1, QuietKept
  <1>5. CASE ParsePacket
    <2>1. Deliver /\ losses' = losses /\ stream' = stream
      BY <1>5 DEF ParsePacket, Deliver, input
    <2>2. Ordered'
      BY <2>1, OrderedKept
    <2>3. PICK r \in Received : Source(r) /\ (Unnoticed = {} => Paired(r))
      BY DEF PathIInv
    <2>4. Unnoticed' = {} => Paired(r)'
      BY <1>5, <2>1, <2>3, UnnoticedStays, ParseServes
    <2>5. Source(r)'
      BY <2>1, <2>3 DEF Source
    <2> QED
      BY <1>1, <2>2, <2>4, <2>5 DEF PathIInv
  <1> QED
    BY <1>2, <1>3, <1>4, <1>5 DEF PathNext

\* While every loss is noticed, every step is one of the card's or leaves it alone.
LEMMA ServedStep ==
    ASSUME PathIInv, [PathNext]_pathvars, Unnoticed' = {}
    PROVE  Card!Next \/ UNCHANGED card
  <1>1. CASE TransferBcas \/ Search \/ UNCHANGED pathvars
    BY <1>1 DEF TransferBcas, Search, pathvars
  <1>2. CASE Registered
    BY <1>2 DEF Registered, Card!Next
  <1>3. CASE ParsePacket
    <2>1. PICK r \in Received : Source(r) /\ (Unnoticed = {} => Paired(r))
      BY DEF PathIInv
    <2>2. Unnoticed = {}
      BY <1>3, UnnoticedStays DEF ParsePacket
    <2> QED
      BY <1>3, <2>1, <2>2, ParseServes
  <1> QED
    BY <1>1, <1>2, <1>3 DEF PathNext

-----------------------------------------------------------------------------
(* Theorems on the way to the card *)

\* Every reachable state has a received stream behind it, and while every loss was
\* noticed, parser, card and pseudo card agree on the last ECM asked for.
THEOREM PathInvariance == PathSpec => []PathIInv
  BY PathInitIInv, PathNextIInv, PTL DEF PathSpec

\* As long as every loss was noticed, whatever is lost and however the stream is cut
\* into transfers, parse_packet is called as the pseudo card expects it.
THEOREM ServesCard == PathSpec => CardIsServed
  <1>1. PathIInv /\ [PathNext]_pathvars => [Unnoticed' = {} => Card!Next]_card
    BY ServedStep
  <1> QED
    BY <1>1, PathInvariance, PTL DEF PathSpec, CardIsServed

-----------------------------------------------------------------------------
(* The promises of the pseudo card on the way *)

CardProofs == INSTANCE PseudoBCASProofs WITH Ecm <- Byte

\* What PseudoBCAS assumes of its constants holds of the way's.
LEMMA CardConstants ==
    /\ NoCell \notin Cells /\ NoEcm \notin Byte
    /\ {NoResult, Failed, Garbage} \cap (Byte \cup {NoEcm}) = {}
    /\ NoResult \notin {Failed, Garbage} /\ Failed # Garbage
    /\ QueueLen \in Nat
    /\ MaxArrived \in Nat
  <1>1. NoEcm \notin Byte
    BY Constants DEF NoEcm, Byte
  <1> QED
    BY <1>1, CardAssumption

\* The card of the way is the one PseudoBCASProofs is about.
LEMMA SameCard ==
    /\ Card!Init => CardProofs!Init
    /\ \A e \in Byte, first \in BOOLEAN : Card!Request(e, first) => CardProofs!Request(e, first)
    /\ \A key \in Byte : Card!Answer(key) => CardProofs!Answer(key)
    /\ Card!Registered => CardProofs!Registered
    /\ CardProofs!WrongKeys = Wrong
  <1> USE DEF CardProofs!card, CardProofs!search, CardProofs!feed, CardProofs!Queued,
              CardProofs!ToSet, Card!card, Card!search, Card!feed, Card!Queued, Card!ToSet
  <1>1. Card!Init => CardProofs!Init
    BY DEF Card!Init, CardProofs!Init
  <1>2. \A e \in Byte, first \in BOOLEAN : Card!Request(e, first) => CardProofs!Request(e, first)
    BY DEF Card!Request, Card!Kept, Card!DataStored,
           CardProofs!Request, CardProofs!Kept, CardProofs!DataStored
  <1>3. \A key \in Byte : Card!Answer(key) => CardProofs!Answer(key)
    BY DEF Card!Answer, CardProofs!Answer
  <1>4. Card!Registered => CardProofs!Registered
    BY DEF Card!Registered, Card!Evict, Card!Surplus, Card!Holds,
           CardProofs!Registered, CardProofs!Evict, CardProofs!Surplus, CardProofs!Holds
  <1>5. CardProofs!WrongKeys = Wrong
    BY DEF CardProofs!WrongKeys, Wrong
  <1> QED
    BY <1>1, <1>2, <1>3, <1>4, <1>5

\* A pending packet that is disposed is freed once and not queued.
LEMMA DisposedBase ==
    ASSUME CardProofs!Base, main = "idle", Disposed
    PROVE  CardProofs!Base' /\ Wrong' = Wrong
  <1>1. /\ pending_ecm_packet' = NoCell
        /\ used' = used \ {pending_ecm_packet}
        /\ synced' = TRUE
        /\ UNCHANGED <<mem, ecm_queue, n_ecm_arrived, main, lookup, wanted, cursor, result,
                       asked, arrived, held, undisturbed>>
    BY DEF Disposed
  <1>2. CardProofs!Queued' = CardProofs!Queued /\ Wrong' = Wrong
    BY <1>1 DEF CardProofs!Queued, CardProofs!ToSet, Wrong, Card!Queued, Card!ToSet
  <1>3. CardProofs!Queued \subseteq Cells
    <2>1. ecm_queue \in Seq(Cells)
      BY DEF CardProofs!Base, CardProofs!TypeOK
    <2> QED
      BY <2>1, LenProperties DEF CardProofs!Queued, CardProofs!ToSet
  <1>4. CardProofs!TypeOK'
    BY <1>1 DEF CardProofs!Base, CardProofs!TypeOK, CardProofs!Cell
  <1>5. CardProofs!NoPacketLost'
    BY <1>1, <1>2, <1>3, CardConstants DEF CardProofs!Base, CardProofs!NoPacketLost
  <1>6. CardProofs!PendingIsAsked' /\ CardProofs!Latest' /\ CardProofs!Lengths'
    BY <1>1 DEF CardProofs!Base, CardProofs!PendingIsAsked, CardProofs!Latest,
                CardProofs!Lengths, CardProofs!HistoryLen
  <1> QED
    BY <1>2, <1>4, <1>5, <1>6 DEF CardProofs!Base

LEMMA QuietBase ==
    ASSUME CardProofs!Base, UNCHANGED card
    PROVE  CardProofs!Base' /\ Wrong' = Wrong
  <1>1. Wrong' = Wrong
    BY DEF card, Wrong, Card!Queued, Card!ToSet
  <1> QED
    BY <1>1 DEF card, CardProofs!Base, CardProofs!TypeOK, CardProofs!Cell,
       CardProofs!NoPacketLost, CardProofs!Queued, CardProofs!ToSet, CardProofs!PendingIsAsked,
       CardProofs!Latest, CardProofs!Lengths, CardProofs!HistoryLen

\* What the calls of parse_packet do to the entries.
LEMMA CallBase ==
    ASSUME CardProofs!Base
    PROVE  /\ \A e \in Byte, first \in BOOLEAN : Card!Request(e, first) =>
                 CardProofs!Base' /\ Wrong' = Wrong
           /\ \A key \in Byte : Card!Answer(key) =>
                 /\ CardProofs!Base'
                 /\ Wrong' \subseteq Wrong \cup (IF key = asked THEN {} ELSE {pending_ecm_packet})
           /\ Card!Registered => CardProofs!Base' /\ Wrong' \subseteq Wrong
  <1>1. CardProofs!WrongKeys = Wrong /\ CardProofs!WrongKeys' = Wrong'
    BY SameCard DEF Wrong, CardProofs!WrongKeys, Card!Queued, Card!ToSet,
                    CardProofs!Queued, CardProofs!ToSet
  <1>2. ASSUME NEW e \in Byte, NEW first \in BOOLEAN, Card!Request(e, first)
        PROVE  CardProofs!Base' /\ Wrong' = Wrong
    BY <1>1, <1>2, SameCard, CardConstants, CardProofs!RequestBase
  <1>3. ASSUME NEW key \in Byte, Card!Answer(key)
        PROVE  /\ CardProofs!Base'
               /\ Wrong' \subseteq Wrong \cup (IF key = asked THEN {} ELSE {pending_ecm_packet})
    BY <1>1, <1>3, SameCard, CardConstants, CardProofs!AnswerBase
  <1>4. ASSUME Card!Registered PROVE CardProofs!Base' /\ Wrong' \subseteq Wrong
    BY <1>1, <1>4, SameCard, CardConstants, CardProofs!RegisteredBase
  <1> QED
    BY <1>2, <1>3, <1>4

LEMMA PathInitBase == PathInit => CardProofs!Base
  BY CardConstants, SameCard, CardProofs!InitIInv DEF PathInit, CardProofs!IInv

LEMMA PathNextBase == PathIInv /\ CardProofs!Base /\ [PathNext]_pathvars => CardProofs!Base'
  <1> SUFFICES ASSUME PathIInv, CardProofs!Base, [PathNext]_pathvars PROVE CardProofs!Base'
    OBVIOUS
  <1>1. CASE TransferBcas \/ Search \/ UNCHANGED pathvars
    BY <1>1, QuietBase DEF TransferBcas, Search, pathvars
  <1>2. CASE Registered
    BY <1>2, CallBase DEF Registered
  <1>3. CASE ParsePacket
    <2>1. Delivery.first \in BOOLEAN /\ main = "idle"
      BY <1>3, DeliveryFacts DEF ParsePacket, PathIInv, Packet
    <2> QED
      BY <1>3, <2>1, CallFacts, CallBase, DisposedBase, QuietBase
  <1> QED
    BY <1>1, <1>2, <1>3 DEF PathNext

\* Whatever is lost and however the stream is cut: the history is that of the latest
\* answers and the pending packet is never leaked, freed twice or queued again.  The
\* packets need not come as PseudoBCAS expects them.
THEOREM HistoryOnTheWay == PathSpec => [](Card!HistoryIsLatest /\ Card!NoPacketLost)
  <1>1. CardProofs!Base => CardProofs!HistoryIsLatest /\ CardProofs!NoPacketLost
    BY CardConstants, CardProofs!IsLatest DEF CardProofs!Base
  <1>2. CardProofs!HistoryIsLatest => Card!HistoryIsLatest
    BY DEF CardProofs!HistoryIsLatest, Card!HistoryIsLatest
  <1>3. CardProofs!NoPacketLost => Card!NoPacketLost
    BY DEF CardProofs!NoPacketLost, CardProofs!Queued, CardProofs!ToSet,
           Card!NoPacketLost, Card!Queued, Card!ToSet
  <1>4. CardProofs!Base => Card!HistoryIsLatest /\ Card!NoPacketLost
    BY <1>1, <1>2, <1>3
  <1> QED
    BY <1>4, PathInitBase, PathNextBase, PathInvariance, PTL DEF PathSpec

\* A step that PseudoBCAS allows is one of the card PseudoBCASProofs is about.
LEMMA SameNext == Card!Next \/ UNCHANGED card => [CardProofs!Next]_(CardProofs!vars)
  <1> USE DEF CardProofs!card, CardProofs!search, CardProofs!feed, CardProofs!Queued,
              CardProofs!ToSet, Card!card, Card!search, Card!feed, Card!Queued, Card!ToSet
  <1>1. Card!Response => CardProofs!Response
    BY DEF Card!Response, Card!Answer, CardProofs!Response, CardProofs!Answer
  <1>2. Card!Release => CardProofs!Release
    BY DEF Card!Release, CardProofs!Release
  <1>3. \A e \in Byte : Card!ProcEcm(e) => CardProofs!ProcEcm(e)
    BY DEF Card!ProcEcm, Card!Holds, CardProofs!ProcEcm, CardProofs!Holds
  <1>4. Card!Compare => CardProofs!Compare
    BY DEF Card!Compare, Card!Matches, Card!HasNext, Card!Fail,
           CardProofs!Compare, CardProofs!Matches, CardProofs!HasNext, CardProofs!Fail
  <1>5. Card!CompareFreed => CardProofs!CompareFreed
    BY DEF Card!CompareFreed, Card!Fail, CardProofs!CompareFreed, CardProofs!Fail
  <1>6. Card!Copy => CardProofs!Copy
    BY DEF Card!Copy, CardProofs!Copy
  <1>7. Card!Next => CardProofs!Next
    BY <1>1, <1>2, <1>3, <1>4, <1>5, <1>6, SameCard DEF Card!Next, CardProofs!Next
  <1>8. UNCHANGED card => UNCHANGED CardProofs!vars
    BY DEF card, CardProofs!vars
  <1> QED
    BY <1>7, <1>8

\* The invariant of the card holds on the way as long as every loss was noticed.
CardIInv == Unnoticed = {} => CardProofs!IInv

LEMMA CardNextIInv ==
    PathIInv /\ [PathNext]_pathvars /\ CardIInv => CardIInv'
  <1> SUFFICES ASSUME PathIInv, [PathNext]_pathvars, CardIInv, Unnoticed' = {}
               PROVE  CardProofs!IInv'
    BY DEF CardIInv
  <1>1. Unnoticed = {}
    <2>1. CASE ParsePacket
      BY <2>1, UnnoticedStays DEF ParsePacket
    <2>2. CASE TransferBcas \/ Search \/ Registered \/ UNCHANGED pathvars
      <3>1. UNCHANGED <<losses, packets>>
        BY <2>2 DEF TransferBcas, Push, Search, Resync, CouldntSync, Starved, Corrupt,
                    Registered, pathvars, vars
      <3> QED
        BY <3>1 DEF Unnoticed, End, Extent
    <2> QED
      BY <2>1, <2>2 DEF PathNext
  <1>2. [CardProofs!Next]_(CardProofs!vars)
    BY ServedStep, SameNext
  <1> QED
    BY <1>1, <1>2, CardConstants, CardProofs!NextIInv DEF CardIInv

\* While every loss was noticed, every key kept for the decoder is that of its ECM: what
\* PseudoBCAS promises of packets that come as it expects them holds of the real ones.
THEOREM KeysOnTheWay == PathSpec => [](Unnoticed = {} => Wrong = {})
  <1>1. CardProofs!IInv => Wrong = {}
    BY DEF CardProofs!IInv, CardProofs!KeysMatch, CardProofs!Queued, CardProofs!ToSet,
           Wrong, Card!Queued, Card!ToSet
  <1>2. PathInit => CardIInv
    BY CardConstants, SameCard, CardProofs!InitIInv DEF PathInit, CardIInv
  <1>3. CardIInv => (Unnoticed = {} => Wrong = {})
    BY <1>1 DEF CardIInv
  <1> QED
    BY <1>2, <1>3, CardNextIInv, PathInvariance, PTL DEF PathSpec

-----------------------------------------------------------------------------
(***************************************************************************)
(* Wrong keys.  Every one is charged to a loss that went unnoticed, and a  *)
(* response that would bring one more has such a loss kept for it.         *)
(***************************************************************************)

\* A packet delivered in which nothing was lost, nor right before it, is one of the
\* card's: the parser is not fooled by intact bytes of another place.
InStep(r) ==
    \A i \in 1 .. Len(packets) :
        (\A l \in losses : l < packets[i].at \/ l >= End(packets[i]))
            => packets[i].at \in DOMAIN r.ecm

\* A response now would be that of another request than the pending one.
Owing(r) ==
    /\ main = "idle" /\ pending_ecm_packet # NoCell
    /\ packets # << >>
    /\ End(LastPacket) \notin losses
    /\ ~(End(LastPacket) \in DOMAIN r.ecm /\ asked = r.ecm[End(LastPacket)])

Charged(r) ==
    /\ IsFiniteSet(Wrong)
    /\ InStep(r) =>
          Cardinality(Wrong) + (IF Owing(r) THEN 1 ELSE 0) <= Cardinality(Unnoticed)

WrongIInv == CardProofs!Base /\ \A r \in Received : Source(r) => Charged(r)

\* The losses that went unnoticed are counted.
LEMMA UnnoticedFinite ==
    PathIInv => IsFiniteSet(Unnoticed) /\ Cardinality(Unnoticed) \in Nat
  <1> SUFFICES ASSUME PathIInv
               PROVE  IsFiniteSet(Unnoticed) /\ Cardinality(Unnoticed) \in Nat
    OBVIOUS
  <1>1. PICK r \in Received : Source(r)
    BY DEF PathIInv
  <1>2. Unnoticed \subseteq 0 .. Len(stream) /\ Len(stream) \in Nat
    BY <1>1, ReceivedAssumption, LenProperties DEF Unnoticed, Source, PathIInv, IInv, TypeOK
  <1>3. IsFiniteSet(0 .. Len(stream))
    BY <1>2, FS_Interval
  <1>4. IsFiniteSet(Unnoticed)
    BY <1>2, <1>3, FS_Subset
  <1> QED
    BY <1>4, FS_CardinalityType

\* One element more, one wrong key more.
LEMMA OneMore ==
    ASSUME NEW S, IsFiniteSet(S), NEW x
    PROVE  /\ IsFiniteSet(S \cup {x})
           /\ Cardinality(S) \in Nat
           /\ Cardinality(S \cup {x}) \in Nat
           /\ Cardinality(S \cup {x}) <= Cardinality(S) + 1
           /\ x \notin S => Cardinality(S \cup {x}) = Cardinality(S) + 1
  <1>1. Cardinality(S) \in Nat
    BY FS_CardinalityType
  <1>2. /\ IsFiniteSet(S \cup {x})
        /\ Cardinality(S \cup {x}) = Cardinality(S) \/ Cardinality(S \cup {x}) = Cardinality(S) + 1
        /\ x \notin S => Cardinality(S \cup {x}) = Cardinality(S) + 1
    <2>1. /\ IsFiniteSet(S \cup {x})
          /\ x \in S => Cardinality(S \cup {x}) = Cardinality(S)
          /\ x \notin S => Cardinality(S \cup {x}) = Cardinality(S) + 1
      BY FS_AddElement
    <2> QED
      BY <2>1
  <1> QED
    BY <1>1, <1>2

\* A step by which no entry becomes wrong and no response owes more than before.
LEMMA ChargedKept ==
    ASSUME PathIInv, PathIInv', NEW r, Charged(r),
           Wrong' \subseteq Wrong, Owing(r)' => Owing(r),
           Unnoticed \subseteq Unnoticed', InStep(r)' => InStep(r)
    PROVE  Charged(r)'
  <1>1. IsFiniteSet(Wrong) /\ Cardinality(Wrong) \in Nat
    BY FS_CardinalityType DEF Charged
  <1>2. /\ IsFiniteSet(Wrong') /\ Cardinality(Wrong') \in Nat
        /\ Cardinality(Wrong') <= Cardinality(Wrong)
    BY <1>1, FS_Subset, FS_CardinalityType
  <1>3. /\ Cardinality(Unnoticed) \in Nat /\ Cardinality(Unnoticed') \in Nat
        /\ Cardinality(Unnoticed) <= Cardinality(Unnoticed')
    <2>1. (PathIInv => IsFiniteSet(Unnoticed) /\ Cardinality(Unnoticed) \in Nat)'
      BY UnnoticedFinite, PTL
    <2>2. IsFiniteSet(Unnoticed') /\ Cardinality(Unnoticed') \in Nat
      BY <2>1
    <2> QED
      BY <2>2, UnnoticedFinite, FS_Subset
  <1>4. ASSUME InStep(r)'
        PROVE  Cardinality(Wrong') + (IF Owing(r)' THEN 1 ELSE 0) <= Cardinality(Unnoticed')
    <2>1. Cardinality(Wrong) + (IF Owing(r) THEN 1 ELSE 0) <= Cardinality(Unnoticed)
      BY <1>4 DEF Charged
    <2> DEFINE o == IF Owing(r) THEN 1 ELSE 0
               oo == IF Owing(r)' THEN 1 ELSE 0
    <2>2. o \in Nat /\ oo \in Nat /\ oo <= o
      OBVIOUS
    <2>3. Cardinality(Wrong) + o <= Cardinality(Unnoticed)
      BY <2>1
    <2> HIDE DEF o, oo
    <2>4. Cardinality(Wrong') + oo <= Cardinality(Unnoticed')
      BY <1>1, <1>2, <1>3, <2>2, <2>3
    <2> QED
      BY <2>4 DEF oo
  <1> QED
    BY <1>2, <1>4 DEF Charged

\* A call that costs a loss of its own: one more wrong key, or one more owed.
LEMMA ChargedAnew ==
    ASSUME PathIInv, PathIInv', NEW r, Charged(r), NEW p, NEW l,
           Wrong' \subseteq Wrong \cup {p}, Wrong' \subseteq Wrong \/ ~Owing(r)',
           Unnoticed \subseteq Unnoticed', l \in Unnoticed', l \notin Unnoticed,
           InStep(r)' => InStep(r)
    PROVE  Charged(r)'
  <1>1. /\ IsFiniteSet(Wrong) /\ Cardinality(Wrong) \in Nat
        /\ IsFiniteSet(Wrong \cup {p}) /\ Cardinality(Wrong \cup {p}) \in Nat
        /\ Cardinality(Wrong \cup {p}) <= Cardinality(Wrong) + 1
    BY OneMore DEF Charged
  <1>2. /\ IsFiniteSet(Wrong') /\ Cardinality(Wrong') \in Nat
        /\ Cardinality(Wrong') <= Cardinality(Wrong) + 1
        /\ Wrong' \subseteq Wrong => Cardinality(Wrong') <= Cardinality(Wrong)
    <2>1. IsFiniteSet(Wrong') /\ Cardinality(Wrong') <= Cardinality(Wrong \cup {p})
      BY <1>1, FS_Subset
    <2>2. Wrong' \subseteq Wrong => Cardinality(Wrong') <= Cardinality(Wrong)
      BY <1>1, FS_Subset
    <2>3. Cardinality(Wrong') \in Nat
      BY <2>1, FS_CardinalityType
    <2> QED
      BY <1>1, <2>1, <2>2, <2>3
  <1>3. /\ Cardinality(Unnoticed) \in Nat /\ Cardinality(Unnoticed') \in Nat
        /\ Cardinality(Unnoticed) + 1 <= Cardinality(Unnoticed')
    <2>1. (PathIInv => IsFiniteSet(Unnoticed) /\ Cardinality(Unnoticed) \in Nat)'
      BY UnnoticedFinite, PTL
    <2>2. IsFiniteSet(Unnoticed') /\ Cardinality(Unnoticed') \in Nat
      BY <2>1
    <2>3. IsFiniteSet(Unnoticed) /\ Cardinality(Unnoticed) \in Nat
      BY UnnoticedFinite
    <2>4. Cardinality(Unnoticed \cup {l}) = Cardinality(Unnoticed) + 1
      BY <2>3, OneMore
    <2>5. Unnoticed \cup {l} \subseteq Unnoticed'
      OBVIOUS
    <2>6. Cardinality(Unnoticed \cup {l}) <= Cardinality(Unnoticed')
      BY <2>2, <2>5, FS_Subset
    <2> QED
      BY <2>2, <2>3, <2>4, <2>6
  <1>4. ASSUME InStep(r)'
        PROVE  Cardinality(Wrong') + (IF Owing(r)' THEN 1 ELSE 0) <= Cardinality(Unnoticed')
    <2>1. Cardinality(Wrong) <= Cardinality(Unnoticed)
      <3>1. Cardinality(Wrong) + (IF Owing(r) THEN 1 ELSE 0) <= Cardinality(Unnoticed)
        BY <1>4 DEF Charged
      <3>2. CASE Owing(r)
        BY <1>1, <1>3, <3>1, <3>2
      <3>3. CASE ~Owing(r)
        BY <1>1, <1>3, <3>1, <3>3
      <3> QED
        BY <3>2, <3>3
    <2>2. CASE Owing(r)'
      BY <1>1, <1>2, <1>3, <2>1, <2>2
    <2>3. CASE ~Owing(r)'
      BY <1>1, <1>2, <1>3, <2>1, <2>3
    <2> QED
      BY <2>2, <2>3
  <1> QED
    BY <1>2, <1>4 DEF Charged

\* A response to another request than the pending one uses up the loss kept for it.
LEMMA ChargedOwed ==
    ASSUME PathIInv, PathIInv', NEW r, Charged(r), NEW p,
           Wrong' \subseteq Wrong \cup {p}, Owing(r), ~Owing(r)',
           Unnoticed \subseteq Unnoticed', InStep(r)' => InStep(r)
    PROVE  Charged(r)'
  <1>1. /\ IsFiniteSet(Wrong) /\ Cardinality(Wrong) \in Nat
        /\ IsFiniteSet(Wrong \cup {p}) /\ Cardinality(Wrong \cup {p}) \in Nat
        /\ Cardinality(Wrong \cup {p}) <= Cardinality(Wrong) + 1
    BY OneMore DEF Charged
  <1>2. /\ IsFiniteSet(Wrong') /\ Cardinality(Wrong') \in Nat
        /\ Cardinality(Wrong') <= Cardinality(Wrong) + 1
    <2>1. IsFiniteSet(Wrong') /\ Cardinality(Wrong') <= Cardinality(Wrong \cup {p})
      BY <1>1, FS_Subset
    <2>2. Cardinality(Wrong') \in Nat
      BY <2>1, FS_CardinalityType
    <2> QED
      BY <1>1, <2>1, <2>2
  <1>3. /\ Cardinality(Unnoticed) \in Nat /\ Cardinality(Unnoticed') \in Nat
        /\ Cardinality(Unnoticed) <= Cardinality(Unnoticed')
    <2>1. (PathIInv => IsFiniteSet(Unnoticed) /\ Cardinality(Unnoticed) \in Nat)'
      BY UnnoticedFinite, PTL
    <2>2. IsFiniteSet(Unnoticed') /\ Cardinality(Unnoticed') \in Nat
      BY <2>1
    <2> QED
      BY <2>2, UnnoticedFinite, FS_Subset
  <1>4. ASSUME InStep(r)' PROVE Cardinality(Wrong') + 0 <= Cardinality(Unnoticed')
    <2>1. Cardinality(Wrong) + 1 <= Cardinality(Unnoticed)
      BY <1>4 DEF Charged
    <2> QED
      BY <1>1, <1>2, <1>3, <2>1
  <1> QED
    BY <1>2, <1>4 DEF Charged

\* The packets delivered stay in step.
LEMMA InStepStays ==
    ASSUME PathIInv, Deliver, losses' = losses, NEW r, InStep(r)'
    PROVE  /\ InStep(r)
           /\ (\A l \in losses : l < Here \/ l >= End(Delivery)) => Here \in DOMAIN r.ecm
  <1>1. \A i \in 1 .. Len(packets') :
           (\A l \in losses : l < packets'[i].at \/ l >= End(packets'[i]))
               => packets'[i].at \in DOMAIN r.ecm
    BY DEF InStep, End, Extent
  <1>2. \A i \in 1 .. Len(packets) : i \in 1 .. Len(packets') /\ packets'[i] = packets[i]
    BY AppendedFacts
  <1>3. InStep(r)
    BY <1>1, <1>2 DEF InStep
  <1>4. /\ Len(packets) + 1 \in 1 .. Len(packets')
        /\ packets'[Len(packets) + 1] = Delivery /\ Delivery.at = Here
    BY AppendedFacts DEF Delivery
  <1>5. (\A l \in losses : l < Here \/ l >= End(Delivery)) => Here \in DOMAIN r.ecm
    BY <1>1, <1>4
  <1> QED
    BY <1>3, <1>5

\* The effect of a call on the entries and on what is owed, whatever the packet is.
LEMMA CallEffect ==
    ASSUME PathIInv, ParsePacket, CardProofs!Base
    PROVE  \E payload \in Payloads(Delivery) :
              \/ /\ IsRequest(payload)
                 /\ Wrong' = Wrong /\ asked' = EcmOf(payload)
              \/ /\ ~IsRequest(payload) /\ Delivery.first
                 /\ Wrong' = Wrong /\ pending_ecm_packet' = NoCell
              \/ /\ ~IsRequest(payload) /\ ~Delivery.first
                 /\ IsResponse(Delivery, payload) /\ pending_ecm_packet # NoCell
                 /\ main' = "queued"
                 /\ Wrong' \subseteq Wrong \cup {pending_ecm_packet}
                 /\ KeyOf(payload) = asked => Wrong' \subseteq Wrong
              \/ /\ ~IsRequest(payload) /\ ~Delivery.first
                 /\ Wrong' = Wrong /\ UNCHANGED card
  <1>1. Delivery.first \in BOOLEAN /\ main = "idle"
    BY DeliveryFacts DEF ParsePacket, PathIInv, Packet
  <1>2. PICK payload \in Payloads(Delivery) :
          /\ EcmOf(payload) \in Byte
          /\ IsResponse(Delivery, payload) => KeyOf(payload) \in Byte
          /\ \/ IsRequest(payload) /\ Card!Request(EcmOf(payload), Delivery.first)
             \/ ~IsRequest(payload) /\ Delivery.first /\ Disposed
             \/ ~IsRequest(payload) /\ ~Delivery.first
                /\ IF IsResponse(Delivery, payload) /\ pending_ecm_packet # NoCell
                   THEN Card!Answer(KeyOf(payload))
                   ELSE UNCHANGED card
    BY CallFacts
  <1>3. CASE IsRequest(payload) /\ Card!Request(EcmOf(payload), Delivery.first)
    <2>1. Wrong' = Wrong
      BY <1>1, <1>2, <1>3, CallBase
    <2>2. asked' = EcmOf(payload)
      BY <1>3 DEF Card!Request
    <2> QED
      BY <1>3, <2>1, <2>2
  <1>4. CASE ~IsRequest(payload) /\ Delivery.first /\ Disposed
    <2>1. Wrong' = Wrong /\ pending_ecm_packet' = NoCell
      BY <1>1, <1>4, DisposedBase DEF Disposed
    <2> QED
      BY <1>4, <2>1
  <1>5. CASE /\ ~IsRequest(payload) /\ ~Delivery.first
             /\ IsResponse(Delivery, payload) /\ pending_ecm_packet # NoCell
             /\ Card!Answer(KeyOf(payload))
    <2>1. /\ Wrong' \subseteq Wrong \cup
                 (IF KeyOf(payload) = asked THEN {} ELSE {pending_ecm_packet})
      BY <1>2, <1>5, CallBase
    <2>2. main' = "queued"
      BY <1>5 DEF Card!Answer
    <2> QED
      BY <1>5, <2>1, <2>2
  <1>6. CASE ~IsRequest(payload) /\ ~Delivery.first /\ UNCHANGED card
    BY <1>6, QuietBase
  <1> QED
    BY <1>2, <1>3, <1>4, <1>5, <1>6

\* A packet delivered charges no more wrong keys than there are losses for them.
LEMMA ParseCharged ==
    ASSUME PathIInv, PathIInv', ParsePacket, CardProofs!Base,
           NEW r \in Received, Source(r), Charged(r)
    PROVE  Charged(r)'
  <1>1. Deliver /\ losses' = losses /\ stream' = stream /\ main = "idle"
    BY DEF ParsePacket, Deliver, input
  <1>2. /\ Unnoticed \subseteq Unnoticed'
        /\ LastPacket' = Delivery /\ packets' # << >>
        /\ Delivery.first \in BOOLEAN
    BY <1>1, UnnoticedStays, AppendedFacts, DeliveryFacts DEF PathIInv, Packet
  <1>3. InStep(r)' => InStep(r)
    BY <1>1, InStepStays
  <1>4. PICK payload \in Payloads(Delivery) :
          \/ /\ IsRequest(payload)
             /\ Wrong' = Wrong /\ asked' = EcmOf(payload)
          \/ /\ ~IsRequest(payload) /\ Delivery.first
             /\ Wrong' = Wrong /\ pending_ecm_packet' = NoCell
          \/ /\ ~IsRequest(payload) /\ ~Delivery.first
             /\ IsResponse(Delivery, payload) /\ pending_ecm_packet # NoCell
             /\ main' = "queued"
             /\ Wrong' \subseteq Wrong \cup {pending_ecm_packet}
             /\ KeyOf(payload) = asked => Wrong' \subseteq Wrong
          \/ /\ ~IsRequest(payload) /\ ~Delivery.first
             /\ Wrong' = Wrong /\ UNCHANGED card
    BY CallEffect
  <1>5. CASE \E l \in losses : Here <= l /\ l < End(Delivery) /\ (~Delivery.first \/ Here < l)
    <2>1. PICK l \in losses : Here <= l /\ l < End(Delivery) /\ (~Delivery.first \/ Here < l)
      BY <1>5
    <2>2. l \in Unnoticed' /\ l \notin Unnoticed
      BY <1>1, <2>1, LossInside, LossesAreNat
    <2>3. Wrong' \subseteq Wrong \cup {pending_ecm_packet}
      BY <1>4
    <2>4. Wrong' \subseteq Wrong \/ ~Owing(r)'
      BY <1>4 DEF Owing
    <2> QED
      BY <1>2, <1>3, <2>2, <2>3, <2>4, ChargedAnew
  <1>6. CASE ~InStep(r)'
    <2>1. CASE Wrong' \subseteq Wrong
      <3>1. IsFiniteSet(Wrong')
        BY <2>1, FS_Subset DEF Charged
      <3> QED
        BY <1>6, <3>1 DEF Charged
    <2>2. CASE ~(Wrong' \subseteq Wrong)
      <3>1. Wrong' \subseteq Wrong \cup {pending_ecm_packet}
        BY <1>4
      <3>2. IsFiniteSet(Wrong \cup {pending_ecm_packet})
        BY OneMore DEF Charged
      <3>3. IsFiniteSet(Wrong')
        BY <3>1, <3>2, FS_Subset
      <3> QED
        BY <1>6, <3>3 DEF Charged
    <2> QED
      BY <2>1, <2>2
  <1>7. CASE /\ ~\E l \in losses : Here <= l /\ l < End(Delivery) /\ (~Delivery.first \/ Here < l)
             /\ InStep(r)'
    <2>1. losses \subseteq Nat /\ Here \in Nat /\ End(Delivery) \in Nat
      BY <1>1, LossesAreNat, AppendedFacts
    <2>2. Uncut
      BY <1>7, <2>1 DEF Uncut
    <2>3. Here \in DOMAIN r.ecm
      <3>1. CASE Delivery.first
        BY <1>1, <2>2, <3>1, FirstIsSent
      <3>2. CASE ~Delivery.first
        <4>1. \A l \in losses : l < Here \/ l >= End(Delivery)
          BY <1>7, <2>1, <3>2
        <4> QED
          BY <1>1, <1>7, <4>1, InStepStays
      <3> QED
        BY <3>1, <3>2
    <2> DEFINE w == Written(Delivery)
    <2>4. /\ ~Long(Delivery) /\ Len(w) >= Len(Command)
          /\ IsRequest(w) => Len(w) > Len(Command)
          /\ IsResponse(Delivery, w) => KeyOf(w) = r.ecm[Here]
          /\ End(Delivery) \notin losses =>
                /\ End(Delivery) \in DOMAIN r.ecm
                /\ r.ecm[End(Delivery)] = IF IsRequest(w) THEN EcmOf(w) ELSE r.ecm[Here]
      BY <1>1, <2>2, <2>3, SentFacts
    <2>5. /\ IsRequest(payload) <=> IsRequest(w)
          /\ IsRequest(w) => EcmOf(payload) = EcmOf(w)
          /\ IsResponse(Delivery, payload) => KeyOf(payload) = r.ecm[Here]
      BY <1>1, <2>4, KindFacts, DeliveredFacts
    <2>6. ~Delivery.first => /\ packets # << >> /\ Here = End(LastPacket)
                             /\ Here \notin losses
      <3> SUFFICES ASSUME ~Delivery.first
                   PROVE  /\ packets # << >> /\ Here = End(LastPacket)
                          /\ Here \notin losses
        OBVIOUS
      <3>1. packets # << >> /\ Here = End(LastPacket)
        BY <1>1, DeliveryFacts DEF PathIInv
      <3>2. End(Delivery) > Here
        BY <1>1, <2>1, <2>4, DeliveredFacts, AppendedFacts
      <3>3. Here \notin losses
        BY <1>7, <2>1, <3>2
      <3> QED
        BY <3>1, <3>3
    <2>7. Owing(r)' => /\ main' = "idle" /\ pending_ecm_packet' # NoCell
                       /\ End(Delivery) \notin losses
                       /\ ~(End(Delivery) \in DOMAIN r.ecm /\ asked' = r.ecm[End(Delivery)])
      BY <1>1, <1>2 DEF Owing, End, Extent
    <2>8. CASE IsRequest(payload)
      <3>1. Wrong' = Wrong /\ asked' = EcmOf(payload)
        BY <1>4, <2>8
      <3>2. ~Owing(r)'
        BY <2>4, <2>5, <2>7, <2>8, <3>1
      <3> QED
        BY <1>2, <1>3, <3>1, <3>2, ChargedKept
    <2>9. CASE ~IsRequest(payload) /\ Delivery.first
      <3>1. Wrong' = Wrong /\ pending_ecm_packet' = NoCell
        BY <1>4, <2>9
      <3>2. ~Owing(r)'
        BY <2>7, <3>1
      <3> QED
        BY <1>2, <1>3, <3>1, <3>2, ChargedKept
    <2>10. CASE /\ ~IsRequest(payload) /\ ~Delivery.first
                /\ IsResponse(Delivery, payload) /\ pending_ecm_packet # NoCell
                /\ main' = "queued"
                /\ Wrong' \subseteq Wrong \cup {pending_ecm_packet}
                /\ KeyOf(payload) = asked => Wrong' \subseteq Wrong
      <3>1. ~Owing(r)'
        BY <2>7, <2>10
      <3>2. CASE asked = r.ecm[Here]
        <4>1. Wrong' \subseteq Wrong
          BY <2>5, <2>10, <3>2
        <4> QED
          BY <1>2, <1>3, <3>1, <4>1, ChargedKept
      <3>3. CASE asked # r.ecm[Here]
        <4>1. Owing(r)
          BY <1>1, <2>6, <2>10, <3>3 DEF Owing
        <4>2. Wrong' \subseteq Wrong \cup {pending_ecm_packet}
          BY <2>10
        <4> QED
          BY <1>2, <1>3, <3>1, <4>1, <4>2, ChargedOwed
      <3> QED
        BY <3>2, <3>3
    <2>11. CASE /\ ~IsRequest(payload) /\ ~Delivery.first
                /\ Wrong' = Wrong /\ UNCHANGED card
      <3>1. Owing(r)' => Owing(r)
        <4> SUFFICES ASSUME Owing(r)' PROVE Owing(r)
          OBVIOUS
        <4>1. /\ pending_ecm_packet' = pending_ecm_packet /\ asked' = asked
          BY <2>11 DEF card
        <4>2. asked # r.ecm[Here] /\ pending_ecm_packet # NoCell
          BY <2>4, <2>5, <2>7, <2>11, <4>1
        <4> QED
          BY <1>1, <2>6, <2>11, <4>2 DEF Owing
      <3> QED
        BY <1>2, <1>3, <2>11, <3>1, ChargedKept
    <2> QED
      BY <1>4, <2>8, <2>9, <2>10, <2>11
  <1> QED
    BY <1>5, <1>6, <1>7

LEMMA WrongInitIInv == PathInit => WrongIInv
  <1> SUFFICES ASSUME PathInit, NEW r \in Received, Source(r)
               PROVE  CardProofs!Base /\ Charged(r)
    BY PathInitBase DEF WrongIInv
  <1>1. PathIInv
    BY PathInitIInv
  <1>2. CardProofs!Base /\ CardProofs!WrongKeys = {}
    BY CardConstants, SameCard, CardProofs!InitIInv
    DEF PathInit, CardProofs!IInv, CardProofs!KeysMatch, CardProofs!WrongKeys
  <1>3. Wrong = {}
    BY <1>2, SameCard
  <1>4. ~Owing(r)
    BY DEF PathInit, Init, Owing
  <1>5. IsFiniteSet(Wrong) /\ Cardinality(Wrong) = 0
    BY <1>3, FS_EmptySet
  <1>6. Cardinality(Unnoticed) \in Nat
    BY <1>1, UnnoticedFinite
  <1> QED
    BY <1>2, <1>4, <1>5, <1>6 DEF Charged

LEMMA WrongNextIInv ==
    PathIInv /\ PathIInv' /\ WrongIInv /\ [PathNext]_pathvars => WrongIInv'
  <1> SUFFICES ASSUME PathIInv, PathIInv', WrongIInv, [PathNext]_pathvars,
                      NEW r \in Received, Source(r)'
               PROVE  Charged(r)'
    BY PathNextBase DEF WrongIInv
  <1>1. stream' = stream /\ losses' = losses
    BY DEF PathNext, TransferBcas, Push, Search, Resync, CouldntSync, Starved, Corrupt,
           ParsePacket, Deliver, Registered, input, pathvars, vars
  <1>2. Source(r) /\ Charged(r) /\ CardProofs!Base
    BY <1>1 DEF Source, WrongIInv
  <1>3. ASSUME UNCHANGED <<losses, packets>>, Wrong' \subseteq Wrong,
               UNCHANGED card \/ pending_ecm_packet' = NoCell
        PROVE  Charged(r)'
    <2>1. Unnoticed' = Unnoticed /\ (InStep(r)' => InStep(r))
      BY <1>3 DEF Unnoticed, InStep, End, Extent
    <2>2. Owing(r)' => Owing(r)
      <3>1. CASE UNCHANGED card
        <4>1. UNCHANGED <<main, pending_ecm_packet, asked>>
          BY <3>1 DEF card
        <4> QED
          BY <1>3, <4>1 DEF Owing, LastPacket, End, Extent
      <3>2. CASE pending_ecm_packet' = NoCell
        BY <3>2 DEF Owing
      <3> QED
        BY <1>3, <3>1, <3>2
    <2> QED
      BY <1>2, <1>3, <2>1, <2>2, ChargedKept
  <1>4. CASE TransferBcas \/ Search \/ UNCHANGED pathvars
    <2>1. UNCHANGED <<losses, packets>> /\ UNCHANGED card
      BY <1>4 DEF TransferBcas, Push, Search, Resync, CouldntSync, Starved, Corrupt,
                  pathvars, vars
    <2>2. Wrong' = Wrong
      BY <1>2, <2>1, QuietBase
    <2> QED
      BY <1>3, <2>1, <2>2
  <1>5. CASE Registered
    <2>1. UNCHANGED <<losses, packets>> /\ pending_ecm_packet' = NoCell
      BY <1>5 DEF Registered, Card!Registered, vars
    <2>2. Wrong' \subseteq Wrong
      BY <1>2, <1>5, CallBase DEF Registered
    <2> QED
      BY <1>3, <2>1, <2>2
  <1>6. CASE ParsePacket
    BY <1>2, <1>6, ParseCharged
  <1> QED
    BY <1>4, <1>5, <1>6 DEF PathNext

\* A loss that goes unnoticed costs one wrong key at most, for any number of losses, as
\* long as the parser is not fooled: every packet it delivers is one of the card's or
\* has a loss inside or right before it.
THEOREM OneWrongKeyEach ==
    PathSpec => [](\A r \in Received : Source(r) /\ InStep(r) => OneWrongKeyPerLoss)
  <1>1. PathIInv /\ WrongIInv
           => (\A r \in Received : Source(r) /\ InStep(r) => OneWrongKeyPerLoss)
    <2> SUFFICES ASSUME PathIInv, WrongIInv, NEW r \in Received, Source(r), InStep(r)
                 PROVE  Cardinality(Wrong) <= Cardinality(Unnoticed)
      BY DEF OneWrongKeyPerLoss
    <2>1. /\ Cardinality(Wrong) \in Nat /\ Cardinality(Unnoticed) \in Nat
          /\ Cardinality(Wrong) + (IF Owing(r) THEN 1 ELSE 0) <= Cardinality(Unnoticed)
      BY UnnoticedFinite, FS_CardinalityType DEF WrongIInv, Charged
    <2>2. CASE Owing(r)
      BY <2>1, <2>2
    <2>3. CASE ~Owing(r)
      BY <2>1, <2>3
    <2> QED
      BY <2>2, <2>3
  <1> QED
    BY <1>1, WrongInitIInv, WrongNextIInv, PathInvariance, PTL DEF PathSpec

-----------------------------------------------------------------------------
(***************************************************************************)
(* Behind the last loss.  Once a request from there was delivered, the     *)
(* parser stays on the card's packets and never synchronises again, so     *)
(* that the last request, its answer and the newest entry stay together.   *)
(***************************************************************************)

\* The requests delivered that were received behind every loss.
Requests ==
    {i \in 1 .. Len(packets) :
        /\ \A k \in losses : packets[i].at >= k
        /\ Len(packets[i].bytes) > CommandEnd
        /\ IsEcmRequest(packets[i].bytes, 0)}

\* The last of them.
Newest(m) == \A i \in Requests : i <= m

\* The ECM of a request.
EcmIn(q) == q.bytes[CommandEnd + 1]

\* The parser is on the card's packets behind the last loss, behind the request m.
OnCourse(r, m) ==
    /\ is_synced /\ n_sync_packets > 0
    /\ Here \in Behind(r)
    /\ packets[m].at \in Behind(r) /\ packets[m].at < Here
    /\ IsRequest(Written(SentAt(r, packets[m].at)))
    /\ asked = EcmIn(packets[m])
    /\ asked = r.ecm[Here]

\* As long as its request waits, no answer to it came; then the newest entry is its own.
Answered(r, m) ==
    IF main = "idle" /\ pending_ecm_packet # NoCell
    THEN \A j \in Answers(r) : j > packets[m].at => j >= Here
    ELSE ecm_queue # << >> /\ mem[Last(ecm_queue)] = [data |-> asked, key |-> asked]

Caught(r) == Requests # {} => \E m \in Requests : Newest(m) /\ OnCourse(r, m) /\ Answered(r, m)

\* Between two pushes the parser has taken every packet that is whole.
Exhausted == pc = "idle" /\ is_synced => ~PacketLeft

CaughtIInv ==
    /\ CardProofs!Base
    /\ Exhausted
    /\ \A r \in Received : Source(r) /\ Complete(r) => Caught(r)

\* What Complete says of the card's packet at k.
LEMMA BehindFacts ==
    ASSUME PathIInv, NEW r \in Received, Source(r), Complete(r),
           NEW k \in Behind(r), k # Len(stream)
    PROVE  /\ k \in 0 .. Len(stream) - MinSize
           /\ PacketSize(stream, k) \in Nat /\ PacketSize(stream, k) > 0
           /\ k + PacketSize(stream, k) <= Len(stream)
           /\ ByteSize(stream, k) = PacketSize(stream, k)
           /\ XorOf(Body(stream, k)) = stream[k + PacketSize(stream, k)]
           /\ \A j \in Behind(r) : j > k => j >= k + PacketSize(stream, k)
           /\ IsRequest(Written(SentAt(r, k))) => \E j \in Answers(r) : j > k
  <1>1. /\ stream \in Seq(Byte) /\ Len(stream) \in Nat /\ r.stream = stream
        /\ r.losses = losses
    BY LenProperties DEF PathIInv, IInv, TypeOK, Source
  <1>2. /\ k \in 0 .. Len(stream) - MinSize
        /\ k + PacketSize(stream, k) <= Len(stream)
        /\ XorOf(Body(stream, k)) = stream[k + PacketSize(stream, k)]
        /\ \A j \in Behind(r) : j > k => j >= k + PacketSize(stream, k)
        /\ IsRequest(Written(SentAt(r, k))) => \E j \in Answers(r) : j > k
    BY <1>1 DEF Complete
  <1>3. k \in Nat /\ k + HeaderSize <= Len(stream)
    BY <1>1, <1>2, Constants
  <1>4. /\ PacketSize(stream, k) \in Nat /\ PacketSize(stream, k) > 0
        /\ Len(Body(stream, k)) + 1 = PacketSize(stream, k)
    <2>1. /\ PayloadLen(stream, k) \in Nat /\ PacketSize(stream, k) \in Nat
          /\ PacketSize(stream, k) = HeaderSize + PayloadLen(stream, k) + 1
      BY <1>1, <1>3, SizeFacts
    <2>2. Len(Body(stream, k)) = HeaderSize + PayloadLen(stream, k)
      BY <1>1, <1>2, <1>3, BodyFacts
    <2> QED
      BY <2>1, <2>2, Constants
  <1>5. Whole(r, k)
    <2>1. ByteSize(stream, k) \in Nat
      BY <1>1, <1>3, SizeFacts
    <2>2. \A l \in losses : l <= k
      BY <1>1 DEF Behind
    <2> QED
      BY <1>1, <1>2, <2>2 DEF Whole
  <1>6. ~Long([bytes |-> Body(stream, k)])
    <2>1. k \in DOMAIN r.ecm /\ CardAnswers(r)
      BY ReceivedAssumption DEF Behind
    <2> QED
      BY <1>1, <1>2, <1>5, <2>1 DEF CardAnswers
  <1>7. PacketSize(stream, k) < ByteCount
    BY <1>4, <1>6, Constants DEF Long
  <1>8. ByteSize(stream, k) = PacketSize(stream, k)
    BY <1>4, <1>7, Constants DEF ByteSize
  <1> QED
    BY <1>2, <1>4, <1>8

\* On the card's packets behind the last loss no checksum is wrong.
LEMMA NoCorruption ==
    ASSUME PathIInv, NEW r \in Received, Source(r), Complete(r), Here \in Behind(r)
    PROVE  ~Corrupt
  <1> SUFFICES ASSUME Corrupt PROVE FALSE
    OBVIOUS
  <1>1. IInv /\ PacketLeft
    BY DEF PathIInv, Corrupt
  <1>2. /\ Here \in Nat /\ fed \in Nat /\ Len(raw_stream) \in Nat /\ parsed_size \in Nat
        /\ Here + MinSize <= fed
        /\ PacketSize(raw_stream, parsed_size) = PacketSize(stream, Here)
        /\ parsed_size + PacketSize(raw_stream, parsed_size) <= Len(raw_stream)
        /\ Body(raw_stream, parsed_size) = Body(stream, Here)
        /\ \A i \in 1 .. Len(raw_stream) - parsed_size :
              raw_stream[parsed_size + i] = stream[Here + i]
    BY <1>1, AheadFacts
  <1>3. Here # Len(stream)
    BY <1>1, <1>2, LenProperties, Constants DEF IInv, TypeOK
  <1>4. /\ PacketSize(stream, Here) \in Nat /\ PacketSize(stream, Here) > 0
        /\ ByteSize(stream, Here) = PacketSize(stream, Here)
        /\ XorOf(Body(stream, Here)) = stream[Here + PacketSize(stream, Here)]
    BY <1>3, BehindFacts
  <1>5. ByteSize(raw_stream, parsed_size) = PacketSize(stream, Here)
    BY <1>2, <1>4 DEF ByteSize
  <1>6. ChecksumBytes(raw_stream, parsed_size) = {stream[Here + PacketSize(stream, Here)]}
    <2>1. parsed_size + PacketSize(stream, Here) # 0
      BY <1>2, <1>4
    <2>2. PacketSize(stream, Here) \in 1 .. Len(raw_stream) - parsed_size
      BY <1>2, <1>4
    <2>3. raw_stream[parsed_size + PacketSize(stream, Here)] = stream[Here + PacketSize(stream, Here)]
      BY <1>2, <2>2
    <2> QED
      BY <1>5, <2>1, <2>3 DEF ChecksumBytes
  <1> QED
    BY <1>2, <1>4, <1>6 DEF Corrupt

\* Whether the packet delivered is a request, by its bytes.
LEMMA DeliveredRequest ==
    ASSUME PathIInv, Deliver, Len(Delivery.bytes) > CommandEnd
    PROVE  IsEcmRequest(Delivery.bytes, 0) <=> IsEcmRequest(stream, Here)
  <1>1. /\ stream \in Seq(Byte) /\ Here \in Nat /\ Here + HeaderSize <= Len(stream)
        /\ Here + PacketSize(stream, Here) <= Len(stream)
        /\ Delivery.bytes = Body(stream, Here)
    BY DeliveredFacts, AppendedFacts DEF PathIInv, IInv, TypeOK
  <1>2. /\ Len(Delivery.bytes) \in Nat
        /\ \A i \in 1 .. Len(Delivery.bytes) : Delivery.bytes[i] = stream[Here + i]
    BY <1>1, BodyFacts, LenProperties
  <1>3. \A i \in 1 .. CommandEnd : Delivery.bytes[0 + i] = stream[Here + i]
    BY <1>2, Constants
  <1> QED
    BY <1>1, <1>3, EcmShift

\* The call for a packet of the card behind the last loss.
LEMMA BehindDelivery ==
    ASSUME PathIInv, Deliver, NEW r \in Received, Source(r), Complete(r), Here \in Behind(r),
           NEW payload \in Payloads(Delivery)
    PROVE  /\ Here \in Nat /\ Here' \in Nat /\ Here' > Here
           /\ Here' \in Behind(r)
           /\ \A j \in Behind(r) : j > Here => j >= Here'
           /\ IsRequest(payload) <=> IsRequest(Written(SentAt(r, Here)))
           /\ IsRequest(payload) <=> /\ Len(Delivery.bytes) > CommandEnd
                                     /\ IsEcmRequest(Delivery.bytes, 0)
           /\ IsRequest(payload) => EcmOf(payload) = EcmIn(Delivery)
           /\ r.ecm[Here'] = IF IsRequest(payload) THEN EcmOf(payload) ELSE r.ecm[Here]
           /\ ~IsRequest(payload) /\ IsResponse(Delivery, payload) => KeyOf(payload) = r.ecm[Here]
           /\ ~IsRequest(payload) /\ Here \in Answers(r) => IsResponse(Delivery, payload)
  <1> DEFINE w == Written(Delivery)
  <1>1. /\ Here \in Nat /\ Here \in 0 .. Len(stream) - MinSize /\ Len(stream) \in Nat
        /\ Here + HeaderSize <= Len(stream)
        /\ Here + PacketSize(stream, Here) <= Len(stream)
        /\ stream \in Seq(Byte) /\ r.stream = stream /\ r.losses = losses
        /\ Delivery.bytes = Body(stream, Here)
        /\ w \in Seq(Byte) /\ Len(w) \in Nat
        /\ Len(Delivery.bytes) = HeaderSize + Len(w)
        /\ losses \subseteq Nat
    <2>1. Written(Delivery) \in Seq(Byte) /\ Len(Written(Delivery)) \in Nat
      BY DeliveredFacts, LenProperties
    <2>2. stream \in Seq(Byte) /\ Len(stream) \in Nat
      BY LenProperties DEF PathIInv, IInv, TypeOK
    <2> QED
      BY <2>1, <2>2, DeliveredFacts, AppendedFacts, LossesAreNat DEF Source
  <1>2. /\ PacketSize(stream, Here) \in Nat /\ PacketSize(stream, Here) > 0
        /\ ByteSize(stream, Here) = PacketSize(stream, Here)
        /\ \A j \in Behind(r) : j > Here => j >= Here + PacketSize(stream, Here)
    <2>1. Here # Len(stream)
      BY <1>1, Constants
    <2> QED
      BY <2>1, BehindFacts
  <1>3. End(Delivery) = Here + PacketSize(stream, Here) /\ Here' = Here + PacketSize(stream, Here)
    <2>1. End(Delivery) = Here + ByteSize(stream, Here)
      BY DeliveredFacts, AppendedFacts
    <2>2. ByteSize(raw_stream, parsed_size) = ByteSize(stream, Here)
      BY DeliveryFacts DEF ByteSize, PathIInv
    <2>3. Here' = dropped + (parsed_size + PacketSize(stream, Here))
      BY <1>2, <2>2 DEF Here, Deliver
    <2>4. dropped \in Nat /\ parsed_size \in Nat
      BY DEF PathIInv, IInv, TypeOK
    <2> QED
      BY <1>2, <2>1, <2>3, <2>4 DEF Here
  <1>4. Here \in DOMAIN r.ecm /\ \A l \in losses : l <= Here
    BY <1>1 DEF Behind
  <1>5. Uncut /\ End(Delivery) \notin losses
    BY <1>1, <1>2, <1>3, <1>4 DEF Uncut
  <1>6. /\ Len(w) >= Len(Command)
        /\ IsRequest(w) <=> IsEcmRequest(stream, Here)
        /\ IsRequest(w) => Len(w) > Len(Command)
        /\ IsResponse(Delivery, w) => KeyOf(w) = r.ecm[Here]
        /\ End(Delivery) \in DOMAIN r.ecm
        /\ r.ecm[End(Delivery)] = IF IsRequest(w) THEN EcmOf(w) ELSE r.ecm[Here]
    BY <1>4, <1>5, SentFacts
  <1>7. /\ IsRequest(payload) <=> IsRequest(w)
        /\ IsRequest(w) => EcmOf(payload) = EcmOf(w)
        /\ IsResponse(Delivery, payload) <=> IsResponse(Delivery, w)
        /\ IsResponse(Delivery, payload) => KeyOf(payload) = KeyOf(w)
    BY <1>1, <1>6, KindFacts
  <1>8. Here' \in Behind(r)
    <2>1. ASSUME NEW l \in r.losses PROVE l <= Here'
      <3>1. l \in Nat /\ l <= Here
        BY <1>1, <1>4
      <3> QED
        BY <1>1, <1>2, <1>3, <3>1
    <2> QED
      BY <1>3, <1>6, <2>1 DEF Behind
  <1>9. Written(SentAt(r, Here)) = w /\ (IsResponse(SentAt(r, Here), w) <=> IsResponse(Delivery, w))
    BY <1>1 DEF Written, SentAt, IsResponse
  <1>10. IsRequest(payload) <=> /\ Len(Delivery.bytes) > CommandEnd
                                /\ IsEcmRequest(Delivery.bytes, 0)
    <2>1. IsRequest(w) => Len(Delivery.bytes) > CommandEnd
      BY <1>1, <1>6, Constants
    <2> QED
      BY <1>6, <1>7, <2>1, DeliveredRequest
  <1>11. IsRequest(payload) => EcmOf(payload) = EcmIn(Delivery)
    <2> SUFFICES ASSUME IsRequest(payload) PROVE EcmOf(w) = EcmIn(Delivery)
      BY <1>7
    <2>1. Len(Command) + 1 \in 1 .. Len(w)
      BY <1>1, <1>6, <1>7, Constants
    <2>2. w[Len(Command) + 1] = stream[Here + HeaderSize + (Len(Command) + 1)]
      BY <1>1, <2>1, WrittenFacts
    <2>3. CommandEnd + 1 \in 1 .. Len(Delivery.bytes)
      BY <1>1, <1>6, <1>7, Constants
    <2>4. Delivery.bytes[CommandEnd + 1] = stream[Here + (CommandEnd + 1)]
      BY <1>1, <2>3, BodyFacts
    <2>5. Here + HeaderSize + (Len(Command) + 1) = Here + (CommandEnd + 1)
      BY <1>1, Constants
    <2> QED
      BY <2>2, <2>4, <2>5 DEF EcmOf, EcmIn
  <1>12. ~IsRequest(payload) /\ Here \in Answers(r) => IsResponse(Delivery, payload)
    BY <1>7, <1>9 DEF Answers
  <1> QED
    BY <1>1, <1>2, <1>3, <1>6, <1>7, <1>8, <1>9, <1>10, <1>11, <1>12

-----------------------------------------------------------------------------
(* The steps of the way, behind the last loss *)

\* A packet delivered is one of the requests when it is a request behind the losses.
LEMMA RequestsGrow ==
    ASSUME PathIInv, Deliver, losses' = losses
    PROVE  /\ Requests \subseteq 1 .. Len(packets)
           /\ Requests' = Requests \cup
                 (IF /\ \A k \in losses : Here >= k
                     /\ Len(Delivery.bytes) > CommandEnd
                     /\ IsEcmRequest(Delivery.bytes, 0)
                  THEN {Len(packets) + 1} ELSE {})
  <1>1. /\ 1 .. Len(packets') = 1 .. Len(packets) \cup {Len(packets) + 1}
        /\ \A i \in 1 .. Len(packets) : packets'[i] = packets[i]
        /\ packets'[Len(packets) + 1] = Delivery
        /\ Delivery.at = Here
        /\ Len(packets) + 1 \notin 1 .. Len(packets)
    BY AppendedFacts DEF Delivery
  <1> DEFINE asks(q) == /\ \A k \in losses : q.at >= k
                        /\ Len(q.bytes) > CommandEnd
                        /\ IsEcmRequest(q.bytes, 0)
  <1>2. Requests = {i \in 1 .. Len(packets) : asks(packets[i])}
    BY DEF Requests
  <1>3. Requests' = {i \in 1 .. Len(packets') : asks(packets'[i])}
    BY DEF Requests, IsEcmRequest
  <1> HIDE DEF asks
  <1>4. Requests' = Requests \cup (IF asks(Delivery) THEN {Len(packets) + 1} ELSE {})
    BY <1>1, <1>2, <1>3
  <1> QED
    BY <1>1, <1>2, <1>4 DEF asks

\* A request of the card behind the last loss puts the parser on course.
LEMMA RequestCatches ==
    ASSUME PathIInv, ParsePacket, NEW r \in Received, Source(r), Complete(r), Here \in Behind(r),
           NEW payload \in Payloads(Delivery), IsRequest(payload),
           Card!Request(EcmOf(payload), Delivery.first)
    PROVE  Caught(r)'
  <1> PICK m \in Nat : m = Len(packets) + 1
    BY AppendedFacts DEF ParsePacket
  <1>1. Deliver /\ losses' = losses
    BY DEF ParsePacket
  <1>2. /\ Here' > Here /\ Here' \in Behind(r)
        /\ \A j \in Behind(r) : j > Here => j >= Here'
        /\ IsRequest(Written(SentAt(r, Here)))
        /\ Len(Delivery.bytes) > CommandEnd /\ IsEcmRequest(Delivery.bytes, 0)
        /\ EcmOf(payload) = EcmIn(Delivery) /\ r.ecm[Here'] = EcmOf(payload)
    BY <1>1, BehindDelivery
  <1>3. \A k \in losses : Here >= k
    <2>1. Here \in Nat /\ losses \subseteq Nat
      BY <1>1, AppendedFacts, LossesAreNat
    <2> QED
      BY <2>1 DEF Behind, Source
  <1>4. m \in Requests' /\ \A i \in Requests' : i <= m
    <2>1. Requests' = Requests \cup {m} /\ Requests \subseteq 1 .. Len(packets)
      BY <1>1, <1>2, <1>3, RequestsGrow
    <2> QED
      BY <1>1, <2>1, AppendedFacts
  <1>5. packets'[m] = Delivery /\ packets'[m].at = Here
    BY <1>1, AppendedFacts DEF Delivery
  <1>6. /\ main' = "idle" /\ asked' = EcmOf(payload)
        /\ pending_ecm_packet' \in Cells
    BY DEF Card!Request
  <1>7. is_synced' /\ n_sync_packets' > 0
    <2>1. n_sync_packets \in Nat
      BY DEF PathIInv, IInv, TypeOK
    <2> QED
      BY <1>1, <2>1 DEF Deliver
  <1>8. OnCourse(r, m)'
    BY <1>2, <1>5, <1>6, <1>7 DEF OnCourse, EcmIn, SentAt, Behind
  <1>9. Answered(r, m)'
    <2>1. \A j \in Answers(r) : j > Here => j >= Here'
      BY <1>2 DEF Answers
    <2> QED
      BY <1>5, <1>6, <2>1, CardConstants DEF Answered
  <1> QED
    BY <1>4, <1>8, <1>9 DEF Caught, Newest

\* On course, the next packet leaves the parser on course.
LEMMA CallKeepsCourse ==
    ASSUME PathIInv, ParsePacket, CardProofs!Base,
           NEW r \in Received, Source(r), Complete(r),
           NEW m \in Requests, Newest(m), OnCourse(r, m), Answered(r, m)
    PROVE  Caught(r)'
  <1>1. Deliver /\ losses' = losses /\ main = "idle" /\ Here \in Behind(r)
    BY DEF ParsePacket, OnCourse
  <1>2. ~Delivery.first
    <2>1. n_sync_packets \in Nat /\ n_sync_packets > 0
      BY DEF PathIInv, IInv, TypeOK, OnCourse
    <2>2. n_sync_packets + 1 # 1
      BY <2>1
    <2> QED
      BY <2>2 DEF Delivery
  <1>3. PICK payload \in Payloads(Delivery) :
          /\ IsResponse(Delivery, payload) => KeyOf(payload) \in Byte
          /\ \/ IsRequest(payload) /\ Card!Request(EcmOf(payload), Delivery.first)
             \/ ~IsRequest(payload) /\ Delivery.first /\ Disposed
             \/ ~IsRequest(payload) /\ ~Delivery.first
                /\ IF IsResponse(Delivery, payload) /\ pending_ecm_packet # NoCell
                   THEN Card!Answer(KeyOf(payload))
                   ELSE UNCHANGED card
    BY CallFacts
  <1>4. /\ Here' > Here /\ Here' \in Behind(r)
        /\ \A j \in Behind(r) : j > Here => j >= Here'
        /\ IsRequest(payload) <=> /\ Len(Delivery.bytes) > CommandEnd
                                  /\ IsEcmRequest(Delivery.bytes, 0)
        /\ r.ecm[Here'] = IF IsRequest(payload) THEN EcmOf(payload) ELSE r.ecm[Here]
        /\ ~IsRequest(payload) /\ IsResponse(Delivery, payload) => KeyOf(payload) = r.ecm[Here]
        /\ ~IsRequest(payload) /\ Here \in Answers(r) => IsResponse(Delivery, payload)
    BY <1>1, BehindDelivery
  <1>5. CASE IsRequest(payload) /\ Card!Request(EcmOf(payload), Delivery.first)
    BY <1>1, <1>5, RequestCatches
  <1>6. CASE /\ ~IsRequest(payload)
             /\ IF IsResponse(Delivery, payload) /\ pending_ecm_packet # NoCell
                THEN Card!Answer(KeyOf(payload))
                ELSE UNCHANGED card
    <2>1. Requests' = Requests /\ m \in 1 .. Len(packets) /\ packets'[m] = packets[m]
      <3>1. ~(Len(Delivery.bytes) > CommandEnd /\ IsEcmRequest(Delivery.bytes, 0))
        BY <1>4, <1>6
      <3>2. Requests' = Requests /\ Requests \subseteq 1 .. Len(packets)
        BY <1>1, <3>1, RequestsGrow
      <3> QED
        BY <1>1, <3>2, AppendedFacts
    <2>2. is_synced' /\ n_sync_packets' > 0
      <3>1. n_sync_packets \in Nat
        BY DEF PathIInv, IInv, TypeOK
      <3> QED
        BY <1>1, <3>1 DEF Deliver
    <2>3. asked' = asked
      BY <1>6 DEF Card!Answer, card
    <2>4. packets[m].at \in Nat /\ Here \in Nat /\ packets[m].at < Here'
      <3>1. packets[m].at \in Nat /\ Here \in Nat
        BY <1>1, <2>1, AppendedFacts DEF Packet
      <3>2. Here' \in Nat
        BY <1>1, BehindDelivery
      <3> QED
        BY <1>4, <3>1, <3>2 DEF OnCourse
    <2>5. OnCourse(r, m)'
      BY <1>4, <1>6, <2>1, <2>2, <2>3, <2>4 DEF OnCourse, EcmIn, SentAt, Behind
    <2>6. Answered(r, m)'
      <3>1. CASE IsResponse(Delivery, payload) /\ pending_ecm_packet # NoCell
        <4>1. Card!Answer(asked)
          BY <1>4, <1>6, <3>1 DEF OnCourse
        <4>2. /\ mem \in [Cells -> CardProofs!Cell] /\ pending_ecm_packet \in Cells
              /\ ecm_queue \in Seq(Cells)
              /\ mem[pending_ecm_packet].data = asked
          BY <1>1, <3>1 DEF CardProofs!Base, CardProofs!TypeOK, CardProofs!PendingIsAsked
        <4>3. mem'[pending_ecm_packet] = [data |-> asked, key |-> asked]
          BY <4>1, <4>2 DEF Card!Answer, CardProofs!Cell
        <4>4. ecm_queue' # << >> /\ Last(ecm_queue') = pending_ecm_packet
          <5>1. ecm_queue' = Append(ecm_queue, pending_ecm_packet)
            BY <4>1 DEF Card!Answer
          <5> QED
            BY <4>2, <5>1, AppendProperties DEF Last
        <4>5. main' = "queued"
          BY <4>1 DEF Card!Answer
        <4> QED
          BY <2>3, <4>3, <4>4, <4>5 DEF Answered
      <3>2. CASE ~(IsResponse(Delivery, payload) /\ pending_ecm_packet # NoCell)
        <4>1. UNCHANGED <<main, pending_ecm_packet, ecm_queue, mem>>
          BY <1>6, <3>2 DEF card
        <4>2. CASE pending_ecm_packet = NoCell
          BY <2>3, <4>1, <4>2 DEF Answered
        <4>3. CASE pending_ecm_packet # NoCell
          <5>1. Here \notin Answers(r)
            BY <1>4, <1>6, <3>2, <4>3
          <5>2. ASSUME NEW j \in Answers(r), j > packets[m].at PROVE j >= Here'
            <6>1. j >= Here /\ j # Here /\ j \in Behind(r)
              BY <1>1, <4>3, <5>1, <5>2 DEF Answered, Answers
            <6>2. j \in Nat
              BY <6>1, <1>1, BehindFacts DEF Answers
            <6> QED
              BY <1>4, <2>4, <6>1, <6>2
          <5>3. \A j \in Answers(r) : j > packets'[m].at => j >= Here'
            BY <2>1, <5>2
          <5> QED
            BY <1>1, <4>1, <4>3, <5>3 DEF Answered
        <4> QED
          BY <4>2, <4>3
      <3> QED
        BY <3>1, <3>2
    <2> QED
      BY <2>1, <2>5, <2>6 DEF Caught, Newest
  <1> QED
    BY <1>2, <1>3, <1>5, <1>6

\* What leaves the packets and the parser's place alone keeps the course.
LEMMA CourseKept ==
    ASSUME NEW r, NEW m \in Requests, OnCourse(r, m), Newest(m),
           UNCHANGED <<losses, packets, is_synced, n_sync_packets, asked>>, Here' = Here
    PROVE  m \in Requests' /\ OnCourse(r, m)' /\ Newest(m)'
  <1>1. Requests' = Requests
    BY DEF Requests, IsEcmRequest
  <1>2. OnCourse(r, m)'
    BY DEF OnCourse, EcmIn
  <1> QED
    BY <1>1, <1>2 DEF Newest

\* A packet delivered keeps the invariant.
LEMMA ParseCaught ==
    ASSUME PathIInv, ParsePacket, CardProofs!Base,
           NEW r \in Received, Source(r), Complete(r), Caught(r)
    PROVE  Caught(r)'
  <1>1. Deliver /\ losses' = losses
    BY DEF ParsePacket
  <1>2. CASE Requests # {}
    <2>1. PICK m \in Requests : Newest(m) /\ OnCourse(r, m) /\ Answered(r, m)
      BY <1>2 DEF Caught
    <2> QED
      BY <2>1, CallKeepsCourse
  <1>3. CASE Requests = {} /\ Requests' # {}
    <2>1. /\ \A k \in losses : Here >= k
          /\ Len(Delivery.bytes) > CommandEnd
          /\ IsEcmRequest(Delivery.bytes, 0)
      BY <1>1, <1>3, RequestsGrow
    <2>2. Here \in Nat /\ losses \subseteq Nat
      BY <1>1, AppendedFacts, LossesAreNat
    <2>3. Uncut
      BY <2>1, <2>2 DEF Uncut
    <2>4. Here \in Behind(r)
      <3>1. IsEcmRequest(stream, Here)
        BY <1>1, <2>1, DeliveredRequest
      <3>2. Here \in DOMAIN r.ecm
        BY <1>1, <2>3, <3>1, RequestIsSent
      <3>3. \A l \in losses : l <= Here
        BY <2>1, <2>2
      <3> QED
        BY <3>2, <3>3 DEF Behind, Source
    <2>5. PICK payload \in Payloads(Delivery) :
            \/ IsRequest(payload) /\ Card!Request(EcmOf(payload), Delivery.first)
            \/ ~IsRequest(payload) /\ Delivery.first /\ Disposed
            \/ ~IsRequest(payload) /\ ~Delivery.first
               /\ IF IsResponse(Delivery, payload) /\ pending_ecm_packet # NoCell
                  THEN Card!Answer(KeyOf(payload))
                  ELSE UNCHANGED card
      BY CallFacts
    <2>6. IsRequest(payload)
      BY <1>1, <2>1, <2>4, BehindDelivery
    <2> QED
      BY <2>4, <2>5, <2>6, RequestCatches
  <1>4. CASE Requests' = {}
    BY <1>4 DEF Caught
  <1> QED
    BY <1>2, <1>3, <1>4

\* A turn of the loop without a packet: on course it can only starve.
LEMMA SearchCaught ==
    ASSUME PathIInv, Search, NEW r \in Received, Source(r), Complete(r), Caught(r)
    PROVE  Caught(r)'
  <1>1. UNCHANGED <<losses, packets>> /\ UNCHANGED card
    BY DEF Search, Resync, CouldntSync, Starved, Corrupt
  <1>2. CASE Requests = {}
    <2>1. Requests' = {}
      BY <1>1, <1>2 DEF Requests, IsEcmRequest
    <2> QED
      BY <2>1 DEF Caught
  <1>3. CASE Requests # {}
    <2>1. PICK m \in Requests : Newest(m) /\ OnCourse(r, m) /\ Answered(r, m)
      BY <1>3 DEF Caught
    <2>2. Starved
      <3>1. is_synced /\ ~Corrupt
        BY <2>1, NoCorruption DEF OnCourse
      <3> QED
        BY <3>1 DEF Search, Resync, CouldntSync
    <2>3. Here' = Here /\ UNCHANGED <<is_synced, n_sync_packets>>
      <3>1. parsed_size <= Len(raw_stream) - 0
        BY <2>2, LenProperties DEF Starved, PathIInv, IInv, ParsedInBuffer, TypeOK
      <3>2. dropped' = dropped + 0 + parsed_size /\ parsed_size' = 0
        BY <2>2, <3>1 DEF Starved, Strip
      <3>3. dropped \in Nat /\ parsed_size \in Nat
        BY DEF PathIInv, IInv, TypeOK
      <3> QED
        BY <2>2, <3>2, <3>3 DEF Here, Starved
    <2>4. asked' = asked /\ Answered(r, m)'
      BY <1>1, <2>1, <2>3 DEF Answered, card
    <2>5. m \in Requests' /\ OnCourse(r, m)' /\ Newest(m)'
      BY <1>1, <2>1, <2>3, <2>4, CourseKept
    <2> QED
      BY <2>4, <2>5 DEF Caught
  <1> QED
    BY <1>2, <1>3

\* A transfer leaves the parser where it is.
LEMMA TransferCaught ==
    ASSUME PathIInv, TransferBcas, NEW r, Caught(r)
    PROVE  Caught(r)'
  <1>1. UNCHANGED <<losses, packets, is_synced, n_sync_packets>> /\ UNCHANGED card
    BY DEF TransferBcas, Push
  <1>2. Here' = Here
    <2>1. parsed_size = 0 /\ parsed_size' = 0 /\ dropped' = dropped
      BY DEF TransferBcas, Push, PathIInv, IInv, ParsedInBuffer
    <2> QED
      BY <2>1 DEF Here
  <1>3. ASSUME NEW m \in Requests, Newest(m), OnCourse(r, m), Answered(r, m)
        PROVE  m \in Requests' /\ Newest(m)' /\ OnCourse(r, m)' /\ Answered(r, m)'
    <2>1. asked' = asked /\ Answered(r, m)'
      BY <1>1, <1>2, <1>3 DEF Answered, card
    <2> QED
      BY <1>1, <1>2, <1>3, <2>1, CourseKept
  <1>4. Requests' = Requests
    BY <1>1 DEF Requests, IsEcmRequest
  <1> QED
    BY <1>3, <1>4 DEF Caught

\* The entry just queued stays the newest, whatever is popped at the other end.
LEMMA RegisteredCaught ==
    ASSUME PathIInv, Registered, CardProofs!Base, QueueLen > 0, NEW r, Caught(r)
    PROVE  Caught(r)'
  <1>1. /\ UNCHANGED <<losses, vars>> /\ main = "queued" /\ main' = "idle"
        /\ pending_ecm_packet' = NoCell
        /\ UNCHANGED <<mem, asked>>
        /\ ecm_queue' = ecm_queue \/ (Len(ecm_queue) > QueueLen /\ ecm_queue' = Tail(ecm_queue))
    <2>1. Card!Registered /\ UNCHANGED losses /\ UNCHANGED vars
      BY DEF Registered
    <2>2. Card!Evict /\ UNCHANGED <<mem, asked>>
      BY <2>1 DEF Card!Registered, Card!feed
    <2>3. ecm_queue' = ecm_queue \/ (Len(ecm_queue) > QueueLen /\ ecm_queue' = Tail(ecm_queue))
      <3>1. CASE Len(ecm_queue) > QueueLen
        BY <2>2, <3>1 DEF Card!Evict, Card!Surplus
      <3>2. CASE ~(Len(ecm_queue) > QueueLen)
        BY <2>2, <3>2 DEF Card!Evict, Card!Surplus
      <3> QED
        BY <3>1, <3>2
    <2> QED
      BY <2>1, <2>2, <2>3 DEF Card!Registered
  <1>2. Here' = Here
    BY <1>1 DEF Here, vars
  <1>3. ecm_queue # << >> => ecm_queue' # << >> /\ Last(ecm_queue') = Last(ecm_queue)
    <2>1. ecm_queue \in Seq(Cells) /\ Len(ecm_queue) \in Nat /\ QueueLen \in Nat
      BY CardAssumption, LenProperties DEF CardProofs!Base, CardProofs!TypeOK
    <2>2. CASE Len(ecm_queue) > QueueLen /\ ecm_queue' = Tail(ecm_queue)
      <3>1. ecm_queue # << >> /\ Len(ecm_queue) >= 2
        BY <2>1, <2>2
      <3>2. /\ Len(Tail(ecm_queue)) = Len(ecm_queue) - 1
            /\ \A i \in 1 .. Len(Tail(ecm_queue)) : Tail(ecm_queue)[i] = ecm_queue[i + 1]
        BY <2>1, <3>1, HeadTailProperties
      <3>3. Last(Tail(ecm_queue)) = Last(ecm_queue)
        BY <2>1, <3>1, <3>2 DEF Last
      <3>4. Tail(ecm_queue) # << >>
        BY <2>1, <3>1, <3>2
      <3> QED
        BY <2>2, <3>3, <3>4
    <2> QED
      BY <1>1, <2>2
  <1>4. ASSUME NEW m \in Requests, Newest(m), OnCourse(r, m), Answered(r, m)
        PROVE  m \in Requests' /\ Newest(m)' /\ OnCourse(r, m)' /\ Answered(r, m)'
    <2>1. Answered(r, m)'
      BY <1>1, <1>3, <1>4 DEF Answered
    <2>2. UNCHANGED <<losses, packets, is_synced, n_sync_packets, asked>>
      BY <1>1 DEF vars, self
    <2> QED
      BY <1>2, <1>4, <2>1, <2>2, CourseKept
  <1>5. Requests' = Requests
    BY <1>1 DEF Requests, IsEcmRequest, vars
  <1> QED
    BY <1>4, <1>5 DEF Caught

\* The loop is left when no whole packet remains, and nothing else ends it synchronised.
LEMMA ExhaustedKept == PathIInv /\ Exhausted /\ [PathNext]_pathvars => Exhausted'
  <1> SUFFICES ASSUME PathIInv, Exhausted, [PathNext]_pathvars, pc' = "idle", is_synced'
               PROVE  ~PacketLeft'
    BY DEF Exhausted
  <1>1. CASE Starved
    <2>1. /\ raw_stream \in Seq(Byte) /\ Len(raw_stream) \in Nat /\ parsed_size \in Nat
          /\ parsed_size <= Len(raw_stream)
      BY <1>1, LenProperties DEF Starved, PathIInv, IInv, TypeOK, ParsedInBuffer
    <2>2. raw_stream' = Drop(raw_stream, 0 + parsed_size) /\ parsed_size' = 0
      BY <1>1, <2>1 DEF Starved, Strip
    <2>3. /\ Len(raw_stream') = Len(raw_stream) - parsed_size
          /\ \A i \in 1 .. Len(raw_stream) - parsed_size :
                raw_stream'[i] = raw_stream[parsed_size + i]
      <3>1. raw_stream' = Drop(raw_stream, parsed_size) /\ parsed_size \in 0 .. Len(raw_stream)
        BY <2>1, <2>2
      <3> QED
        BY <2>1, <3>1, DropFacts
    <2>4. Len(raw_stream) - parsed_size >= MinSize =>
             PacketSize(raw_stream', 0) = PacketSize(raw_stream, parsed_size)
      <3>1. Len(raw_stream) - parsed_size >= MinSize =>
               HeaderSize \in 1 .. Len(raw_stream) - parsed_size
        BY <2>1, Constants
      <3> QED
        BY <2>1, <2>3, <3>1, Constants DEF PacketSize, PayloadLen
    <2>5. ~PacketLeft
      BY <1>1 DEF Starved
    <2> QED
      BY <2>1, <2>2, <2>3, <2>4, <2>5 DEF PacketLeft, PacketSize, PayloadLen
  <1>2. CASE TransferBcas \/ ParsePacket
    BY <1>2 DEF TransferBcas, Push, ParsePacket, Deliver
  <1>3. CASE Search /\ ~Starved
    BY <1>3 DEF Search, Resync, CouldntSync, Corrupt
  <1>4. CASE Registered \/ UNCHANGED pathvars
    <2>1. UNCHANGED <<raw_stream, parsed_size, pc, is_synced>>
      BY <1>4 DEF Registered, pathvars, vars, self
    <2> QED
      BY <2>1 DEF Exhausted, PacketLeft, PacketSize, PayloadLen
  <1> QED
    BY <1>1, <1>2, <1>3, <1>4 DEF PathNext

LEMMA CaughtInitIInv == PathInit => CaughtIInv
  <1> SUFFICES ASSUME PathInit PROVE CaughtIInv
    OBVIOUS
  <1>1. CardProofs!Base
    BY PathInitBase
  <1>2. Exhausted
    BY DEF PathInit, Init, Exhausted
  <1>3. Requests = {}
    BY DEF PathInit, Init, Requests
  <1> QED
    BY <1>1, <1>2, <1>3 DEF CaughtIInv, Caught

LEMMA CaughtNextIInv ==
    QueueLen > 0 /\ PathIInv /\ CaughtIInv /\ [PathNext]_pathvars => CaughtIInv'
  <1> SUFFICES ASSUME QueueLen > 0, PathIInv, CaughtIInv, [PathNext]_pathvars,
                      NEW r \in Received, Source(r)', Complete(r)
               PROVE  Caught(r)'
    BY PathNextBase, ExhaustedKept DEF CaughtIInv
  <1>1. stream' = stream /\ losses' = losses
    BY DEF PathNext, TransferBcas, Push, Search, Resync, CouldntSync, Starved, Corrupt,
           ParsePacket, Deliver, Registered, input, pathvars, vars
  <1>2. Source(r) /\ Caught(r) /\ CardProofs!Base
    BY <1>1 DEF Source, CaughtIInv
  <1>3. CASE TransferBcas
    BY <1>2, <1>3, TransferCaught
  <1>4. CASE Search
    BY <1>2, <1>4, SearchCaught
  <1>5. CASE ParsePacket
    BY <1>2, <1>5, ParseCaught
  <1>6. CASE Registered
    BY <1>2, <1>6, RegisteredCaught
  <1>7. CASE UNCHANGED pathvars
    BY <1>2, <1>7 DEF pathvars, vars, self, card, Caught, Requests, IsEcmRequest, Newest,
                      OnCourse, Answered, EcmIn, Here
  <1> QED
    BY <1>3, <1>4, <1>5, <1>6, <1>7 DEF PathNext

\* When all was received and parsed, the parser is at the end of the stream and the last
\* request is answered.
LEMMA CaughtUp ==
    ASSUME PathIInv, CaughtIInv, NEW r \in Received, Source(r), Complete(r)
    PROVE  CatchesUp
  <1> SUFFICES ASSUME fed = Len(stream), pc = "idle", main = "idle", Requests # {}
               PROVE  /\ ecm_queue # << >>
                      /\ mem[Last(ecm_queue)] = [data |-> EcmIn(packets[Max(Requests)]),
                                                 key  |-> EcmIn(packets[Max(Requests)])]
    BY DEF CatchesUp, Requests, EcmIn
  <1>1. PICK m \in Requests : Newest(m) /\ OnCourse(r, m) /\ Answered(r, m)
    BY DEF CaughtIInv, Caught
  <1>2. Max(Requests) = m
    <2>1. Requests \subseteq Nat
      BY DEF Requests
    <2>2. \A i \in Requests : m >= i
      BY <1>1, <2>1 DEF Newest
    <2>3. \A x \in Requests : (\A y \in Requests : x >= y) => x = m
      BY <1>1, <2>1, <2>2
    <2> QED
      BY <2>2, <2>3 DEF Max
  <1>3. /\ stream \in Seq(Byte) /\ Len(stream) \in Nat /\ dropped \in Nat /\ parsed_size \in Nat
        /\ Len(raw_stream) = Len(stream) - dropped
        /\ Here = dropped + parsed_size
        /\ \A i \in 1 .. Len(raw_stream) : raw_stream[i] = stream[dropped + i]
    BY LenProperties DEF PathIInv, IInv, TypeOK, Window, Here
  <1>4. Here = Len(stream)
    <2> SUFFICES ASSUME Here # Len(stream) PROVE FALSE
      OBVIOUS
    <2>1. /\ Here \in 0 .. Len(stream) - MinSize
          /\ PacketSize(stream, Here) \in Nat
          /\ Here + PacketSize(stream, Here) <= Len(stream)
      BY <1>1, BehindFacts DEF OnCourse
    <2>2. Len(raw_stream) - parsed_size = Len(stream) - Here
      BY <1>3
    <2>3. parsed_size + HeaderSize \in 1 .. Len(raw_stream)
      BY <1>3, <2>1, <2>2, Constants
    <2>4. PacketSize(raw_stream, parsed_size) = PacketSize(stream, Here)
      <3>1. raw_stream[parsed_size + HeaderSize] = stream[dropped + (parsed_size + HeaderSize)]
        BY <1>3, <2>3
      <3>2. dropped + (parsed_size + HeaderSize) = Here + HeaderSize
        BY <1>3, Constants
      <3> QED
        BY <3>1, <3>2 DEF PacketSize, PayloadLen
    <2>5. PacketLeft
      BY <1>3, <2>1, <2>2, <2>4, Constants DEF PacketLeft
    <2> QED
      BY <1>1, <2>5 DEF CaughtIInv, Exhausted, OnCourse
  <1>5. pending_ecm_packet = NoCell
    <2> SUFFICES ASSUME pending_ecm_packet # NoCell PROVE FALSE
      OBVIOUS
    <2>1. /\ packets[m].at \in Behind(r) /\ packets[m].at < Here
          /\ IsRequest(Written(SentAt(r, packets[m].at)))
      BY <1>1 DEF OnCourse
    <2>2. packets[m].at # Len(stream)
      BY <1>3, <1>4, <2>1
    <2>3. PICK j \in Answers(r) : j > packets[m].at
      BY <2>1, <2>2, BehindFacts
    <2>4. j >= Here
      BY <1>1, <2>3 DEF Answered
    <2>5. j \in Behind(r) /\ j # Len(stream)
      BY DEF Answers, Source
    <2>6. j \in 0 .. Len(stream) - MinSize
      BY <2>5, BehindFacts
    <2> QED
      BY <1>3, <1>4, <2>4, <2>6, Constants
  <1> QED
    BY <1>1, <1>2, <1>5 DEF Answered, OnCourse

\* Once a request from behind the last loss was delivered, and all that was received is
\* parsed, the newest entry is the card's last ECM and its key.  The history has room for
\* an entry: with ecm_queue_len 0 the main thread pops every packet it has queued.
THEOREM NewestIsTheCards ==
    QueueLen > 0 /\ PathSpec
        => [](\A r \in Received : Source(r) /\ Complete(r) => CatchesUp)
  <1>1. PathIInv /\ CaughtIInv => (\A r \in Received : Source(r) /\ Complete(r) => CatchesUp)
    BY CaughtUp
  <1> SUFFICES ASSUME QueueLen > 0
               PROVE  PathSpec => [](\A r \in Received : Source(r) /\ Complete(r) => CatchesUp)
    OBVIOUS
  <1>2. PathIInv /\ CaughtIInv /\ [PathNext]_pathvars => CaughtIInv'
    BY CaughtNextIInv
  <1> QED
    BY <1>1, <1>2, CaughtInitIInv, PathInvariance, PTL DEF PathSpec
=============================================================================
