------------------------------ MODULE BCASPath -------------------------------
(***************************************************************************)
(* The way of the keys from the card to the decoder: the packets of the    *)
(* real card, cut into USB transfers of which some are lost, the parser    *)
(* (BCASStream) and the pseudo card (PseudoBCAS), which transfer_bcas_cb   *)
(* of tsniff/main.c, push and parse_packet of lib/pseudo_bcas.c connect.   *)
(*                                                                         *)
(* A transfer that fails is submitted again without what it held           *)
(* (UsbTransfer), so that bytes are missing between two others.  What will *)
(* be lost is chosen in the beginning: the stream is what arrives, and     *)
(* losses are the places at which something is missing.  The real card     *)
(* answers an ECM by a key that is represented by the ECM itself.          *)
(***************************************************************************)
EXTENDS BCASStream, FiniteSets, SequencesExt

CONSTANTS
    Received,       \* what may arrive: [stream, losses, ecm], see CardAnswers
    Transfer,       \* the lengths of a transfer, unless a loss or the end comes before
    ResponseLen,    \* the length of a response, 0x19
    ResponseStart,  \* and the start of its payload
    NoResult, Failed, Garbage, Cells, NoCell, QueueLen, MaxArrived

NoEcm == ByteCount

\* What is written of the payload of q.
Written(q) == SubSeq(q.bytes, HeaderSize + 1, Len(q.bytes))

\* BCAS_IS_ECM_REQUEST_PACKET and BCAS_IS_ECM_RESPONSE_PACKET
IsRequest(payload)     == IsPrefix(Command, payload)
IsResponse(q, payload) == Len(q.bytes) = HeaderSize + ResponseLen /\ IsPrefix(ResponseStart, payload)

\* The data of a request, the key of a response.
EcmOf(payload) == payload[Len(Command) + 1]
KeyOf(payload) == payload[Len(ResponseStart) + 1]

\* The packet at offset k of r.stream, if it came whole.
Whole(r, k) ==
    /\ k + PacketSize(r.stream, k) <= Len(r.stream)
    /\ \A l \in r.losses : l <= k \/ l >= k + ByteSize(r.stream, k)

\* Where the card's packets begin, r.ecm tells the ECM of the last request before.
\* Nothing but these packets is a request with a checksum that fits; they carry a
\* command, a request its ECM too; a response has the key of the request before it.
CardAnswers(r) ==
    \A k \in 0 .. Len(r.stream) - MinSize : Whole(r, k) =>
        LET size    == PacketSize(r.stream, k)
            q       == [bytes |-> Body(r.stream, k)]
            payload == Written(q)
        IN  /\ /\ IsEcmRequest(r.stream, k)
               /\ Long(q) \/ XorOf(q.bytes) = r.stream[k + size]
               => k \in DOMAIN r.ecm
            /\ k \in DOMAIN r.ecm =>
               /\ ~Long(q) /\ Len(payload) >= Len(Command)
               /\ IsRequest(payload) => Len(payload) > Len(Command)
               /\ IsResponse(q, payload) => KeyOf(payload) = r.ecm[k]
               /\ k + size \notin r.losses =>
                     /\ k + size \in DOMAIN r.ecm
                     /\ r.ecm[k + size] = IF IsRequest(payload) THEN EcmOf(payload) ELSE r.ecm[k]

\* Where the card's packets begin behind the last loss, and its responses do.
Behind(r)    == {k \in DOMAIN r.ecm : \A l \in r.losses : l <= k}
SentAt(r, k) == [bytes |-> Body(r.stream, k)]
Answers(r)   == {k \in Behind(r) \ {Len(r.stream)} :
                    LET payload == Written(SentAt(r, k))
                    IN  ~IsRequest(payload) /\ IsResponse(SentAt(r, k), payload)}

\* From the last loss on, the card's packets are whole, sound and one behind the other,
\* and its last request is answered.
Complete(r) ==
    \A k \in Behind(r) \ {Len(r.stream)} :
        LET size == PacketSize(r.stream, k)
        IN  /\ k \in 0 .. Len(r.stream) - MinSize
            /\ k + size <= Len(r.stream)
            /\ XorOf(Body(r.stream, k)) = r.stream[k + size]
            /\ \A j \in Behind(r) : j > k => j >= k + size
            /\ IsRequest(Written(SentAt(r, k))) => \E j \in Answers(r) : j > k

ASSUME ReceivedAssumption ==
    /\ Streams = {r.stream : r \in Received}
    /\ \A r \in Received : r.losses \subseteq 0 .. Len(r.stream) /\ CardAnswers(r)
    /\ Transfer \subseteq Nat \ {0}

ASSUME ResponseAssumption ==
    /\ ResponseStart \in Seq(Byte) /\ ResponseLen \in Nat
    /\ Len(ResponseStart) < ResponseLen /\ HeaderSize + ResponseLen + 1 < ByteCount

ASSUME CardAssumption ==
    /\ NoCell \notin Cells
    /\ {NoResult, Failed, Garbage} \cap (Byte \cup {NoEcm}) = {}
    /\ NoResult \notin {Failed, Garbage} /\ Failed # Garbage
    /\ QueueLen \in Nat /\ MaxArrived \in Nat

VARIABLES
    losses,
    mem, used, ecm_queue, pending_ecm_packet, n_ecm_arrived, main,
    lookup, wanted, cursor, result, synced, asked, arrived, held, undisturbed

Card == INSTANCE PseudoBCAS WITH Ecm <- Byte

card     == <<mem, used, ecm_queue, pending_ecm_packet, n_ecm_arrived, main,
              lookup, wanted, cursor, result, synced, asked, arrived, held, undisturbed>>
pathvars == <<losses, vars, card>>

\* What parse_packet may find in the payload of q.  packet is a local of
\* bcas_stream_parse and only packet.len bytes of it are written: behind them is what
\* an earlier packet left there, or the stack.
Payloads(q) ==
    {Written(q) \o rest : rest \in [1 .. Len(Command) + 1 - Len(Written(q)) -> Byte]}

PathInit ==
    /\ \E r \in Received : stream = r.stream /\ losses = r.losses
    /\ Init
    /\ Card!Init

-----------------------------------------------------------------------------
\* transfer_bcas_cb: the data of a transfer are pushed, the last one before a loss or
\* the end may be shorter.
TransferBcas ==
    /\ \E n \in Transfer : \E m \in 1 .. n :
          /\ Push(m)
          /\ \A l \in losses : l <= fed \/ l >= fed + m
          /\ m = n \/ fed + m \in losses \cup {Len(stream)}
    /\ UNCHANGED <<losses, card>>

\* A turn of the parser's loop that delivers nothing.
Search ==
    /\ main = "idle"
    /\ \/ \E skip \in 0 .. Len(raw_stream) : Resync(skip) \/ CouldntSync(skip)
       \/ Starved
       \/ Corrupt
    /\ UNCHANGED <<losses, card>>

\* A flagged packet ends the waiting for a response.
Disposed ==
    /\ pending_ecm_packet' = NoCell
    /\ used' = used \ {pending_ecm_packet}
    /\ synced' = TRUE
    /\ UNCHANGED <<mem, ecm_queue, n_ecm_arrived, main, lookup, wanted, cursor, result,
                   asked, arrived, held, undisturbed>>

\* parse_packet is called with a packet: a request, the answer to one, or one that is
\* not for it.
ParsePacket ==
    /\ main = "idle"
    /\ Deliver
    /\ LET q == Last(packets') IN \E payload \in Payloads(q) :
          \/ IsRequest(payload) /\ Card!Request(EcmOf(payload), q.first)
          \/ ~IsRequest(payload) /\ q.first /\ Disposed
          \/ ~IsRequest(payload) /\ ~q.first
             /\ IF IsResponse(q, payload) /\ pending_ecm_packet # NoCell
                THEN Card!Answer(KeyOf(payload))
                ELSE UNCHANGED card
    /\ UNCHANGED losses

\* The rest of parse_packet, before the parser goes on.
Registered ==
    /\ Card!Registered
    /\ UNCHANGED <<losses, vars>>

PathNext == TransferBcas \/ Search \/ ParsePacket \/ Registered

PathSpec == PathInit /\ [][PathNext]_pathvars

-----------------------------------------------------------------------------
(* Properties *)

\* A loss that the callback was not told of: the first packet that ends behind it came
\* without the flag, or is put together from both of its sides.
Unnoticed ==
    {k \in losses :
        \E i \in 1 .. Len(packets) :
            /\ End(packets[i]) > k
            /\ \A j \in 1 .. i - 1 : End(packets[j]) <= k
            /\ ~packets[i].first \/ packets[i].at < k}

\* The entries whose key is that of another ECM.
Wrong == {c \in Card!Queued : mem[c].key # mem[c].data}

\* A loss that the parser does not notice costs one wrong key at most: the request
\* behind it puts the pairing right (pseudo_bcas.c:97-105).
OneWrongKeyPerLoss == Cardinality(Wrong) <= Cardinality(Unnoticed)

\* As long as every loss was noticed, the packets come as the pseudo card expects them:
\* the first one is a request, and a response is that of the request before.
CardIsServed == [][Unnoticed' = {} => Card!Next]_card

\* Once a request from behind the last loss came through, so does everything: the
\* newest entry of the history is the last ECM and its key, although a request from
\* before the loss was left waiting (pseudo_bcas.c:84-105).
CatchesUp ==
    LET behind == {i \in 1 .. Len(packets) :
                      /\ \A k \in losses : packets[i].at >= k
                      /\ Len(packets[i].bytes) > CommandEnd
                      /\ IsEcmRequest(packets[i].bytes, 0)}
        e      == packets[Max(behind)].bytes[CommandEnd + 1]
    IN  fed = Len(stream) /\ pc = "idle" /\ main = "idle" /\ behind # {}
        => ecm_queue # << >> /\ mem[Last(ecm_queue)] = [data |-> e, key |-> e]
=============================================================================
