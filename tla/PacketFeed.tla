----------------------------- MODULE PacketFeed -----------------------------
(***************************************************************************)
(* What the B-CAS parser promises to the callback it is given: packets cut *)
(* out of the stream in the order of the stream, none of them delivered    *)
(* twice, adjacent unless the callback is told that bytes were lost, and   *)
(* starting with an ECM request after every loss.  How the stream is       *)
(* chunked, buffered, searched and stripped is left to the parser.         *)
(***************************************************************************)
EXTENDS BCASPacket

VARIABLES stream, fed, packets

vars == <<stream, fed, packets>>

Init ==
    /\ stream \in Streams
    /\ fed = 0
    /\ packets = << >>

\* More of the stream arrives.
Receive ==
    /\ fed' \in fed + 1 .. Len(stream)
    /\ UNCHANGED <<stream, packets>>

\* Where the last packet ended.
LastEnd == End(packets[Len(packets)])

\* The packet at offset k goes to the callback: it is received and sound,
\* and either goes on where the last one ended or, flagged, resumes with an
\* ECM request after a loss.
Emit(k, first) ==
    LET q == [at |-> k, bytes |-> Body(stream, k), first |-> first] IN
    /\ k + PacketSize(stream, k) <= fed
    /\ Long(q) \/ XorOf(q.bytes) = stream[k + PacketSize(stream, k)]
    /\ IF first
       THEN /\ IsEcmRequest(stream, k)
            /\ packets # << >> => k > LastEnd
       ELSE /\ packets # << >>
            /\ k = LastEnd
    /\ packets' = Append(packets, q)
    /\ UNCHANGED <<stream, fed>>

Next ==
    \/ Receive
    \/ \E k \in 0 .. fed - CommandEnd, first \in BOOLEAN : Emit(k, first)

Spec == Init /\ [][Next]_vars
=============================================================================
