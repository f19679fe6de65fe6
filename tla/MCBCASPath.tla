----------------------------- MODULE MCBCASPath ------------------------------
(***************************************************************************)
(* N exchanges, and every way to lose one stretch of them.  A request is   *)
(* <<length, 5, 4, e>> and its checksum, a response <<length, 1, e, 0>> and   *)
(* its checksum; the packets of another command have another start and     *)
(* another length.  The bytes take three bits, so that a packet put        *)
(* together from two others often has a checksum that fits, and no size    *)
(* wraps.                                                                  *)
(***************************************************************************)
EXTENDS BCASPath, Bitwise

CONSTANT N      \* exchanges

MCByteCount  == 16
MCHeaderSize == 1
MCCommand    == <<5, 4>>
MCMinSize    == 4
MCStart      == <<1>>

XorTable        == [a \in 0 .. MCByteCount - 1, b \in 0 .. MCByteCount - 1 |-> a ^^ b]
MCXorByte(a, b) == XorTable[a, b]

Sealed(s)   == Append(s, FoldLeft(MCXorByte, 0, s))
Exchange(e) == <<Sealed(<<3, 5, 4, e>>), Sealed(<<3, 1, e, 0>>)>>
Other       == <<Sealed(<<2, 6, 3>>), Sealed(<<2, 1, 3>>)>>
Sessions    == {FlattenSeq(f) : f \in [1 .. N -> {Exchange(1), Exchange(2), Other}]}

\* Where the i-th packet of a session begins.
Start(p, i) == Len(FlattenSeq(SubSeq(p, 1, i - 1)))

\* What comes of a session of which nothing is lost.
Sent(p) ==
    LET asks(k) == {i \in 1 .. Len(p) : Start(p, i) < k /\ SubSeq(p[i], 2, 3) = MCCommand}
    IN  [stream |-> FlattenSeq(p), losses |-> {},
         ecm    |-> [k \in {Start(p, i) : i \in 1 .. Len(p) + 1} |->
                        IF asks(k) = {} THEN NoEcm ELSE p[Max(asks(k))][4]]]

\* r without the n bytes from the i-th on.
Without(r, i, n) ==
    [stream |-> SubSeq(r.stream, 1, i) \o SubSeq(r.stream, i + n + 1, Len(r.stream)),
     losses |-> {i},
     ecm    |-> [k \in {k \in DOMAIN r.ecm : k < i} \cup {k - n : k \in {k \in DOMAIN r.ecm : k >= i + n}}
                    |-> r.ecm[IF k < i THEN k ELSE k + n]]]

MCReceived ==
    UNION {{Sent(p)} \cup {Without(Sent(p), i, n) :
                             i \in 0 .. Len(FlattenSeq(p)) - 2, n \in 1 .. Len(FlattenSeq(p)) - 1} :
              p \in Sessions}
MCStreams == {r.stream : r \in MCReceived}

\* Nothing is missing behind a loss but what the loss took.
ASSUME CompleteAssumption == \A r \in Received : Complete(r)
=============================================================================
