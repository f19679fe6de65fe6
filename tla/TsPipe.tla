------------------------------- MODULE TsPipe -------------------------------
(***************************************************************************)
(* What tsniff promises of the TS it decodes: the chunks the main thread   *)
(* accepts reach the decoder once each, in their order, and the decoder is *)
(* flushed only when it has had all of them.                               *)
(***************************************************************************)
EXTENDS Integers, Sequences

CONSTANT Chunk      \* the stretches of TS a callback may be given

VARIABLES
    accepted,       \* the chunks to be decoded
    decoded,        \* the chunks the decoder was given
    open            \* FALSE when the decoder is flushed

vars == <<accepted, decoded, open>>

Init == accepted = << >> /\ decoded = << >> /\ open = TRUE

Accept(chunk) ==
    /\ open
    /\ accepted' = Append(accepted, chunk)
    /\ UNCHANGED <<decoded, open>>

Decode ==
    /\ open
    /\ Len(decoded) < Len(accepted)
    /\ decoded' = Append(decoded, accepted[Len(decoded) + 1])
    /\ UNCHANGED <<accepted, open>>

Flush ==
    /\ open
    /\ decoded = accepted
    /\ open' = FALSE
    /\ UNCHANGED <<accepted, decoded>>

Next == (\E chunk \in Chunk : Accept(chunk)) \/ Decode \/ Flush

Safe == Init /\ [][Next]_vars

Spec == Safe /\ WF_vars(Decode)
=============================================================================
