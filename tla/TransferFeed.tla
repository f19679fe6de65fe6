---------------------------- MODULE TransferFeed ----------------------------
(***************************************************************************)
(* What the transfers of an endpoint promise the callback that is given    *)
(* their data: what the device sent, in the order it was sent and once     *)
(* each.  Data may be lost, and what is lost is not given later.           *)
(***************************************************************************)
EXTENDS Integers

VARIABLES
    sent,       \* the units the device has sent, numbered from 1
    pending,    \* those that may still reach the callback
    got         \* those it was given

vars == <<sent, pending, got>>

Init == sent = 0 /\ pending = {} /\ got = {}

Send ==
    /\ sent' = sent + 1
    /\ pending' \in {pending, pending \union {sent'}}
    /\ UNCHANGED got

Lose ==
    /\ pending' \subseteq pending
    /\ UNCHANGED <<sent, got>>

\* A buffer: the oldest of what is pending.
Give(buffer) ==
    /\ buffer \subseteq pending
    /\ \A u \in buffer, v \in pending \ buffer : u < v
    /\ got' = got \union buffer
    /\ pending' = pending \ buffer
    /\ UNCHANGED sent

Next == Send \/ Lose \/ \E buffer \in SUBSET pending : Give(buffer)

Spec == Init /\ [][Next]_vars
=============================================================================
