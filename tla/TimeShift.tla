----------------------------- MODULE TimeShift ------------------------------
(***************************************************************************)
(* The delay of the TS before it is decoded, proc_b25_chunk and b25_thread *)
(* of tsniff/main.c: the decoder is to meet a chunk only when the keys for *)
(* it have arrived, which come later by B-CAS.                             *)
(*                                                                         *)
(* Time is counted in the milliseconds b25_thread sleeps when there is     *)
(* nothing to do.  The thread runs as soon as it is awake, and decoding    *)
(* takes no time: what is shown is the delay the code asks for.  The times *)
(* compared are the wall clock's, which may be set while chunks wait.      *)
(***************************************************************************)
EXTENDS Integers, Sequences

CONSTANTS
    TsDelay,        \* st_b25_ts_delay
    Setting,        \* by how much the clock may be set; bounds the runs
    MaxSet,         \* how often; bounds the runs
    MaxNow,         \* bounds the runs
    MaxChunks       \* bounds the runs

ASSUME DelayAssumption == TsDelay \in Nat
ASSUME SettingAssumption == Setting \subseteq Int

VARIABLES
    now,            \* the time
    ahead,          \* of which the wall clock is ahead by this
    n_set,          \* how often it was set
    queue,          \* st_b25_async_queue
    n_arrived,      \* the chunks that arrived
    thread,         \* "awake", "idle" or "delay": what b25_thread sleeps for
    wake,           \* when it wakes up
    chunk,          \* the chunk it has popped
    last            \* the chunk put last: how old it was, whether the clock was set meanwhile

vars == <<now, ahead, n_set, queue, n_arrived, thread, wake, chunk, last>>

\* A chunk: the arrived_time written into it, and when that was.
B25Chunk == [arrived_time : Int, at : Nat, n_set : Nat]

NoChunk == [arrived_time |-> 0, at |-> 0, n_set |-> 0]

Init ==
    /\ now = 0 /\ ahead = 0 /\ n_set = 0
    /\ queue = << >> /\ n_arrived = 0
    /\ thread = "awake" /\ wake = 0 /\ chunk = NoChunk
    /\ last = [age |-> TsDelay, set |-> FALSE]

\* transfer_ts_cb pushes a chunk with the time of the wall clock.
Arrive ==
    /\ n_arrived < MaxChunks
    /\ n_arrived' = n_arrived + 1
    /\ queue' = Append(queue, [arrived_time |-> now + ahead, at |-> now, n_set |-> n_set])
    /\ UNCHANGED <<now, ahead, n_set, thread, wake, chunk, last>>

\* The wall clock is set.
SetClock ==
    /\ n_set < MaxSet
    /\ \E d \in Setting : ahead' = ahead + d
    /\ n_set' = n_set + 1
    /\ UNCHANGED <<now, queue, n_arrived, thread, wake, chunk, last>>

\* proc_b25: the chunk is put into the decoder.
Put(c) == last' = [age |-> now - c.at, set |-> c.n_set # n_set]

Diff(c) == now + ahead - c.arrived_time

\* Bug: the delay is one short.
YoungerByOne(c) == Diff(c) >= 0 /\ Diff(c) < TsDelay - 1

\* Bug: every chunk is delayed.
Any(c) == TRUE

\* The chunk has not been delayed enough, as far as the clock tells.
TooYoung(c) == Diff(c) >= 0 /\ Diff(c) < TsDelay

\* g_usleep sleeps for all of the delay, whatever has passed of it.
Until(c) == now + TsDelay

\* A chunk is popped: if it is too young the thread sleeps, if not it is
\* put at once.
PopChunk ==
    /\ thread = "awake"
    /\ queue # << >>
    /\ queue' = Tail(queue)
    /\ IF TooYoung(Head(queue))
       THEN /\ thread' = "delay"
            /\ wake' = Until(Head(queue))
            /\ chunk' = Head(queue)
            /\ UNCHANGED last
       ELSE Put(Head(queue)) /\ UNCHANGED <<thread, wake, chunk>>
    /\ UNCHANGED <<now, ahead, n_set, n_arrived>>

\* The chunk the thread has slept for is put.
PutDelayed ==
    /\ thread = "delay" /\ now >= wake
    /\ Put(chunk)
    /\ thread' = "awake"
    /\ chunk' = NoChunk
    /\ UNCHANGED <<now, ahead, n_set, queue, n_arrived, wake>>

\* The queue is empty: the thread sleeps for a millisecond.
Sleep ==
    /\ thread = "awake"
    /\ queue = << >>
    /\ thread' = "idle"
    /\ wake' = now + 1
    /\ UNCHANGED <<now, ahead, n_set, queue, n_arrived, chunk, last>>

WakeUp ==
    /\ thread = "idle" /\ now >= wake
    /\ thread' = "awake"
    /\ UNCHANGED <<now, ahead, n_set, queue, n_arrived, wake, chunk, last>>

\* Time passes while the thread sleeps.
Tick ==
    /\ thread # "awake" /\ now < wake
    /\ now < MaxNow
    /\ now' = now + 1
    /\ UNCHANGED <<ahead, n_set, queue, n_arrived, thread, wake, chunk, last>>

Next == Arrive \/ SetClock \/ PopChunk \/ PutDelayed \/ Sleep \/ WakeUp \/ Tick

Spec == Init /\ [][Next]_vars

-----------------------------------------------------------------------------
(* Properties *)

\* The types of the queue and of b25_thread's variables.
TypeOK ==
    /\ now \in Nat /\ ahead \in Int /\ n_set \in Nat /\ n_arrived \in Nat
    /\ queue \in Seq(B25Chunk)
    /\ thread \in {"awake", "idle", "delay"}
    /\ wake \in Nat
    /\ chunk \in B25Chunk
    /\ last \in [age : Nat, set : BOOLEAN]

\* No chunk is decoded before it is TsDelay old, unless the clock was set
\* while it waited: its keys have had that time to arrive (main.c:215-223).
AgedEnough == last.set \/ last.age >= TsDelay

\* Nor is it held back for twice that time, decoded or not, unless the clock
\* was set: the queue, which nothing bounds, does not fall behind although
\* the thread sleeps for the whole delay again (main.c:219-221, 290).
NotHeldBack ==
    n_set = 0 /\ TsDelay > 0 =>
        /\ last.age < 2 * TsDelay
        /\ \A i \in 1 .. Len(queue) : now - queue[i].at < 2 * TsDelay
=============================================================================
