-------------------------- MODULE TimeShiftProofs ---------------------------
(***************************************************************************)
(* Proofs about the delay of the TS, for every delay, any number of chunks *)
(* and a clock that is set at will.                                        *)
(***************************************************************************)
EXTENDS TimeShift, SequenceTheorems, TLAPS

USE DelayAssumption, SettingAssumption

\* A chunk's arrived_time is when it arrived, by the clock of that time.
Stamped(c) ==
    /\ c.at <= now
    /\ c.n_set <= n_set
    /\ c.n_set = n_set => c.arrived_time = c.at + ahead

\* The queue is in the order of arrival.
Ordered ==
    /\ \A i \in 1 .. Len(queue) : Stamped(queue[i])
    /\ \A i, j \in 1 .. Len(queue) : i < j => queue[i].at <= queue[j].at

\* The thread sleeps until its chunk is old enough.
Delayed ==
    /\ thread # "awake" => now <= wake
    /\ thread = "delay" => Stamped(chunk) /\ chunk.at + TsDelay <= wake

\* When the thread will look at a chunk next.
Next_look == IF thread = "awake" THEN now ELSE wake

\* What waits will not be too old when the thread looks at it, nor when it
\* has slept once more.
InTime ==
    n_set = 0 /\ TsDelay > 0 =>
        /\ thread = "delay" => wake < chunk.at + 2 * TsDelay /\ wake <= now + TsDelay
        /\ thread = "idle" => wake <= now + 1
        /\ \A i \in 1 .. Len(queue) : Next_look < queue[i].at + 2 * TsDelay
        /\ last.age < 2 * TsDelay

IInv == TypeOK /\ Ordered /\ Delayed /\ AgedEnough /\ InTime

-----------------------------------------------------------------------------

\* What is left of a queue when a chunk is popped.
LEMMA Popped ==
    ASSUME NEW S, NEW q \in Seq(S), q # << >>
    PROVE  /\ Head(q) \in S /\ Head(q) = q[1] /\ Tail(q) \in Seq(S)
           /\ Len(q) \in Nat /\ Len(q) > 0 /\ Len(Tail(q)) = Len(q) - 1
           /\ \A i \in 1 .. Len(q) - 1 : Tail(q)[i] = q[i + 1]
<1>1. Len(q) \in Nat \ {0}
  BY EmptySeq
<1>2. Head(q) \in S /\ Tail(q) \in Seq(S) /\ Len(Tail(q)) = Len(q) - 1
  BY HeadTailProperties
<1>3. \A i \in 1 .. Len(q) - 1 : Tail(q)[i] = q[i + 1]
  BY <1>2, HeadTailProperties
<1> QED
  BY <1>1, <1>2, <1>3

\* It is still in order.
LEMMA PoppedOrdered ==
    ASSUME TypeOK, Ordered, queue # << >>
    PROVE  /\ Stamped(Head(queue))
           /\ \A i \in 1 .. Len(Tail(queue)) :
                 Stamped(Tail(queue)[i]) /\ Head(queue).at <= Tail(queue)[i].at
           /\ \A i, j \in 1 .. Len(Tail(queue)) : i < j => Tail(queue)[i].at <= Tail(queue)[j].at
<1>1. /\ Head(queue) = queue[1] /\ Len(queue) \in Nat /\ Len(queue) > 0
      /\ Len(Tail(queue)) = Len(queue) - 1
      /\ \A i \in 1 .. Len(queue) - 1 : Tail(queue)[i] = queue[i + 1]
  BY Popped DEF TypeOK
<1>2. \A i \in 1 .. Len(Tail(queue)) :
          i + 1 \in 1 .. Len(queue) /\ 1 < i + 1 /\ Tail(queue)[i] = queue[i + 1]
  BY <1>1
<1>3. 1 \in 1 .. Len(queue)
  BY <1>1
<1>4. \A i, j \in 1 .. Len(Tail(queue)) : i < j => i + 1 < j + 1
  BY <1>1
<1> QED
  BY <1>1, <1>2, <1>3, <1>4 DEF Ordered

LEMMA Initially == Init => IInv
  BY DEF Init, IInv, TypeOK, Ordered, Delayed, AgedEnough, InTime, NoChunk, B25Chunk,
         Next_look

LEMMA Inductive == IInv /\ [Next]_vars => IInv'
<1> SUFFICES ASSUME IInv, [Next]_vars PROVE IInv'
  OBVIOUS
<1> USE DEF IInv
<1>0. /\ now \in Nat /\ ahead \in Int /\ n_set \in Nat /\ n_arrived \in Nat /\ wake \in Nat
      /\ queue \in Seq(B25Chunk) /\ chunk \in B25Chunk /\ last \in [age : Nat, set : BOOLEAN]
      /\ Len(queue) \in Nat /\ \A i \in 1 .. Len(queue) : queue[i] \in B25Chunk
  BY LenProperties, ElementOfSeq DEF TypeOK
<1>1. CASE Arrive
  <2> DEFINE new == [arrived_time |-> now + ahead, at |-> now, n_set |-> n_set]
  <2>1. /\ new \in B25Chunk /\ new.at = now /\ new.n_set = n_set
        /\ new.arrived_time = now + ahead
    BY <1>0 DEF B25Chunk
  <2>2. queue' = Append(queue, new) /\ UNCHANGED <<now, ahead, n_set, thread, wake, chunk, last>>
        /\ n_arrived' \in Nat
    BY <1>0, <1>1 DEF Arrive
  <2> HIDE DEF new
  <2>3. /\ queue' \in Seq(B25Chunk) /\ Len(queue') = Len(queue) + 1
        /\ \A i \in 1 .. Len(queue) : queue'[i] = queue[i]
        /\ queue'[Len(queue) + 1] = new
    BY <1>0, <2>1, <2>2, AppendProperties
  <2>4. \A i \in 1 .. Len(queue') :
            \/ i \in 1 .. Len(queue) /\ queue'[i] = queue[i]
            \/ i = Len(queue) + 1 /\ queue'[i] = new
    BY <1>0, <2>3
  <2>5. TypeOK'
    BY <1>0, <2>2, <2>3 DEF TypeOK
  <2>6. Ordered'
    <3>1. (\A i \in 1 .. Len(queue) : Stamped(queue[i]))'
      <4>1. \A i \in 1 .. Len(queue) : Stamped(queue[i])
        BY DEF Ordered
      <4>2. Stamped(new)
        BY <1>0, <2>1 DEF Stamped
      <4>3. now' = now /\ ahead' = ahead /\ n_set' = n_set
        BY <2>2
      <4> QED
        BY <2>4, <4>1, <4>2, <4>3 DEF Stamped
    <3>2. ASSUME NEW i \in 1 .. Len(queue'), NEW j \in 1 .. Len(queue'), i < j
          PROVE  queue'[i].at <= queue'[j].at
      <4>1. i \in 1 .. Len(queue) /\ queue'[i] = queue[i] /\ queue[i].at <= now
        BY <1>0, <2>3, <2>4, <3>2 DEF Ordered, Stamped
      <4>2. CASE j \in 1 .. Len(queue)
        BY <2>3, <3>2, <4>1, <4>2 DEF Ordered
      <4>3. CASE j = Len(queue) + 1
        BY <2>1, <2>3, <4>1, <4>3
      <4> QED
        BY <2>4, <4>2, <4>3
    <3> QED
      BY <3>1, <3>2 DEF Ordered
  <2>7. Delayed' /\ AgedEnough'
    BY <2>2 DEF Delayed, AgedEnough, Stamped
  <2>8. InTime'
    <3>1. ASSUME n_set = 0, TsDelay > 0 PROVE Next_look < now + 2 * TsDelay
      BY <1>0, <3>1 DEF InTime, Next_look, TypeOK
    <3> QED
      BY <1>0, <2>1, <2>2, <2>4, <3>1 DEF InTime, Next_look
  <2> QED
    BY <2>5, <2>6, <2>7, <2>8
<1>2. CASE SetClock
  <2>1. /\ UNCHANGED <<now, queue, n_arrived, thread, wake, chunk, last>>
        /\ n_set' = n_set + 1 /\ ahead' \in Int
    BY <1>0, <1>2 DEF SetClock
  <2>2. TypeOK'
    BY <1>0, <2>1 DEF TypeOK
  <2>3. \A c \in B25Chunk : Stamped(c) => Stamped(c)'
    BY <1>0, <2>1 DEF Stamped, B25Chunk
  <2>4. Ordered' /\ Delayed'
    BY <1>0, <2>1, <2>3 DEF Ordered, Delayed, Stamped, B25Chunk
  <2>5. AgedEnough' /\ InTime'
    BY <1>0, <2>1 DEF AgedEnough, InTime
  <2> QED
    BY <2>2, <2>4, <2>5
<1>3. CASE PopChunk
  <2> DEFINE c == Head(queue)
  <2>1. /\ queue # << >> /\ thread = "awake" /\ queue' = Tail(queue)
        /\ UNCHANGED <<now, ahead, n_set, n_arrived>>
    BY <1>3 DEF PopChunk
  <2>2. /\ c \in B25Chunk /\ c = queue[1] /\ queue' \in Seq(B25Chunk) /\ 1 \in 1 .. Len(queue)
        /\ Len(queue') = Len(queue) - 1
        /\ \A i \in 1 .. Len(queue') : i + 1 \in 1 .. Len(queue) /\ queue'[i] = queue[i + 1]
    BY <1>0, <2>1, Popped
  <2>3. /\ Stamped(c)
        /\ \A i \in 1 .. Len(queue') : Stamped(queue'[i]) /\ c.at <= queue'[i].at
        /\ \A i, j \in 1 .. Len(queue') : i < j => queue'[i].at <= queue'[j].at
    BY <2>1, PoppedOrdered
  <2>4. /\ c.at \in Nat /\ c.n_set \in Nat /\ c.arrived_time \in Int
        /\ \A i \in 1 .. Len(queue') : queue'[i].at \in Nat
    BY <1>0, <2>2 DEF B25Chunk
  <2>5. IF TooYoung(c)
        THEN thread' = "delay" /\ wake' = now + TsDelay /\ chunk' = c /\ UNCHANGED last
        ELSE /\ last' = [age |-> now - c.at, set |-> c.n_set # n_set]
             /\ UNCHANGED <<thread, wake, chunk>>
    BY <1>3 DEF PopChunk, Put, Until
  <2> HIDE DEF c
  <2>6. Ordered'
    BY <2>1, <2>3 DEF Ordered, Stamped
  <2>7. c.at <= now /\ now - c.at \in Nat /\ (c.n_set = n_set => Diff(c) = now - c.at)
    BY <1>0, <2>3, <2>4 DEF Stamped, Diff
  <2>8. \A i \in 1 .. Len(queue') : n_set = 0 /\ TsDelay > 0 => now < queue'[i].at + 2 * TsDelay
    BY <2>1, <2>2 DEF InTime, Next_look
  <2>9. CASE TooYoung(c)
    <3>1. thread' = "delay" /\ wake' = now + TsDelay /\ chunk' = c /\ last' = last
      BY <2>5, <2>9
    <3>2. TypeOK'
      BY <1>0, <2>1, <2>2, <3>1 DEF TypeOK
    <3>3. Delayed' /\ AgedEnough'
      BY <1>0, <2>1, <2>3, <2>4, <2>7, <3>1 DEF Delayed, AgedEnough, Stamped
    <3>4. ASSUME n_set = 0, TsDelay > 0 PROVE now - c.at < TsDelay
      <4>1. c.n_set = n_set
        BY <2>3, <2>4, <3>4 DEF Stamped
      <4> QED
        BY <2>7, <2>9, <4>1 DEF TooYoung
    <3>5. InTime'
      <4>1. CASE n_set = 0 /\ TsDelay > 0
        <5>1. now + TsDelay < c.at + 2 * TsDelay
          BY <1>0, <2>4, <3>4, <4>1
        <5>2. \A i \in 1 .. Len(queue') : now + TsDelay < queue'[i].at + 2 * TsDelay
          BY <1>0, <2>3, <2>4, <5>1
        <5>3. last.age < 2 * TsDelay
          BY <4>1 DEF InTime
        <5> QED
          BY <1>0, <2>1, <3>1, <5>1, <5>2, <5>3 DEF InTime, Next_look
      <4>2. CASE ~(n_set = 0 /\ TsDelay > 0)
        BY <2>1, <4>2 DEF InTime
      <4> QED
        BY <4>1, <4>2
    <3> QED
      BY <2>6, <3>2, <3>3, <3>5
  <2>10. CASE ~TooYoung(c)
    <3>1. /\ last' = [age |-> now - c.at, set |-> c.n_set # n_set]
          /\ thread' = thread /\ wake' = wake /\ chunk' = chunk
      BY <2>5, <2>10
    <3>2. last'.age = now - c.at /\ last'.set = (c.n_set # n_set) /\ last' \in [age : Nat, set : BOOLEAN]
      BY <2>7, <3>1
    <3>3. TypeOK'
      BY <1>0, <2>1, <2>2, <3>1, <3>2 DEF TypeOK
    <3>4. Delayed'
      BY <2>1, <3>1 DEF Delayed
    <3>5. AgedEnough'
      BY <2>7, <2>10, <3>2 DEF AgedEnough, TooYoung
    <3>6. InTime'
      <4>1. n_set = 0 /\ TsDelay > 0 => now < c.at + 2 * TsDelay
        BY <2>1, <2>2 DEF InTime, Next_look
      <4> QED
        BY <1>0, <2>1, <2>4, <2>8, <3>1, <3>2, <4>1 DEF InTime, Next_look
    <3> QED
      BY <2>6, <3>3, <3>4, <3>5, <3>6
  <2> QED
    BY <2>9, <2>10
<1>4. CASE PutDelayed
  <2>1. /\ thread = "delay" /\ now >= wake /\ thread' = "awake" /\ chunk' = NoChunk
        /\ last' = [age |-> now - chunk.at, set |-> chunk.n_set # n_set]
        /\ UNCHANGED <<now, ahead, n_set, queue, n_arrived, wake>>
    BY <1>4 DEF PutDelayed, Put
  <2>2. chunk.at \in Nat /\ chunk.at + TsDelay <= wake /\ wake = now /\ NoChunk \in B25Chunk
    BY <1>0, <2>1 DEF B25Chunk, NoChunk, Delayed
  <2>3. last'.age = now - chunk.at /\ last' \in [age : Nat, set : BOOLEAN]
    BY <1>0, <2>1, <2>2
  <2>4. TypeOK'
    BY <1>0, <2>1, <2>2, <2>3 DEF TypeOK
  <2>5. Ordered' /\ Delayed' /\ AgedEnough'
    BY <1>0, <2>1, <2>2, <2>3 DEF Ordered, Delayed, AgedEnough, Stamped
  <2>6. InTime'
    BY <1>0, <2>1, <2>2, <2>3 DEF InTime, Next_look
  <2> QED
    BY <2>4, <2>5, <2>6
<1>5. CASE Sleep
  <2>1. /\ thread = "awake" /\ queue = << >> /\ thread' = "idle" /\ wake' = now + 1
        /\ UNCHANGED <<now, ahead, n_set, queue, n_arrived, chunk, last>>
    BY <1>5 DEF Sleep
  <2>2. TypeOK'
    BY <1>0, <2>1 DEF TypeOK
  <2>3. Ordered' /\ Delayed' /\ AgedEnough'
    BY <1>0, <2>1 DEF Ordered, Delayed, AgedEnough, Stamped
  <2>4. InTime'
    BY <1>0, <2>1 DEF InTime
  <2> QED
    BY <2>2, <2>3, <2>4
<1>6. CASE WakeUp
  <2>1. /\ thread = "idle" /\ now >= wake /\ thread' = "awake"
        /\ UNCHANGED <<now, ahead, n_set, queue, n_arrived, wake, chunk, last>>
    BY <1>6 DEF WakeUp
  <2>2. TypeOK' /\ Ordered' /\ Delayed' /\ AgedEnough'
    BY <1>0, <2>1 DEF TypeOK, Ordered, Delayed, AgedEnough, Stamped
  <2>3. InTime'
    BY <1>0, <2>1 DEF InTime, Next_look, Delayed
  <2> QED
    BY <2>2, <2>3
<1>7. CASE Tick
  <2>1. /\ thread # "awake" /\ now < wake /\ now' = now + 1
        /\ UNCHANGED <<ahead, n_set, queue, n_arrived, thread, wake, chunk, last>>
    BY <1>7 DEF Tick
  <2>2. TypeOK' /\ AgedEnough'
    BY <1>0, <2>1 DEF TypeOK, AgedEnough
  <2>3. \A c \in B25Chunk : Stamped(c) => Stamped(c)'
    BY <1>0, <2>1 DEF Stamped, B25Chunk
  <2>4. Ordered'
    BY <1>0, <2>1, <2>3 DEF Ordered
  <2>5. Delayed'
    BY <1>0, <2>1, <2>3 DEF Delayed
  <2>6. InTime'
    BY <1>0, <2>1 DEF InTime, Next_look
  <2> QED
    BY <2>2, <2>4, <2>5, <2>6
<1>8. CASE UNCHANGED vars
  BY <1>8 DEF vars, TypeOK, Ordered, Delayed, AgedEnough, InTime, Stamped, Next_look
<1> QED
  BY <1>1, <1>2, <1>3, <1>4, <1>5, <1>6, <1>7, <1>8 DEF Next

THEOREM Invariance == Spec => []IInv
  BY Initially, Inductive, PTL DEF Spec

\* The types of the queue and of the thread's variables, however the clock is set.
THEOREM TypeCorrect == Spec => []TypeOK
<1>1. IInv => TypeOK
  BY DEF IInv
<1> QED
  BY <1>1, Invariance, PTL

\* No chunk is decoded before it is TsDelay old, for every delay and however
\* the clock is set, unless it is set while the chunk waits.
THEOREM AlwaysAgedEnough == Spec => []AgedEnough
<1>1. IInv => AgedEnough
  BY DEF IInv
<1> QED
  BY <1>1, Invariance, PTL

\* No chunk waits for twice the delay, for every delay of a millisecond or
\* more, and however many chunks arrive.
THEOREM NeverHeldBack == Spec => []NotHeldBack
<1>1. ASSUME IInv PROVE NotHeldBack
  <2>1. /\ now \in Nat /\ wake \in Nat /\ Len(queue) \in Nat
        /\ \A i \in 1 .. Len(queue) : queue[i] \in B25Chunk
    BY <1>1, LenProperties, ElementOfSeq DEF IInv, TypeOK
  <2>2. now <= Next_look
    BY <1>1, <2>1 DEF IInv, Delayed, Next_look
  <2> QED
    BY <1>1, <2>1, <2>2 DEF IInv, InTime, NotHeldBack, Next_look, B25Chunk
<1> QED
  BY <1>1, Invariance, PTL
=============================================================================
