--------------------------- MODULE SnifferProofs ----------------------------
(***************************************************************************)
(* Proofs about the life of a capture, for every length of TS, size and    *)
(* number of buffers: nothing is lost on the way to the decoder, what is   *)
(* used is alive, and run implements TsPipe.                               *)
(***************************************************************************)
EXTENDS Sniffer, SequenceTheorems, TLAPS

\* Where the main thread is tells what there is: decoder, thread and queue.
SetUp ==
    /\ main \in {"open", "init_b25"} => st_b25 = "none" /\ thread = "none"
    /\ main \in {"open", "init_b25", "new_queue"} => ~queue_set
    /\ main \in {"new_queue"} => thread # "none"
    /\ main = "new_queue" => option.b25
    /\ main = "device" => (option.b25 <=> queue_set)
    /\ main \in {"open", "init_b25", "new_queue", "device"} =>
          ~st_is_intterupted /\ device = "closed"
    /\ device = "started" =>
          main \in {"keys", "loop", "quit"} /\ (option.b25 <=> queue_set)
    /\ main \in {"keys", "loop"} => (option.b25 <=> queue_set)
    /\ thread # "none" <=> queue_set \/ main = "new_queue"
    /\ thread # "none" => st_b25 # "none"
    /\ st_b25 = "released" => main = "exited"

\* The thread drains the queue after it is told to end, when nothing is
\* pushed any more, and is done before the decoder is flushed.
TakenDown ==
    /\ running <=> main \notin {"join", "flush", "exited"} \/ thread = "none"
    /\ thread \in {"drain", "drain_put", "done"} => ~running
    /\ main \in {"flush", "exited"} => thread \in {"none", "done"}
    /\ thread \in {"none", "done"} => queue = << >>
    /\ ~queue_set => queue = << >>
    /\ thread \in {"put", "drain_put"} <=> chunk # << >>

\* The thread's reference comes and goes; the first one stays until it ends.
References ==
    /\ ~queue_set => refs = 0
    /\ queue_set /\ thread = "created" => refs = 1
    /\ queue_set /\ thread # "done" => refs > 0

\* Callbacks since the signal are counted, and the first key's position.
Counted ==
    /\ ~st_is_intterupted => late = 0
    /\ first_key <= Len(ts_out)

IInv ==
    /\ TypeOK
    /\ SetUp
    /\ TakenDown
    /\ References
    /\ Counted
    /\ NothingLost
    /\ DecodesFromFirstKey
    /\ EachOnceAfterSignal

USE SizesAssumption

-----------------------------------------------------------------------------

LEMMA FewerFits ==
    ASSUME NEW a \in Nat, NEW b \in Nat, NEW c \in Nat, NEW d \in Nat, a + b <= d, c <= b
    PROVE  a + c <= d
  OBVIOUS

\* A stretch of at most BufSize bytes is a chunk, and not empty.
LEMMA IsChunk ==
    ASSUME NEW n \in 1 .. BufSize, NEW c \in [1 .. n -> 0 .. TsLen]
    PROVE  c \in Chunk
  BY DEF Chunk

LEMMA NotEmpty == << >> \notin Chunk
<1> SUFFICES ASSUME << >> \in Chunk PROVE FALSE
  OBVIOUS
<1>1. PICK n \in 1 .. BufSize : << >> \in [1 .. n -> 0 .. TsLen]
  BY DEF Chunk
<1>2. DOMAIN << >> = 1 .. n
  BY <1>1
<1>3. 1 \in DOMAIN << >>
  BY <1>2
<1> QED
  BY <1>3

\* A chunk may be pushed, popped and put into the decoder without the
\* whole of what is decoded, in hand and queued losing its order.
LEMMA Regroup ==
    ASSUME NEW S, NEW p \in Seq(S), NEW h \in Seq(S), NEW q \in Seq(S), NEW e \in S
    PROVE  /\ p \o h \o Append(q, e) = Append(p \o h \o q, e)
           /\ q # << >> => p \o << >> \o q = p \o <<Head(q)>> \o Tail(q)
           /\ p \o <<e>> \o q = Append(p, e) \o << >> \o q
<1> DEFINE one == <<e>>
<1>1. one \in Seq(S) /\ << >> \in Seq(S)
  OBVIOUS
<1>2. p \o h \in Seq(S) /\ p \o h \o q \in Seq(S) /\ p \o << >> = p
  BY <1>1, ConcatProperties, ConcatEmptySeq
<1>3. p \o h \o Append(q, e) = Append(p \o h \o q, e)
  <2>1. Append(q, e) = q \o one /\ Append(p \o h \o q, e) = (p \o h \o q) \o one
    BY <1>2, AppendIsConcat
  <2> HIDE DEF one
  <2>2. (p \o h) \o (q \o one) = ((p \o h) \o q) \o one
    <3> DEFINE ph == p \o h
    <3>1. ph \in Seq(S) /\ one \in Seq(S)
      BY <1>1, <1>2
    <3> HIDE DEF ph
    <3>2. ph \o (q \o one) = (ph \o q) \o one
      BY <3>1, ConcatAssociative, SMTT(60)
    <3> QED
      BY <3>2 DEF ph
  <2> QED
    BY <2>1, <2>2
<1>4. ASSUME q # << >>
      PROVE  p \o << >> \o q = p \o <<Head(q)>> \o Tail(q)
  <2> DEFINE first == <<Head(q)>>
  <2>1. Head(q) \in S /\ Tail(q) \in Seq(S) /\ first \in Seq(S)
    BY <1>4, HeadTailProperties
  <2>2. q = first \o Tail(q)
    <3>1. Len(q) \in Nat \ {0} /\ Len(Tail(q)) = Len(q) - 1
      BY <1>4, EmptySeq, HeadTailProperties
    <3>2. first \o Tail(q) \in Seq(S) /\ Len(first \o Tail(q)) = Len(q)
      BY <2>1, <3>1, ConcatProperties
    <3>3. ASSUME NEW i \in 1 .. Len(q) PROVE q[i] = (first \o Tail(q))[i]
      <4>1. (first \o Tail(q))[i] = IF i <= 1 THEN first[i] ELSE Tail(q)[i - 1]
        BY <2>1, <3>1, ConcatProperties
      <4>2. i > 1 => Tail(q)[i - 1] = q[i]
        BY <1>4, <3>1, HeadTailProperties
      <4>3. Head(q) = q[1]
        BY <1>4
      <4> QED
        BY <4>1, <4>2, <4>3
    <3> QED
      BY <3>2, <3>3, SeqEqual
  <2> HIDE DEF first
  <2>3. (p \o first) \o Tail(q) = p \o (first \o Tail(q))
    BY <2>1, ConcatAssociative, SMTT(60)
  <2> QED
    BY <1>2, <2>2, <2>3 DEF first
<1>5. p \o <<e>> \o q = Append(p, e) \o << >> \o q
  <2>1. Append(p, e) \in Seq(S) /\ Append(p, e) = p \o <<e>>
    BY AppendIsConcat, AppendProperties
  <2>2. Append(p, e) \o << >> = Append(p, e)
    BY <2>1, ConcatEmptySeq
  <2> QED
    BY <2>1, <2>2
<1> QED
  BY <1>3, <1>4, <1>5

\* What is passed on stays a tail of what the callback was given.
LEMMA TailGrows ==
    ASSUME NEW S, NEW s \in Seq(S), NEW e \in S, NEW k \in 0 .. Len(s)
    PROVE  SubSeq(Append(s, e), k + 1, Len(Append(s, e))) = Append(SubSeq(s, k + 1, Len(s)), e)
<1> DEFINE t == Append(s, e)
           a == SubSeq(s, k + 1, Len(s))
           b == SubSeq(t, k + 1, Len(t))
<1>1. /\ t \in Seq(S) /\ Len(t) = Len(s) + 1 /\ t[Len(s) + 1] = e
      /\ \A i \in 1 .. Len(s) : t[i] = s[i]
  BY AppendProperties
<1>2. Len(s) \in Nat /\ \A i \in 1 .. Len(s) : s[i] \in S
  BY LenProperties, ElementOfSeq
<1>3. a \in Seq(S) /\ Len(a) = Len(s) - k /\ \A i \in 1 .. Len(s) - k : a[i] = s[k + i]
  BY <1>2, SubSeqProperties
<1>4. b \in Seq(S) /\ Len(b) = Len(s) - k + 1 /\ \A i \in 1 .. Len(s) - k + 1 : b[i] = t[k + i]
  <2>1. \A i \in k + 1 .. Len(t) : t[i] \in S
    BY <1>1, <1>2, ElementOfSeq
  <2> HIDE DEF t
  <2> QED
    BY <1>1, <1>2, <2>1, SubSeqProperties
<1> HIDE DEF a, b, t
<1>5. /\ Append(a, e) \in Seq(S) /\ Len(Append(a, e)) = Len(s) - k + 1
      /\ \A i \in 1 .. Len(s) - k : Append(a, e)[i] = a[i]
      /\ Append(a, e)[Len(s) - k + 1] = e
  BY <1>3, AppendProperties
<1>6. ASSUME NEW i \in 1 .. Len(b) PROVE b[i] = Append(a, e)[i]
  <2>1. CASE i <= Len(s) - k
    BY <1>1, <1>2, <1>3, <1>4, <1>5, <2>1
  <2>2. CASE i = Len(s) - k + 1
    BY <1>1, <1>2, <1>4, <1>5, <2>2
  <2> QED
    <3>1. i \in 1 .. Len(s) - k + 1
      BY <1>4
    <3>2. i <= Len(s) - k \/ i = Len(s) - k + 1
      BY <1>2, <3>1
    <3> QED
      BY <2>1, <2>2, <3>2
<1>7. b = Append(a, e)
  BY <1>4, <1>5, <1>6, SeqEqual
<1> QED
  BY <1>7 DEF a, b, t

\* What transfer_ts_cb does loses nothing, and keeps what is decoded the TS
\* from the first key on.
LEMMA CallbackKeeps ==
    ASSUME NEW data \in Chunk, TypeOK, Counted, NothingLost, DecodesFromFirstKey,
           TransferTsCb(data), UNCHANGED <<option, n_ecm_arrived, first_key, put, chunk>>
    PROVE  /\ ts_out' \in Seq(Chunk) /\ queue' \in Seq(Chunk) /\ pushed' \in Seq(Chunk)
           /\ NothingLost' /\ DecodesFromFirstKey'
           /\ first_key' <= Len(ts_out')
<1>1. /\ ts_out \in Seq(Chunk) /\ queue \in Seq(Chunk) /\ pushed \in Seq(Chunk)
      /\ put \in Seq(Chunk) /\ first_key \in 0 .. Len(ts_out)
  BY LenProperties DEF TypeOK, Counted
<1>2. /\ ts_out' \in Seq(Chunk) /\ queue' \in Seq(Chunk) /\ pushed' \in Seq(Chunk)
      /\ first_key' <= Len(ts_out')
  <2>1. /\ ts_out' = Append(ts_out, data) /\ queue' \in {queue, Append(queue, data)}
        /\ pushed' \in {pushed, Append(pushed, data)} /\ first_key' = first_key
    BY DEF TransferTsCb
  <2>2. Len(ts_out') = Len(ts_out) + 1 /\ Len(ts_out) \in Nat
    BY <1>1, <2>1, AppendProperties, LenProperties
  <2>3. /\ Append(ts_out, data) \in Seq(Chunk) /\ Append(queue, data) \in Seq(Chunk)
        /\ Append(pushed, data) \in Seq(Chunk)
    BY <1>1, AppendProperties
  <2>4. first_key' <= Len(ts_out')
    BY <1>1, <2>1, <2>2
  <2> QED
    BY <1>1, <2>1, <2>3, <2>4
<1>3. NothingLost'
  <2> DEFINE h == IF chunk = << >> THEN << >> ELSE <<chunk>>
  <2>1. h \in Seq(Chunk) /\ h' = h
    BY DEF TypeOK
  <2>2. put \o h \o Append(queue, data) = Append(put \o h \o queue, data)
    <3> HIDE DEF h
    <3> QED
      BY <1>1, <2>1, Regroup
  <2>3. pushed = put \o h \o queue
    BY DEF NothingLost
  <2> HIDE DEF h
  <2>4. pushed' = put' \o h' \o queue'
    BY <2>1, <2>2, <2>3 DEF TransferTsCb
  <2> QED
    BY <2>4 DEF NothingLost, h
<1>4. DecodesFromFirstKey'
  <2>1. SubSeq(Append(ts_out, data), first_key + 1, Len(Append(ts_out, data)))
            = Append(SubSeq(ts_out, first_key + 1, Len(ts_out)), data)
    BY <1>1, TailGrows
  <2>2. n_ecm_arrived \in Nat
    BY DEF TypeOK
  <2> QED
    <3>1. /\ ts_out' = Append(ts_out, data)
          /\ pushed' = IF HasKey THEN Append(pushed, data) ELSE pushed
          /\ UNCHANGED <<option, n_ecm_arrived, first_key>>
      BY DEF TransferTsCb
    <3>2. CASE option.bcas # "fx2"
      BY <3>1, <3>2 DEF DecodesFromFirstKey, HasKey
    <3>3. CASE option.bcas = "fx2" /\ n_ecm_arrived = 0
      BY <3>1, <3>3 DEF DecodesFromFirstKey, HasKey
    <3>4. CASE option.bcas = "fx2" /\ n_ecm_arrived # 0
      <4>1. CASE option.b25
        <5>1. pushed = SubSeq(ts_out, first_key + 1, Len(ts_out)) /\ HasKey
          BY <2>2, <3>4, <4>1 DEF DecodesFromFirstKey, HasKey
        <5>2. pushed' = SubSeq(ts_out', first_key' + 1, Len(ts_out'))
          BY <2>1, <3>1, <5>1
        <5> QED
          BY <3>1, <3>4, <5>2 DEF DecodesFromFirstKey
      <4>2. CASE ~option.b25
        BY <3>1, <4>2 DEF DecodesFromFirstKey
      <4> QED
        BY <4>1, <4>2
    <3> QED
      BY <3>2, <3>3, <3>4
<1> QED
  BY <1>2, <1>3, <1>4

LEMMA Initially == Init => IInv
<1> SUFFICES ASSUME Init PROVE IInv
  OBVIOUS
<1>1. TypeOK
  <2>1. /\ option \in Options /\ main = "open" /\ device = "closed" /\ st_b25 = "none"
        /\ thread = "none" /\ st_is_intterupted \in BOOLEAN /\ queue_set \in BOOLEAN
        /\ running \in BOOLEAN
    BY DEF Init
  <2>2. /\ flying \in 0 .. BufferCount /\ given \in 0 .. TsLen /\ first_key \in Nat
        /\ n_ecm_arrived \in 0 .. MaxEcm /\ late \in Nat
        /\ refs \in 0 .. 2
    BY DEF Init
  <2>3. /\ ts_out \in Seq(Chunk) /\ queue \in Seq(Chunk) /\ chunk \in Chunk \cup {<< >>}
        /\ pushed \in Seq(Chunk) /\ put \in Seq(Chunk)
    BY DEF Init
  <2> QED
    BY <2>1, <2>2, <2>3 DEF TypeOK
<1>2. SetUp /\ TakenDown /\ References /\ EachOnceAfterSignal
  BY NotEmpty DEF Init, SetUp, TakenDown, References, EachOnceAfterSignal
<1>3. Counted
  BY DEF Init, Counted
<1>4. NothingLost /\ DecodesFromFirstKey
  BY DEF Init, NothingLost, DecodesFromFirstKey
<1> QED
  BY <1>1, <1>2, <1>3, <1>4 DEF IInv

\* Every step preserves the invariant.
LEMMA Inductive == IInv /\ [Next]_vars => IInv'
<1> SUFFICES ASSUME IInv, [Next]_vars PROVE IInv'
  OBVIOUS
<1> USE DEF IInv, TypeOK, SetUp, TakenDown, References, Counted, EachOnceAfterSignal,
            vars, input, usb, async, worker, ends
<1>1. CASE OpenFiles
  BY <1>1 DEF OpenFiles, NothingLost, DecodesFromFirstKey
<1>2. CASE InitB25Fails
  BY <1>2 DEF InitB25Fails, NothingLost, DecodesFromFirstKey
<1>3. CASE CreateThread
  BY <1>3 DEF CreateThread, NothingLost, DecodesFromFirstKey
<1>4. CASE NewQueue
  <2>6. TypeOK'
    BY <1>4 DEF NewQueue
  <2>7. SetUp' /\ TakenDown'
    BY <1>4 DEF NewQueue
  <2>8. References' /\ Counted' /\ EachOnceAfterSignal'
    BY <1>4 DEF NewQueue
  <2>9. NothingLost' /\ DecodesFromFirstKey'
    BY <1>4 DEF NewQueue, NothingLost, DecodesFromFirstKey
  <2> QED
    BY <2>6, <2>7, <2>8, <2>9
<1>5. CASE SkipB25
  BY <1>5 DEF SkipB25, NothingLost, DecodesFromFirstKey
<1>6. CASE Start
  <2>6. TypeOK'
    BY <1>6 DEF Start
  <2>7. SetUp' /\ TakenDown'
    BY <1>6 DEF Start
  <2>8. References' /\ Counted' /\ EachOnceAfterSignal'
    BY <1>6 DEF Start
  <2>9. NothingLost' /\ DecodesFromFirstKey'
    BY <1>6 DEF Start, NothingLost, DecodesFromFirstKey
  <2> QED
    BY <2>6, <2>7, <2>8, <2>9
<1>7. CASE ReadKeys
  BY <1>7 DEF ReadKeys, NothingLost, DecodesFromFirstKey, Options
<1>8. CASE ReadTs
  <2> DEFINE data == [i \in 1 .. BufSize |-> IF given + i <= TsLen THEN given + i ELSE Stale]
  <2>0. data \in [1 .. BufSize -> 0 .. TsLen] /\ BufSize \in 1 .. BufSize
    BY DEF Stale
  <2>1. data \in Chunk /\ TransferTsCb(data)
    <3>1. TransferTsCb(data)
      BY <1>8 DEF ReadTs
    <3> HIDE DEF data
    <3> QED
      BY <2>0, <3>1, IsChunk
  <2>2. UNCHANGED <<option, n_ecm_arrived, first_key, put, chunk>>
    BY <1>8 DEF ReadTs
  <2> HIDE DEF data
  <2>3. /\ ts_out' \in Seq(Chunk) /\ queue' \in Seq(Chunk) /\ pushed' \in Seq(Chunk)
        /\ NothingLost' /\ DecodesFromFirstKey' /\ first_key' <= Len(ts_out')
    BY <2>1, <2>2, CallbackKeeps
  <2>4. late' \in Nat /\ (~option.b25 => UNCHANGED queue)
        /\ (st_is_intterupted \/ late' = late)
    BY <2>1 DEF TransferTsCb, HasKey
  <2>6. TypeOK'
    BY <1>8, <2>3, <2>4 DEF ReadTs, ReadUpTo
  <2>7. SetUp' /\ TakenDown'
    BY <1>8, <2>3, <2>4 DEF ReadTs, ReadUpTo
  <2>8. References' /\ Counted' /\ EachOnceAfterSignal'
    BY <1>8, <2>3, <2>4 DEF ReadTs, ReadUpTo
  <2>9. NothingLost' /\ DecodesFromFirstKey'
    BY <2>3
  <2> QED
    BY <2>6, <2>7, <2>8, <2>9
<1>9. CASE LeaveLoop
  BY <1>9 DEF LeaveLoop, NothingLost, DecodesFromFirstKey
<1>10. CASE StopDevice
  <2>6. TypeOK'
    BY <1>10 DEF StopDevice
  <2>7. SetUp' /\ TakenDown'
    BY <1>10 DEF StopDevice
  <2>8. References' /\ Counted' /\ EachOnceAfterSignal'
    BY <1>10 DEF StopDevice
  <2>9. NothingLost' /\ DecodesFromFirstKey'
    BY <1>10 DEF StopDevice, NothingLost, DecodesFromFirstKey
  <2> QED
    BY <2>6, <2>7, <2>8, <2>9
<1>11. CASE StopThread
  BY <1>11 DEF StopThread, StopRunning, NothingLost, DecodesFromFirstKey
<1>12. CASE Join
  BY <1>12 DEF Join, Joined, NothingLost, DecodesFromFirstKey
<1>13. CASE FlushAndRelease
  BY <1>13 DEF FlushAndRelease, NothingLost, DecodesFromFirstKey
<1>14. CASE ThreadStarts
  BY <1>14 DEF ThreadStarts, NothingLost, DecodesFromFirstKey
<1>15. CASE ThreadTests
  BY <1>15 DEF ThreadTests, NothingLost, DecodesFromFirstKey
<1>16. CASE ThreadPops
  <2>1. Head(queue) \in Chunk /\ Tail(queue) \in Seq(Chunk) /\ Head(queue) # << >>
    BY <1>16, HeadTailProperties, NotEmpty DEF ThreadPops
  <2>2. NothingLost'
    <3>1. pushed = put \o << >> \o queue /\ queue # << >>
      BY <1>16 DEF ThreadPops, NothingLost
    <3>2. put \o << >> \o queue = put \o <<Head(queue)>> \o Tail(queue)
      BY <2>1, <3>1, EmptySeq, Regroup
    <3>3. pushed' = pushed /\ put' = put /\ chunk' = Head(queue) /\ queue' = Tail(queue)
      BY <1>16 DEF ThreadPops, Pop
    <3> QED
      BY <2>1, <3>1, <3>2, <3>3 DEF NothingLost
  <2> QED
    BY <1>16, <2>1, <2>2 DEF ThreadPops, Pop, DecodesFromFirstKey
<1>17. CASE ThreadPuts
  <2>1. chunk \in Chunk /\ chunk # << >>
    BY <1>17, NotEmpty DEF ThreadPuts
  <2>2. NothingLost'
    BY <1>17, <2>1, Regroup DEF ThreadPuts, NothingLost
  <2> QED
    BY <1>17, <2>1, <2>2, AppendProperties DEF ThreadPuts, DecodesFromFirstKey
<1>18. CASE ThreadSleeps
  BY <1>18 DEF ThreadSleeps, NothingLost, DecodesFromFirstKey
<1>19. CASE ThreadEnds
  BY <1>19 DEF ThreadEnds, Drained, NothingLost, DecodesFromFirstKey
<1>20. CASE Signal
  <2>6. TypeOK'
    BY <1>20 DEF Signal
  <2>7. SetUp' /\ TakenDown'
    BY <1>20 DEF Signal
  <2>8. References' /\ Counted' /\ EachOnceAfterSignal'
    BY <1>20 DEF Signal
  <2>9. NothingLost' /\ DecodesFromFirstKey'
    BY <1>20 DEF Signal, NothingLost, DecodesFromFirstKey
  <2> QED
    BY <2>6, <2>7, <2>8, <2>9
<1>21. ASSUME NEW n \in 1 .. BufSize, TsComplete(n) PROVE IInv'
  <2> DEFINE data == [i \in 1 .. n |-> given + i]
  <2>0. data \in [1 .. n -> 0 .. TsLen]
    BY <1>21 DEF TsComplete
  <2>1. data \in Chunk /\ TransferTsCb(data)
    <3>1. TransferTsCb(data)
      BY <1>21 DEF TsComplete
    <3> HIDE DEF data
    <3> QED
      BY <2>0, <3>1, IsChunk
  <2>2. UNCHANGED <<option, n_ecm_arrived, first_key, put, chunk>>
    BY <1>21 DEF TsComplete
  <2> HIDE DEF data
  <2>3. /\ ts_out' \in Seq(Chunk) /\ queue' \in Seq(Chunk) /\ pushed' \in Seq(Chunk)
        /\ NothingLost' /\ DecodesFromFirstKey' /\ first_key' <= Len(ts_out')
    BY <2>1, <2>2, CallbackKeeps
  <2>4. /\ ~option.b25 => UNCHANGED queue
        /\ late' = IF st_is_intterupted THEN late + 1 ELSE late
    BY <2>1 DEF TransferTsCb, HasKey
  <2>5. /\ given' \in 0 .. TsLen /\ device = "started" /\ main \in {"loop", "quit"}
        /\ flying' \in 0 .. BufferCount /\ flying' <= flying
        /\ st_is_intterupted => flying' = flying - 1
    BY <1>21 DEF TsComplete, CallbacksRun, Resubmit
  <2>6. TypeOK'
    BY <1>21, <2>3, <2>4, <2>5 DEF TsComplete
  <2>7. SetUp' /\ TakenDown'
    BY <1>21, <2>3, <2>4, <2>5 DEF TsComplete
  <2>8. References' /\ Counted' /\ EachOnceAfterSignal'
    <3>1. /\ late \in Nat /\ flying \in Nat /\ flying' \in Nat /\ BufferCount \in Nat
          /\ UNCHANGED <<option, st_is_intterupted, queue_set, refs, thread>>
      BY <1>21, <2>5 DEF TsComplete
    <3>2. EachOnceAfterSignal'
      <4>1. CASE st_is_intterupted
        <5>1. late' + flying' = late + flying
          BY <2>4, <2>5, <3>1, <4>1
        <5> QED
          BY <3>1, <5>1
      <4>2. CASE ~st_is_intterupted
        BY <3>1, <4>2
      <4> QED
        BY <4>1, <4>2
    <3>3. References' /\ Counted'
      BY <2>3, <2>4, <3>1
    <3> QED
      BY <3>2, <3>3
  <2>9. NothingLost' /\ DecodesFromFirstKey'
    BY <2>3
  <2> QED
    BY <2>6, <2>7, <2>8, <2>9
<1>22. ASSUME NEW n \in 1 .. BufSize, TsLost(n) PROVE IInv'
  <2>1. /\ given' \in 0 .. TsLen /\ flying' \in 0 .. BufferCount /\ flying' <= flying
    BY <1>22 DEF TsLost, CallbacksRun
  <2>6. TypeOK'
    BY <1>22, <2>1 DEF TsLost
  <2>7. SetUp' /\ TakenDown'
    BY <1>22, <2>1 DEF TsLost
  <2>8. References' /\ Counted' /\ EachOnceAfterSignal'
    <3>1. /\ late \in Nat /\ flying \in Nat /\ flying' \in Nat /\ BufferCount \in Nat
          /\ UNCHANGED <<option, st_is_intterupted, late, first_key, ts_out, queue_set, refs,
                         thread>>
      BY <1>22, <2>1 DEF TsLost
    <3>2. EachOnceAfterSignal'
      <4>1. late' = late /\ flying' <= flying
        BY <2>1, <3>1
      <4>2. late + flying <= BufferCount => late' + flying' <= BufferCount
        BY <3>1, <4>1, FewerFits
      <4> QED
        BY <3>1, <4>2
    <3>3. References' /\ Counted'
      BY <3>1
    <3> QED
      BY <3>2, <3>3
  <2>9. NothingLost' /\ DecodesFromFirstKey'
    BY <1>22, <2>1 DEF TsLost, NothingLost, DecodesFromFirstKey
  <2> QED
    BY <2>6, <2>7, <2>8, <2>9
<1>23. CASE EcmComplete
  <2>1. DecodesFromFirstKey'
    <3>1. Len(ts_out) \in Nat
      BY LenProperties
    <3>2. SubSeq(ts_out, Len(ts_out) + 1, Len(ts_out)) = << >>
      BY <3>1, SubSeqEmpty
    <3>3. /\ pushed' = pushed /\ ts_out' = ts_out /\ option' = option /\ option.bcas = "fx2"
          /\ n_ecm_arrived \in Nat /\ n_ecm_arrived' = n_ecm_arrived + 1 /\ n_ecm_arrived' # 0
          /\ first_key' = IF n_ecm_arrived = 0 THEN Len(ts_out) ELSE first_key
      BY <1>23 DEF EcmComplete
    <3> QED
      BY <3>2, <3>3 DEF DecodesFromFirstKey
  <2> QED
    BY <1>23, <2>1, LenProperties DEF EcmComplete, NothingLost, CallbacksRun
<1>24. CASE UNCHANGED vars
  BY <1>24 DEF NothingLost, DecodesFromFirstKey
<1> QED
  BY <1>1, <1>2, <1>3, <1>4, <1>5, <1>6, <1>7, <1>8, <1>9, <1>10, <1>11, <1>12, <1>13,
     <1>14, <1>15, <1>16, <1>17, <1>18, <1>19, <1>20, <1>21, <1>22, <1>23, <1>24
     DEF Next, MainStep, ThreadStep

THEOREM Invariance == Spec => []IInv
  BY Initially, Inductive, PTL DEF Spec

\* The variables keep their types: in particular never more TS transfers
\* than were started, never a reference too many or too few.
THEOREM TypeCorrect == Spec => []TypeOK
<1>1. IInv => TypeOK
  BY DEF IInv
<1> QED
  BY <1>1, Invariance, PTL

\* Every chunk pushed is in the decoder, in hand or queued, in its order,
\* however the two threads interleave, from start to end.
THEOREM LosesNothing == Spec => []NothingLost
<1>1. IInv => NothingLost
  BY DEF IInv
<1> QED
  BY <1>1, Invariance, PTL

\* What is decoded is all the TS from the first key on.
THEOREM DecodesAllFromFirstKey == Spec => []DecodesFromFirstKey
<1>1. IInv => DecodesFromFirstKey
  BY DEF IInv
<1> QED
  BY <1>1, Invariance, PTL

\* A signal stops the TS after one callback of each transfer at most.
THEOREM StopsAfterSignal == Spec => []EachOnceAfterSignal
<1>1. IInv => EachOnceAfterSignal
  BY DEF IInv
<1> QED
  BY <1>1, Invariance, PTL

\* Queue, decoder and card exist as long as they are used.
THEOREM UsesWhatIsAlive == Spec => []UsedWhileAlive
<1>1. IInv => UsedWhileAlive
  BY DEF IInv, TypeOK, SetUp, TakenDown, References, UsedWhileAlive, CallbacksRun
<1> QED
  BY <1>1, Invariance, PTL

-----------------------------------------------------------------------------
(* Refinement *)

\* A step that pushes is an Accept of TsPipe.
LEMMA PushAccepts ==
    ASSUME NEW data \in Chunk, TransferTsCb(data), main \notin {"flush", "exited"},
           UNCHANGED <<main, put>>
    PROVE  [Pipe!Next]_Pipe!vars
<1>1. CASE HasKey
  <2>1. Pipe!Accept(data)
    BY <1>1 DEF TransferTsCb, Pipe!Accept
  <2> QED
    BY <2>1 DEF Pipe!Next
<1>2. CASE ~HasKey
  BY <1>2 DEF TransferTsCb, Pipe!vars
<1> QED
  BY <1>1, <1>2

\* run implements TsPipe.
THEOREM ImplementsPipe == Spec => PipeSafe
<1>1. Init => Pipe!Init
  BY DEF Init, Pipe!Init
<1>2. ASSUME IInv, [Next]_vars PROVE [Pipe!Next]_Pipe!vars
  <2> USE <1>2 DEF IInv
  <2>1. CASE ReadTs
    <3> DEFINE data == [i \in 1 .. BufSize |-> IF given + i <= TsLen THEN given + i ELSE Stale]
    <3>1. data \in [1 .. BufSize -> 0 .. TsLen] /\ BufSize \in 1 .. BufSize
      BY DEF Stale, TypeOK
    <3>2. TransferTsCb(data) /\ main = "loop" /\ UNCHANGED <<main, put>>
      BY <2>1 DEF ReadTs, worker
    <3> HIDE DEF data
    <3>3. data \in Chunk
      BY <3>1, IsChunk
    <3> QED
      BY <3>2, <3>3, PushAccepts
  <2>2. ASSUME NEW n \in 1 .. BufSize, TsComplete(n) PROVE [Pipe!Next]_Pipe!vars
    <3> DEFINE data == [i \in 1 .. n |-> given + i]
    <3>1. data \in [1 .. n -> 0 .. TsLen]
      BY <2>2 DEF TsComplete, TypeOK
    <3>2. TransferTsCb(data) /\ main \in {"loop", "quit"} /\ UNCHANGED <<main, put>>
      BY <2>2 DEF TsComplete, CallbacksRun, worker
    <3> HIDE DEF data
    <3>3. data \in Chunk
      BY <3>1, IsChunk
    <3> QED
      BY <3>2, <3>3, PushAccepts
  <2>3. CASE ThreadPuts
    <3>1. chunk \in Chunk /\ chunk # << >>
      BY <2>3, NotEmpty DEF ThreadPuts, TypeOK, TakenDown
    <3>2. pushed = put \o <<chunk>> \o queue
      BY <3>1 DEF NothingLost
    <3>3. put \in Seq(Chunk) /\ queue \in Seq(Chunk) /\ <<chunk>> \in Seq(Chunk)
      BY <3>1 DEF TypeOK
    <3>4. /\ put \o <<chunk>> \in Seq(Chunk) /\ Len(put \o <<chunk>>) = Len(put) + 1
          /\ Len(put) \in Nat /\ Len(queue) \in Nat
          /\ (put \o <<chunk>>)[Len(put) + 1] = chunk
      BY <3>3, ConcatProperties, LenProperties
    <3>5. Len(pushed) > Len(put) /\ pushed[Len(put) + 1] = chunk
      BY <3>2, <3>3, <3>4, ConcatProperties
    <3>6. main \notin {"flush", "exited"}
      BY <2>3 DEF ThreadPuts, TakenDown
    <3>7. Pipe!Decode
      BY <2>3, <3>5, <3>6 DEF ThreadPuts, Pipe!Decode
    <3> QED
      BY <3>7 DEF Pipe!Next
  <2>4. CASE Join \/ StopThread
    <3>1. UNCHANGED <<pushed, put>> /\ main \in {"join", "stop_thread"}
      BY <2>4 DEF Join, StopThread, worker
    <3>2. CASE main' = "flush"
      <4>1. thread \in {"none", "done"}
        BY <2>4, <3>1, <3>2 DEF Join, Joined, StopThread, SetUp, TakenDown, TypeOK
      <4>2. queue = << >> /\ chunk = << >>
        BY <4>1 DEF TakenDown
      <4>3. pushed = put
        BY <4>2, ConcatEmptySeq DEF NothingLost, TypeOK
      <4> QED
        BY <3>1, <3>2, <4>3 DEF Pipe!Next, Pipe!Flush
    <3>3. CASE main' # "flush"
      <4>1. main' \notin {"flush", "exited"}
        BY <2>4, <3>3 DEF Join, StopThread
      <4> QED
        BY <3>1, <4>1 DEF Pipe!vars
    <3> QED
      BY <3>2, <3>3
  <2>5. CASE FlushAndRelease
    BY <2>5 DEF FlushAndRelease, worker, Pipe!vars
  <2>6. CASE OpenFiles \/ InitB25Fails \/ CreateThread \/ NewQueue \/ SkipB25 \/ Start
             \/ ReadKeys \/ LeaveLoop \/ StopDevice
    BY <2>6 DEF OpenFiles, InitB25Fails, CreateThread, NewQueue, SkipB25, Start, ReadKeys,
                LeaveLoop, StopDevice, worker, Pipe!vars
  <2>7. CASE ThreadStarts \/ ThreadTests \/ ThreadPops \/ ThreadSleeps \/ ThreadEnds
             \/ Signal \/ EcmComplete \/ UNCHANGED vars
    BY <2>7 DEF ThreadStarts, ThreadTests, ThreadPops, ThreadSleeps, ThreadEnds, Signal,
                EcmComplete, vars, worker, Pipe!vars
  <2>8. ASSUME NEW n \in 1 .. BufSize, TsLost(n) PROVE [Pipe!Next]_Pipe!vars
    BY <2>8 DEF TsLost, worker, Pipe!vars
  <2> QED
    BY <1>2, <2>1, <2>2, <2>3, <2>4, <2>5, <2>6, <2>7, <2>8 DEF Next, MainStep, ThreadStep
<1> QED
  BY <1>1, <1>2, Invariance, PTL DEF Spec, PipeSafe, Pipe!Safe
=============================================================================
