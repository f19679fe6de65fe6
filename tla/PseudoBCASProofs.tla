-------------------------- MODULE PseudoBCASProofs --------------------------
(***************************************************************************)
(* Proofs about PseudoBCAS for any memory, any history length and any set  *)
(* of ECMs: what the history holds and that no packet of it is lost.       *)
(***************************************************************************)
EXTENDS PseudoBCAS, SequenceTheorems, TLAPS

\* The pending packet holds the ECM the card was asked last.
PendingIsAsked ==
    main = "idle" /\ pending_ecm_packet # NoCell =>
        asked \in Ecm /\ mem[pending_ecm_packet].data = asked

\* The length of the history when n ECMs were answered.
HistoryLen(n) == IF n < QueueLen THEN n ELSE QueueLen

\* The queue holds the latest answered ECMs, the pending one included from
\* the moment it was pushed to its tail.
Latest ==
    main # "released" =>
        /\ Len(ecm_queue) <= Len(arrived)
        /\ \A i \in 1 .. Len(ecm_queue) :
              mem[ecm_queue[i]].data = arrived[Len(arrived) - Len(ecm_queue) + i]

Lengths ==
    /\ main = "idle" =>
          /\ n_ecm_arrived = Len(arrived)
          /\ Len(ecm_queue) = HistoryLen(Len(arrived))
    /\ main = "queued" =>
          /\ n_ecm_arrived + 1 = Len(arrived)
          /\ Len(ecm_queue) = HistoryLen(Len(arrived) - 1) + 1
          /\ pending_ecm_packet # NoCell
          /\ ecm_queue[Len(ecm_queue)] = pending_ecm_packet

\* What holds whichever keys the responses bring.
Base == TypeOK /\ NoPacketLost /\ PendingIsAsked /\ Latest /\ Lengths

\* The entries whose key is that of another ECM.
WrongKeys == {c \in Queued : mem[c].key # mem[c].data}

IInv == Base /\ KeysMatch

LEMMA InitIInv == Init => IInv
  <1> SUFFICES ASSUME Init PROVE IInv
    OBVIOUS
  <1>1. << >> \in Seq(Cells) /\ << >> \in Seq(Ecm) /\ Len(<< >>) = 0
    OBVIOUS
  <1>2. ecm_queue \in Seq(Cells) /\ arrived \in Seq(Ecm) /\ Len(ecm_queue) = 0
        /\ Len(arrived) = 0
    BY <1>1 DEF Init
  <1>3. Len(ecm_queue) <= QueueLen + 1
    BY <1>2, QueueLenAssumption
  <1>4. mem \in [Cells -> Cell]
    BY DEF Init, Cell
  <1>5. TypeOK
    BY <1>2, <1>3, <1>4 DEF Init, TypeOK
  <1>6. Queued = {}
    BY <1>2 DEF Queued, ToSet
  <1>7. NoPacketLost /\ PendingIsAsked /\ KeysMatch
    BY <1>2, <1>6 DEF Init, NoPacketLost, PendingIsAsked, KeysMatch
  <1>8. Latest
    BY <1>2 DEF Init, Latest
  <1>9. Lengths
    BY <1>2, QueueLenAssumption DEF Init, Lengths, HistoryLen
  <1> QED
    BY <1>5, <1>7, <1>8, <1>9 DEF IInv, Base

\* The cell of the request is not one of the queue's.
LEMMA RequestBase ==
    ASSUME Base, NEW e \in Ecm, NEW first \in BOOLEAN, Request(e, first)
    PROVE  Base' /\ WrongKeys' = WrongKeys
  <1> DEFINE live == used \ (IF Kept(first) = NoCell THEN {pending_ecm_packet} ELSE {})
  <1>1. PICK c \in Cells :
          /\ IF Kept(first) = NoCell THEN c \notin live ELSE c = Kept(first)
          /\ pending_ecm_packet' = c
          /\ used' = live \cup {c}
          /\ mem' = [mem EXCEPT ![c].data = e]
    BY DEF Request, DataStored
  <1>2. /\ main = "idle" /\ main' = "idle" /\ asked' = e
        /\ UNCHANGED <<ecm_queue, n_ecm_arrived, main, search, arrived>>
        /\ synced' = TRUE
    BY DEF Request
  <1>3. c # NoCell /\ NoCell \notin Cells
    BY NoneAssumption
  <1>4. pending_ecm_packet \notin Queued
    BY <1>2 DEF Base, NoPacketLost
  <1>5. c \notin Queued
    BY <1>1, <1>4 DEF Base, NoPacketLost, Kept
  <1>6. mem \in [Cells -> Cell] /\ Queued \subseteq Cells
    <2>1. ecm_queue \in Seq(Cells)
      BY DEF Base, TypeOK
    <2> QED
      BY <2>1, LenProperties DEF Base, TypeOK, Queued, ToSet
  <1>7. /\ mem' \in [Cells -> Cell]
        /\ mem'[c].data = e
        /\ \A d \in Queued : mem'[d] = mem[d]
    BY <1>1, <1>5, <1>6 DEF Cell
  <1>8. Queued' = Queued
    BY <1>2 DEF Queued, ToSet
  <1>9. TypeOK'
    BY <1>1, <1>2, <1>7 DEF Base, TypeOK, search
  <1>10. NoPacketLost'
    <2>1. used' = Queued' \cup ({c} \ {NoCell})
      BY <1>1, <1>3, <1>4, <1>8 DEF Base, NoPacketLost, Kept
    <2> QED
      BY <1>1, <1>2, <1>5, <1>8, <2>1 DEF Base, NoPacketLost
  <1>11. PendingIsAsked' /\ WrongKeys' = WrongKeys
    BY <1>1, <1>2, <1>7, <1>8 DEF PendingIsAsked, WrongKeys
  <1>12. Latest'
    <2>1. \A i \in 1 .. Len(ecm_queue) : ecm_queue[i] \in Queued
      BY DEF Queued, ToSet
    <2> QED
      BY <1>2, <1>7, <2>1 DEF Base, Latest
  <1>13. Lengths'
    BY <1>2 DEF Base, Lengths, HistoryLen
  <1> QED
    BY <1>9, <1>10, <1>11, <1>12, <1>13 DEF Base

\* A key that is not that of the request asked last makes one wrong entry.
LEMMA AnswerBase ==
    ASSUME Base, NEW key \in Ecm, Answer(key)
    PROVE  /\ Base'
           /\ WrongKeys' \subseteq WrongKeys \cup
                 (IF key = asked THEN {} ELSE {pending_ecm_packet})
  <1> DEFINE p == pending_ecm_packet
  <1>1. /\ main = "idle" /\ main' = "queued" /\ p # NoCell
        /\ mem' = [mem EXCEPT ![p].key = key]
        /\ ecm_queue' = Append(ecm_queue, p)
        /\ arrived' = Append(arrived, mem[p].data)
        /\ UNCHANGED <<used, pending_ecm_packet, n_ecm_arrived, search, synced, asked>>
    BY DEF Answer
  <1>2. /\ p \in Cells /\ p \notin Queued /\ mem[p].data = asked
        /\ mem \in [Cells -> Cell]
        /\ ecm_queue \in Seq(Cells) /\ Len(ecm_queue) \in Nat
        /\ arrived \in Seq(Ecm) /\ Len(arrived) \in Nat
        /\ Queued \subseteq Cells
    BY <1>1, LenProperties DEF Base, TypeOK, NoPacketLost, PendingIsAsked, Queued, ToSet
  <1>3. mem[p].data \in Ecm
    BY <1>1 DEF Base, PendingIsAsked
  <1>4. /\ ecm_queue' \in Seq(Cells)
        /\ Len(ecm_queue') = Len(ecm_queue) + 1
        /\ \A i \in 1 .. Len(ecm_queue) : ecm_queue'[i] = ecm_queue[i]
        /\ ecm_queue'[Len(ecm_queue) + 1] = p
    BY <1>1, <1>2, AppendProperties
  <1>5. /\ arrived' \in Seq(Ecm)
        /\ Len(arrived') = Len(arrived) + 1
        /\ \A i \in 1 .. Len(arrived) : arrived'[i] = arrived[i]
        /\ arrived'[Len(arrived) + 1] = mem[p].data
    BY <1>1, <1>2, <1>3, AppendProperties
  <1>6. /\ mem' \in [Cells -> Cell]
        /\ mem'[p].key = key /\ mem'[p].data = mem[p].data
        /\ \A d \in Cells : mem'[d].data = mem[d].data
        /\ \A d \in Queued : mem'[d] = mem[d]
    BY <1>1, <1>2 DEF Cell
  <1>7. Queued' = Queued \cup {p}
    <2>1. ASSUME NEW d \in Queued' PROVE d \in Queued \cup {p}
      <3>1. PICK i \in 1 .. Len(ecm_queue') : d = ecm_queue'[i]
        BY DEF Queued, ToSet
      <3>2. CASE i \in 1 .. Len(ecm_queue)
        BY <1>4, <3>1, <3>2 DEF Queued, ToSet
      <3>3. CASE i = Len(ecm_queue) + 1
        BY <1>4, <3>1, <3>3
      <3> QED
        BY <1>2, <1>4, <3>2, <3>3
    <2>2. ASSUME NEW d \in Queued PROVE d \in Queued'
      <3>1. PICK i \in 1 .. Len(ecm_queue) : d = ecm_queue[i]
        BY DEF Queued, ToSet
      <3>2. i \in 1 .. Len(ecm_queue') /\ d = ecm_queue'[i]
        BY <1>2, <1>4, <3>1
      <3> QED
        BY <3>2 DEF Queued, ToSet
    <2>3. p \in Queued'
      <3>1. Len(ecm_queue) + 1 \in 1 .. Len(ecm_queue')
        BY <1>2, <1>4
      <3> QED
        BY <1>4, <3>1 DEF Queued, ToSet
    <2> QED
      BY <2>1, <2>2, <2>3
  <1>8. Len(ecm_queue) <= QueueLen
    BY <1>1, <1>2, QueueLenAssumption DEF Base, Lengths, HistoryLen
  <1>9. TypeOK'
    <2>1. Len(ecm_queue') <= QueueLen + 1
      BY <1>2, <1>4, <1>8, QueueLenAssumption
    <2> QED
      BY <1>1, <1>4, <1>5, <1>6, <2>1 DEF Base, TypeOK, search
  <1>10. NoPacketLost'
    <2>1. used' = Queued' \cup ({pending_ecm_packet'} \ {NoCell})
      BY <1>1, <1>7 DEF Base, NoPacketLost
    <2>2. ASSUME NEW i \in 1 .. Len(ecm_queue'), NEW j \in 1 .. Len(ecm_queue'),
                 i # j
          PROVE  ecm_queue'[i] # ecm_queue'[j]
      <3>1. \A k \in 1 .. Len(ecm_queue) : ecm_queue'[k] # p
        BY <1>2, <1>4 DEF Queued, ToSet
      <3>2. CASE i \in 1 .. Len(ecm_queue) /\ j \in 1 .. Len(ecm_queue)
        BY <1>4, <2>2, <3>2 DEF Base, NoPacketLost
      <3>3. CASE i = Len(ecm_queue) + 1
        <4>1. j \in 1 .. Len(ecm_queue)
          BY <1>2, <1>4, <2>2, <3>3
        <4> QED
          BY <1>4, <3>1, <3>3, <4>1
      <3>4. CASE j = Len(ecm_queue) + 1
        <4>1. i \in 1 .. Len(ecm_queue)
          BY <1>2, <1>4, <2>2, <3>4
        <4> QED
          BY <1>4, <3>1, <3>4, <4>1
      <3> QED
        BY <1>2, <1>4, <3>2, <3>3, <3>4
    <2> QED
      BY <1>1, <2>1, <2>2 DEF NoPacketLost
  <1>11. WrongKeys' \subseteq WrongKeys \cup (IF key = asked THEN {} ELSE {p})
    BY <1>2, <1>6, <1>7 DEF WrongKeys
  <1>12. PendingIsAsked'
    BY <1>1 DEF Base, PendingIsAsked
  <1>13. Latest'
    <2>1. Len(ecm_queue) <= Len(arrived)
      BY <1>1 DEF Base, Latest
    <2>2. ASSUME NEW i \in 1 .. Len(ecm_queue')
          PROVE  mem'[ecm_queue'[i]].data
                    = arrived'[Len(arrived') - Len(ecm_queue') + i]
      <3>1. Len(arrived') - Len(ecm_queue') = Len(arrived) - Len(ecm_queue)
        BY <1>2, <1>4, <1>5
      <3>2. CASE i \in 1 .. Len(ecm_queue)
        <4>1. Len(arrived) - Len(ecm_queue) + i \in 1 .. Len(arrived)
          BY <1>2, <2>1, <3>2
        <4>2. ecm_queue[i] \in Cells
          BY <1>2, <3>2, LenProperties
        <4>3. mem[ecm_queue[i]].data = arrived[Len(arrived) - Len(ecm_queue) + i]
          BY <1>1, <3>2 DEF Base, Latest
        <4> QED
          BY <1>4, <1>5, <1>6, <3>1, <3>2, <4>1, <4>2, <4>3
      <3>3. CASE i = Len(ecm_queue) + 1
        <4>1. Len(arrived) - Len(ecm_queue) + i = Len(arrived) + 1
          BY <1>2, <3>3
        <4> QED
          BY <1>4, <1>5, <1>6, <3>1, <3>3, <4>1
      <3> QED
        BY <1>2, <1>4, <3>2, <3>3
    <2>3. Len(ecm_queue') <= Len(arrived')
      BY <1>2, <1>4, <1>5, <2>1
    <2> QED
      BY <2>2, <2>3 DEF Latest
  <1>14. Lengths'
    <2>1. n_ecm_arrived' + 1 = Len(arrived')
      BY <1>1, <1>2, <1>5 DEF Base, Lengths, TypeOK
    <2>2. Len(ecm_queue') = HistoryLen(Len(arrived') - 1) + 1
      <3>1. Len(arrived') - 1 = Len(arrived)
        BY <1>2, <1>5
      <3> QED
        BY <1>1, <1>4, <3>1 DEF Base, Lengths
    <2> QED
      BY <1>1, <1>4, <2>1, <2>2 DEF Lengths
  <1> QED
    BY <1>9, <1>10, <1>11, <1>12, <1>13, <1>14 DEF Base

\* What a step leaves alone keeps the invariant when the queue is not
\* touched: the lookup's own steps.
LEMMA LookupBase ==
    ASSUME Base, UNCHANGED <<card, feed>>, TypeOK'
    PROVE  Base' /\ WrongKeys' = WrongKeys
  <1>1. Queued' = Queued
    BY DEF card, Queued, ToSet
  <1> QED
    BY <1>1 DEF card, feed, Base, NoPacketLost, WrongKeys, PendingIsAsked,
                Latest, Lengths, HistoryLen

\* Evicting the oldest packet.
LEMMA EvictFacts ==
    ASSUME Base, main = "queued", Surplus
    PROVE  /\ Tail(ecm_queue) \in Seq(Cells)
           /\ Len(ecm_queue) \in Nat /\ Len(ecm_queue) > 0
           /\ Len(Tail(ecm_queue)) = Len(ecm_queue) - 1
           /\ \A i \in 1 .. Len(ecm_queue) - 1 : Tail(ecm_queue)[i] = ecm_queue[i + 1]
           /\ Head(ecm_queue) = ecm_queue[1]
           /\ ToSet(Tail(ecm_queue)) = Queued \ {Head(ecm_queue)}
  <1>1. ecm_queue \in Seq(Cells) /\ Len(ecm_queue) \in Nat
    BY LenProperties DEF Base, TypeOK
  <1>2. Len(ecm_queue) > 0 /\ ecm_queue # << >>
    BY <1>1, QueueLenAssumption, EmptySeq DEF Surplus
  <1>3. /\ Tail(ecm_queue) \in Seq(Cells)
        /\ Len(Tail(ecm_queue)) = Len(ecm_queue) - 1
        /\ \A i \in 1 .. Len(ecm_queue) - 1 : Tail(ecm_queue)[i] = ecm_queue[i + 1]
    BY <1>1, <1>2, HeadTailProperties
  <1>4. Head(ecm_queue) = ecm_queue[1]
    BY <1>1, <1>2
  <1>5. ASSUME NEW d \in ToSet(Tail(ecm_queue))
        PROVE  d \in Queued \ {Head(ecm_queue)}
    <2>1. PICK i \in 1 .. Len(ecm_queue) - 1 : d = ecm_queue[i + 1]
      BY <1>3 DEF ToSet
    <2>2. i + 1 \in 1 .. Len(ecm_queue) /\ 1 \in 1 .. Len(ecm_queue) /\ i + 1 # 1
      BY <1>1, <1>2
    <2>3. ecm_queue[i + 1] # ecm_queue[1]
      BY <2>2 DEF Base, NoPacketLost
    <2> QED
      BY <1>4, <2>1, <2>2, <2>3 DEF Queued, ToSet
  <1>6. ASSUME NEW d \in Queued \ {Head(ecm_queue)}
        PROVE  d \in ToSet(Tail(ecm_queue))
    <2>1. PICK i \in 1 .. Len(ecm_queue) : d = ecm_queue[i]
      BY DEF Queued, ToSet
    <2>2. i # 1
      BY <1>4, <2>1
    <2>3. i - 1 \in 1 .. Len(ecm_queue) - 1 /\ (i - 1) + 1 = i
      BY <1>1, <2>2
    <2>4. d = Tail(ecm_queue)[i - 1]
      BY <1>3, <2>1, <2>3
    <2> QED
      BY <1>3, <2>3, <2>4 DEF ToSet
  <1> QED
    BY <1>1, <1>2, <1>3, <1>4, <1>5, <1>6

\* The end of parse_packet: the oldest packet goes if there is one too many.
LEMMA RegisteredBase ==
    ASSUME Base, Registered
    PROVE  Base' /\ WrongKeys' \subseteq WrongKeys
  <1>1. /\ main = "queued" /\ main' = "idle"
        /\ n_ecm_arrived' = n_ecm_arrived + 1
        /\ pending_ecm_packet' = NoCell
        /\ UNCHANGED <<mem, lookup, wanted, cursor, result, feed>>
        /\ Evict
    BY DEF Registered
  <1>2. /\ n_ecm_arrived + 1 = Len(arrived)
        /\ Len(ecm_queue) = HistoryLen(Len(arrived) - 1) + 1
        /\ pending_ecm_packet # NoCell
        /\ ecm_queue[Len(ecm_queue)] = pending_ecm_packet
    BY <1>1 DEF Base, Lengths
  <1>3. /\ Len(arrived) \in Nat /\ n_ecm_arrived \in Nat /\ Len(arrived) > 0
        /\ Len(ecm_queue) \in Nat /\ ecm_queue \in Seq(Cells)
        /\ QueueLen \in Nat /\ Len(ecm_queue) <= Len(arrived)
    BY <1>1, <1>2, LenProperties, QueueLenAssumption DEF Base, TypeOK, Latest
  <1>4. used = Queued /\ pending_ecm_packet \in Queued
    <2>1. Len(ecm_queue) \in 1 .. Len(ecm_queue)
      BY <1>2, <1>3 DEF HistoryLen
    <2>2. pending_ecm_packet \in Queued
      BY <1>2, <2>1 DEF Queued, ToSet
    <2> QED
      BY <1>2, <2>2 DEF Base, NoPacketLost
  <1>5. /\ ecm_queue' \in Seq(Cells)
        /\ Len(ecm_queue') = HistoryLen(Len(arrived))
        /\ held' \in BOOLEAN /\ undisturbed' \in BOOLEAN
        /\ used' = Queued'
        /\ Queued' \subseteq Queued
        /\ \A i, j \in 1 .. Len(ecm_queue') : i # j => ecm_queue'[i] # ecm_queue'[j]
        /\ \A i \in 1 .. Len(ecm_queue') :
              mem[ecm_queue'[i]].data = arrived[Len(arrived) - Len(ecm_queue') + i]
    <2>1. CASE Surplus
      <3>1. /\ ecm_queue' = Tail(ecm_queue)
            /\ used' = used \ {Head(ecm_queue)}
            /\ held' = (held /\ Holds(ecm_queue', wanted))
            /\ undisturbed' = FALSE
        BY <1>1, <2>1 DEF Evict
      <3>2. Queued' = Queued \ {Head(ecm_queue)}
        BY <1>1, <2>1, <3>1, EvictFacts DEF Queued
      <3>3. Len(ecm_queue') = Len(ecm_queue) - 1
        BY <1>1, <2>1, <3>1, EvictFacts
      <3>4. Len(ecm_queue') = HistoryLen(Len(arrived))
        BY <1>2, <1>3, <2>1, <3>3 DEF HistoryLen, Surplus
      <3>5. \A i \in 1 .. Len(ecm_queue') :
               /\ ecm_queue'[i] = ecm_queue[i + 1]
               /\ i + 1 \in 1 .. Len(ecm_queue)
        BY <1>1, <1>3, <2>1, <3>1, <3>3, EvictFacts
      <3>6. ASSUME NEW i \in 1 .. Len(ecm_queue'), NEW j \in 1 .. Len(ecm_queue'),
                   i # j
            PROVE  ecm_queue'[i] # ecm_queue'[j]
        <4>1. i + 1 # j + 1
          BY <3>6
        <4> QED
          BY <3>5, <4>1 DEF Base, NoPacketLost
      <3>7. ASSUME NEW i \in 1 .. Len(ecm_queue')
            PROVE  mem[ecm_queue'[i]].data = arrived[Len(arrived) - Len(ecm_queue') + i]
        <4>1. mem[ecm_queue[i + 1]].data
                 = arrived[Len(arrived) - Len(ecm_queue) + (i + 1)]
          BY <1>1, <3>5 DEF Base, Latest
        <4>2. Len(arrived) - Len(ecm_queue) + (i + 1) = Len(arrived) - Len(ecm_queue') + i
          BY <1>3, <3>3
        <4> QED
          BY <3>5, <4>1, <4>2
      <3>8. ecm_queue' \in Seq(Cells) /\ held' \in BOOLEAN /\ undisturbed' \in BOOLEAN
        BY <1>1, <2>1, <3>1, EvictFacts
      <3> QED
        BY <1>4, <3>1, <3>2, <3>4, <3>6, <3>7, <3>8
    <2>2. CASE ~Surplus
      <3>1. UNCHANGED <<ecm_queue, used, held, undisturbed>>
        BY <1>1, <2>2 DEF Evict
      <3>2. Len(ecm_queue) = HistoryLen(Len(arrived))
        BY <1>2, <1>3, <2>2 DEF HistoryLen, Surplus
      <3> QED
        BY <1>1, <1>3, <1>4, <3>1, <3>2 DEF Base, TypeOK, NoPacketLost, Latest, Queued, ToSet
    <2> QED
      BY <2>1, <2>2
  <1>6. TypeOK'
    <2>1. Len(ecm_queue') <= QueueLen + 1
      BY <1>3, <1>5 DEF HistoryLen
    <2>2. used' \subseteq Cells
      BY <1>4, <1>5 DEF Base, TypeOK
    <2> QED
      BY <1>1, <1>3, <1>5, <2>1, <2>2 DEF Base, TypeOK, feed
  <1>7. NoPacketLost'
    <2>1. NoCell \notin Queued'
      BY <1>4, <1>5, NoneAssumption DEF Base, TypeOK
    <2> QED
      BY <1>1, <1>5, <2>1 DEF NoPacketLost
  <1>8. PendingIsAsked' /\ WrongKeys' \subseteq WrongKeys
    BY <1>1, <1>5 DEF PendingIsAsked, WrongKeys
  <1>9. Latest'
    <2>1. Len(ecm_queue') <= Len(arrived)
      BY <1>3, <1>5 DEF HistoryLen
    <2> QED
      BY <1>1, <1>5, <2>1 DEF Latest, feed
  <1>10. Lengths'
    BY <1>1, <1>2, <1>5 DEF Lengths, HistoryLen, feed
  <1> QED
    BY <1>6, <1>7, <1>8, <1>9, <1>10 DEF Base

\* The release frees the queue and nothing else.
LEMMA ReleaseBase ==
    ASSUME Base, Release
    PROVE  Base' /\ WrongKeys' \subseteq WrongKeys
  <1>1. /\ main = "idle" /\ main' = "released"
        /\ ecm_queue' = << >> /\ used' = used \ Queued
        /\ UNCHANGED <<mem, pending_ecm_packet, n_ecm_arrived, search, feed>>
    BY DEF Release
  <1>2. ecm_queue' \in Seq(Cells) /\ Len(ecm_queue') = 0
    BY <1>1
  <1>3. Queued' = {}
    BY <1>2 DEF Queued, ToSet
  <1>4. TypeOK'
    <2>1. Len(ecm_queue') <= QueueLen + 1
      BY <1>2, QueueLenAssumption
    <2> QED
      BY <1>1, <1>2, <2>1 DEF Base, TypeOK, search, feed
  <1>5. NoPacketLost'
    BY <1>1, <1>2, <1>3 DEF Base, NoPacketLost
  <1>6. /\ PendingIsAsked' /\ Latest' /\ Lengths'
        /\ WrongKeys' \subseteq WrongKeys
    BY <1>1, <1>3 DEF PendingIsAsked, Latest, Lengths, WrongKeys
  <1> QED
    BY <1>4, <1>5, <1>6 DEF Base

\* The decoder's thread changes nothing but its own lookup.
LEMMA SearchBase ==
    ASSUME Base, (\E e \in Ecm : ProcEcm(e)) \/ Compare \/ CompareFreed \/ Copy
    PROVE  Base' /\ WrongKeys' = WrongKeys
  <1>1. /\ Queued \subseteq Cells
        /\ \A i \in 1 .. Len(ecm_queue) : ecm_queue[i] \in Cells
        /\ ecm_queue # << >> => Head(ecm_queue) \in Cells
        /\ Len(ecm_queue) \in Nat
    <2>1. ecm_queue \in Seq(Cells)
      BY DEF Base, TypeOK
    <2> QED
      BY <2>1, LenProperties, HeadTailProperties DEF Queued, ToSet
  <1>2. ASSUME NEW e \in Ecm, ProcEcm(e) PROVE Base' /\ WrongKeys' = WrongKeys
    <2>1. UNCHANGED <<card, feed>> /\ held' \in BOOLEAN
      BY <1>2 DEF ProcEcm, Holds
    <2>2. TypeOK'
      BY <1>1, <1>2, <2>1 DEF Base, TypeOK, ProcEcm, card, feed
    <2> QED
      BY <2>1, <2>2, LookupBase
  <1>3. CASE Compare
    <2>1. UNCHANGED <<card, feed>>
      BY <1>3 DEF Compare
    <2>2. PICK i \in 1 .. Len(ecm_queue) :
            \/ lookup' = "copy" /\ UNCHANGED <<cursor, result>>
            \/ HasNext(i) /\ cursor' = ecm_queue[i + 1] /\ UNCHANGED <<lookup, result>>
            \/ Fail
      BY <1>3 DEF Compare
    <2>3. HasNext(i) => ecm_queue[i + 1] \in Cells
      BY <1>1 DEF HasNext
    <2>4. TypeOK'
      BY <1>3, <2>1, <2>2, <2>3 DEF Base, TypeOK, Compare, Fail, card, feed
    <2> QED
      BY <2>1, <2>4, LookupBase
  <1>4. CASE CompareFreed
    <2>1. UNCHANGED <<card, feed>>
      BY <1>4 DEF CompareFreed
    <2>2. TypeOK'
      BY <1>1, <1>4, <2>1 DEF Base, TypeOK, CompareFreed, Fail, card, feed
    <2> QED
      BY <2>1, <2>2, LookupBase
  <1>5. CASE Copy
    <2>1. UNCHANGED <<card, feed>>
      BY <1>5 DEF Copy
    <2>2. \A c \in Queued : mem[c].key \in Ecm \cup {NoEcm}
      BY <1>1 DEF Base, TypeOK, Cell
    <2>3. TypeOK'
      BY <1>5, <2>1, <2>2 DEF Base, TypeOK, Copy, card, feed
    <2> QED
      BY <2>1, <2>3, LookupBase
  <1> QED
    BY <1>2, <1>3, <1>4, <1>5

\* Every step preserves the invariant.
LEMMA NextIInv == IInv /\ [Next]_vars => IInv'
  <1> SUFFICES ASSUME IInv, [Next]_vars PROVE IInv'
    OBVIOUS
  <1>1. Base /\ WrongKeys = {}
    BY DEF IInv, KeysMatch, WrongKeys
  <1>2. ASSUME NEW e \in Ecm, NEW first \in BOOLEAN, Request(e, first)
        PROVE  Base' /\ WrongKeys' = {}
    BY <1>1, <1>2, RequestBase
  <1>3. ASSUME Response PROVE Base' /\ WrongKeys' = {}
    <2>1. asked \in Ecm /\ Answer(asked)
      BY <1>1, <1>3 DEF Response, Answer, Base, PendingIsAsked
    <2> QED
      BY <1>1, <2>1, AnswerBase
  <1>4. ASSUME Registered PROVE Base' /\ WrongKeys' = {}
    BY <1>1, <1>4, RegisteredBase
  <1>5. ASSUME Release PROVE Base' /\ WrongKeys' = {}
    BY <1>1, <1>5, ReleaseBase
  <1>6. ASSUME (\E e \in Ecm : ProcEcm(e)) \/ Compare \/ CompareFreed \/ Copy
        PROVE  Base' /\ WrongKeys' = {}
    BY <1>1, <1>6, SearchBase
  <1>7. ASSUME UNCHANGED vars PROVE Base' /\ WrongKeys' = {}
    <2>1. TypeOK'
      BY <1>1, <1>7 DEF vars, card, search, feed, Base, TypeOK
    <2> QED
      BY <1>1, <1>7, <2>1, LookupBase DEF vars
  <1>8. Base' /\ WrongKeys' = {}
    BY <1>2, <1>3, <1>4, <1>5, <1>6, <1>7 DEF Next
  <1> QED
    BY <1>8 DEF IInv, KeysMatch, WrongKeys

\* The invariant holds in every reachable state of the card.
THEOREM Invariance == Spec => []IInv
  BY InitIInv, NextIInv, PTL DEF Spec

\* Between two packets the history is the latest answered ECMs.
LEMMA IsLatest == Base => HistoryIsLatest
  <1> SUFFICES ASSUME Base, main = "idle"
               PROVE  /\ n_ecm_arrived = Len(arrived)
                      /\ Len(ecm_queue) = HistoryLen(Len(arrived))
                      /\ \A i \in 1 .. HistoryLen(Len(arrived)) :
                            mem[ecm_queue[i]].data
                               = arrived[Len(arrived) - HistoryLen(Len(arrived)) + i]
    BY DEF HistoryIsLatest, HistoryLen
  <1>1. n_ecm_arrived = Len(arrived) /\ Len(ecm_queue) = HistoryLen(Len(arrived))
    BY DEF Base, Lengths
  <1> QED
    BY <1>1 DEF Base, Latest

\* Whatever is lost, repeated or left unanswered, the history never holds a
\* key beside the data of another ECM.
THEOREM KeysAlwaysMatch == Spec => []KeysMatch
  <1>1. IInv => KeysMatch
    BY DEF IInv
  <1> QED
    BY <1>1, Invariance, PTL

\* The history is the latest QueueLen answered ECMs in order, for every
\* length given by --b25-bcas-queue-size, 0 included.
THEOREM HistoryAlwaysLatest == Spec => []HistoryIsLatest
  <1>1. IInv => HistoryIsLatest
    BY IsLatest DEF IInv, Base
  <1> QED
    BY <1>1, Invariance, PTL

\* No ECMPacket is leaked before the release, freed twice or queued after it
\* was freed.
THEOREM NoPacketEverLost == Spec => []NoPacketLost
  <1>1. IInv => NoPacketLost
    BY DEF IInv, Base
  <1> QED
    BY <1>1, Invariance, PTL

\* The types of the card's and the lookup's variables.
THEOREM TypeCorrect == Spec => []TypeOK
  <1>1. IInv => TypeOK
    BY DEF IInv, Base
  <1> QED
    BY <1>1, Invariance, PTL

-----------------------------------------------------------------------------
(* Lookups *)

\* The i-th packet of the queue is wanted, and not before the p-th.
Ahead(p) == \E i \in p .. Len(ecm_queue) : mem[ecm_queue[i]].data = wanted

\* A lookup is at a packet of the queue, and has not passed what it looks for.
AtPacket ==
    \E p \in 1 .. Len(ecm_queue) :
        /\ ecm_queue[p] = cursor
        /\ lookup = "search" /\ held => Ahead(p)
        /\ lookup = "copy" => mem[cursor].data = wanted

Lookup ==
    /\ main = "released" => lookup \in {"idle", "crashed"}
    /\ lookup \in {"search", "copy"} => result = NoResult
    /\ undisturbed /\ lookup \in {"search", "copy"} => AtPacket
    /\ LookupServes

\* A lookup stays where it is while the queue grows at its tail.
LEMMA AtPacketStays ==
    ASSUME AtPacket, UNCHANGED search,
           Len(ecm_queue) \in Nat, Len(ecm_queue') \in Nat, Len(ecm_queue) <= Len(ecm_queue'),
           \A i \in 1 .. Len(ecm_queue) :
               /\ ecm_queue'[i] = ecm_queue[i]
               /\ mem'[ecm_queue[i]].data = mem[ecm_queue[i]].data
    PROVE  AtPacket'
  <1>1. PICK p \in 1 .. Len(ecm_queue) :
          /\ ecm_queue[p] = cursor
          /\ lookup = "search" /\ held => Ahead(p)
          /\ lookup = "copy" => mem[cursor].data = wanted
    BY DEF AtPacket
  <1>2. Ahead(p) => \E i \in p .. Len(ecm_queue') : mem'[ecm_queue'[i]].data = wanted'
    BY DEF Ahead, search
  <1>3. /\ p \in 1 .. Len(ecm_queue') /\ ecm_queue'[p] = cursor'
        /\ lookup' = "search" /\ held' =>
              \E i \in p .. Len(ecm_queue') : mem'[ecm_queue'[i]].data = wanted'
        /\ lookup' = "copy" => mem'[cursor'].data = wanted'
    BY <1>1, <1>2 DEF search
  <1> QED
    BY <1>3 DEF AtPacket, Ahead

\* The main thread's steps.
LEMMA MainLookup ==
    ASSUME IInv, Lookup,
           \/ \E e \in Ecm, first \in BOOLEAN : Request(e, first)
           \/ Response \/ Registered \/ Release
    PROVE  Lookup'
  <1>1. /\ ecm_queue \in Seq(Cells) /\ Len(ecm_queue) \in Nat
        /\ \A i \in 1 .. Len(ecm_queue) : ecm_queue[i] \in Queued
    BY LenProperties DEF IInv, Base, TypeOK, Queued, ToSet
  <1>2. ASSUME UNCHANGED search, main' # "released",
               Len(ecm_queue') \in Nat, Len(ecm_queue) <= Len(ecm_queue'),
               \A i \in 1 .. Len(ecm_queue) :
                   /\ ecm_queue'[i] = ecm_queue[i]
                   /\ mem'[ecm_queue[i]].data = mem[ecm_queue[i]].data
        PROVE  Lookup'
    <2>1. AtPacket => AtPacket'
      BY <1>1, <1>2, AtPacketStays
    <2> QED
      BY <1>2, <2>1 DEF Lookup, LookupServes, search
  <1>3. ASSUME NEW e \in Ecm, NEW first \in BOOLEAN, Request(e, first)
        PROVE  Lookup'
    <2>1. PICK c \in Cells :
            /\ IF Kept(first) = NoCell THEN c \notin used \ {pending_ecm_packet}
                                       ELSE c = pending_ecm_packet
            /\ mem' = [mem EXCEPT ![c].data = e]
      BY <1>3 DEF Request, DataStored, Kept
    <2>2. pending_ecm_packet \notin Queued
      BY <1>3 DEF IInv, Base, NoPacketLost, Request
    <2>3. c \notin Queued
      BY <2>1, <2>2 DEF IInv, Base, NoPacketLost
    <2>4. \A d \in Queued : mem'[d] = mem[d]
      BY <2>1, <2>3 DEF IInv, Base, TypeOK, Queued, ToSet
    <2> QED
      BY <1>1, <1>2, <1>3, <2>4 DEF Request
  <1>4. CASE Response
    <2>1. pending_ecm_packet \in Cells
      BY <1>4 DEF Response, Answer, IInv, Base, TypeOK
    <2>2. /\ Len(ecm_queue') = Len(ecm_queue) + 1
          /\ \A i \in 1 .. Len(ecm_queue) : ecm_queue'[i] = ecm_queue[i]
      BY <1>1, <1>4, <2>1 DEF Response, Answer
    <2>3. \A d \in Cells : mem'[d].data = mem[d].data
      BY <1>4 DEF Response, Answer, IInv, Base, TypeOK, Cell
    <2> QED
      BY <1>1, <1>2, <1>4, <2>2, <2>3 DEF Response, Answer, IInv, Base, TypeOK, Queued, ToSet
  <1>5. CASE Registered
    <2>1. CASE Surplus
      BY <1>5, <2>1 DEF Registered, Evict, Lookup, LookupServes
    <2>2. CASE ~Surplus
      <3>1. UNCHANGED <<search, mem, ecm_queue>> /\ main' = "idle"
        BY <1>5, <2>2 DEF Registered, Evict, search
      <3> QED
        BY <1>1, <1>2, <3>1
    <2> QED
      BY <2>1, <2>2
  <1>6. CASE Release
    BY <1>6 DEF Release, search, Lookup, LookupServes
  <1> QED
    BY <1>3, <1>4, <1>5, <1>6

\* The decoder's.
LEMMA SearchLookup ==
    ASSUME IInv, Lookup, (\E e \in Ecm : ProcEcm(e)) \/ Compare \/ CompareFreed \/ Copy
    PROVE  Lookup'
  <1>1. /\ ecm_queue \in Seq(Cells) /\ Len(ecm_queue) \in Nat
        /\ \A i \in 1 .. Len(ecm_queue) : ecm_queue[i] \in Queued
        /\ \A i, j \in 1 .. Len(ecm_queue) : ecm_queue[i] = ecm_queue[j] => i = j
    BY LenProperties DEF IInv, Base, TypeOK, Queued, ToSet, NoPacketLost
  <1>2. ASSUME NEW e \in Ecm, ProcEcm(e) PROVE Lookup'
    <2>1. UNCHANGED <<mem, ecm_queue, main>> /\ main # "released"
      BY <1>2 DEF ProcEcm, card
    <2>2. CASE ecm_queue = << >>
      <3>1. held' = FALSE /\ result' = Failed /\ lookup' = "idle"
        <4>1. Len(ecm_queue) = 0
          BY <2>2
        <4> QED
          BY <1>2, <2>2, <4>1 DEF ProcEcm, Holds
      <3> QED
        BY <2>1, <3>1, ResultAssumption DEF Lookup, LookupServes
    <2>3. CASE ecm_queue # << >>
      <3>1. /\ lookup' = "search" /\ cursor' = ecm_queue[1] /\ result' = NoResult
            /\ wanted' = e /\ 1 \in 1 .. Len(ecm_queue)
            /\ held' => \E i \in 1 .. Len(ecm_queue) : mem[ecm_queue[i]].data = e
        BY <1>1, <1>2, <2>3 DEF ProcEcm, Holds
      <3>2. AtPacket'
        BY <2>1, <3>1 DEF AtPacket, Ahead
      <3> QED
        BY <2>1, <3>1, <3>2, ResultAssumption DEF Lookup, LookupServes
    <2> QED
      BY <2>2, <2>3
  <1>3. CASE Compare
    <2>1. PICK i \in 1 .. Len(ecm_queue) :
            /\ ecm_queue[i] = cursor
            /\ \/ /\ mem[cursor].data = wanted
                  /\ lookup' = "copy"
                  /\ UNCHANGED <<cursor, result>>
               \/ /\ mem[cursor].data # wanted /\ i + 1 <= Len(ecm_queue)
                  /\ cursor' = ecm_queue[i + 1]
                  /\ UNCHANGED <<lookup, result>>
               \/ /\ mem[cursor].data # wanted /\ ~(i + 1 <= Len(ecm_queue))
                  /\ Fail
      BY <1>3 DEF Compare, Matches, HasNext
    <2>2. UNCHANGED <<mem, ecm_queue, main, wanted, held, undisturbed>> /\ lookup = "search"
      BY <1>3 DEF Compare, card
    <2>3. undisturbed /\ held => Ahead(i)
      BY <1>1, <2>1, <2>2 DEF Lookup, AtPacket
    <2>4. CASE mem[cursor].data = wanted
      <3>1. lookup' = "copy" /\ UNCHANGED <<cursor, result>>
        BY <2>1, <2>4
      <3>2. AtPacket'
        BY <2>1, <2>2, <2>4, <3>1 DEF AtPacket
      <3> QED
        BY <2>2, <3>1, <3>2 DEF Lookup, LookupServes
    <2>5. CASE mem[cursor].data # wanted /\ i + 1 <= Len(ecm_queue)
      <3>1. cursor' = ecm_queue[i + 1] /\ UNCHANGED <<lookup, result>>
        BY <2>1, <2>5
      <3>2. undisturbed /\ held =>
                \E j \in i + 1 .. Len(ecm_queue) : mem[ecm_queue[j]].data = wanted
        BY <1>1, <2>1, <2>3, <2>5 DEF Ahead
      <3>3. undisturbed => AtPacket'
        BY <1>1, <2>2, <2>5, <3>1, <3>2 DEF AtPacket, Ahead
      <3> QED
        BY <2>2, <3>1, <3>3 DEF Lookup, LookupServes
    <2>6. CASE mem[cursor].data # wanted /\ ~(i + 1 <= Len(ecm_queue))
      <3>1. lookup' = "idle" /\ result' = Failed
        BY <2>1, <2>6 DEF Fail
      <3>2. ~(undisturbed /\ held)
        BY <1>1, <2>1, <2>3, <2>6 DEF Ahead
      <3> QED
        BY <2>2, <3>1, <3>2, ResultAssumption DEF Lookup, LookupServes
    <2> QED
      BY <2>4, <2>5, <2>6
  <1>4. CASE CompareFreed
    <2>1. ~undisturbed
      BY <1>1, <1>4 DEF CompareFreed, Lookup, AtPacket
    <2> QED
      BY <1>4, <2>1 DEF CompareFreed, Fail, card, Lookup, LookupServes
  <1>5. CASE Copy
    <2>1. /\ lookup' = "idle" /\ UNCHANGED <<main, wanted, held, undisturbed>>
          /\ cursor \in Queued => result' = mem[cursor].key
      BY <1>5 DEF Copy, card
    <2>2. undisturbed => cursor \in Queued /\ mem[cursor].data = wanted
      BY <1>1, <1>5 DEF Copy, Lookup, AtPacket
    <2>3. undisturbed => result' = wanted /\ wanted \in Ecm \cup {NoEcm}
      BY <2>1, <2>2 DEF IInv, Base, KeysMatch, TypeOK
    <2> QED
      BY <2>1, <2>3, ResultAssumption DEF Lookup, LookupServes
  <1> QED
    BY <1>2, <1>3, <1>4, <1>5

\* Unless an eviction comes in between, the decoder gets the key it asks for whenever
\* the history has it, and never another.
THEOREM LookupsServe == Spec => []LookupServes
  <1>1. Init => Lookup
    BY ResultAssumption DEF Init, Lookup, LookupServes
  <1>2. IInv /\ Lookup /\ [Next]_vars => Lookup'
    <2> SUFFICES ASSUME IInv, Lookup, [Next]_vars PROVE Lookup'
      OBVIOUS
    <2>1. CASE UNCHANGED vars
      BY <2>1 DEF vars, card, search, feed, Lookup, LookupServes, AtPacket, Ahead
    <2> QED
      BY <2>1, MainLookup, SearchLookup DEF Next
  <1>3. Lookup => LookupServes
    BY DEF Lookup
  <1> QED
    BY <1>1, <1>2, <1>3, Invariance, PTL DEF Spec
=============================================================================
