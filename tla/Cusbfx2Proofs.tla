--------------------------- MODULE Cusbfx2Proofs ----------------------------
(***************************************************************************)
(* Proofs about lib/cusbfx2.c: its transfers (UsbTransfer), and further    *)
(* down the opening of the device (Enumeration).                           *)
(*                                                                         *)
(* The transfers, for every number of them and every size of a buffer:     *)
(* none is reported after it was freed, none is used up, all are freed,    *)
(* and each endpoint's callback gets its data as TransferFeed says.        *)
(***************************************************************************)
EXTENDS UsbTransfer, Enumeration, SequenceTheorems, TLAPS

InQueue(t) == \E i \in 1 .. Len(queue[NameOf(t)]) : queue[NameOf(t)][i] = t

\* libusb's lists hold transfers of their endpoint, each at most once, and none
\* that it does not have.
Lists ==
    /\ \A e \in Name : \A i \in 1 .. Len(queue[e]) : NameOf(queue[e][i]) = e
    /\ \A e \in Name : \A i, j \in 1 .. Len(queue[e]) : queue[e][i] = queue[e][j] => i = j
    /\ \A t \in Transfer : status[t] = "idle" => ~InQueue(t)

\* How far the program has come with the lists.
Progress ==
    /\ main = "init" => usb_transfers \subseteq 1 .. p - 1
    /\ main = "init" => \A t \in Transfer : status[t] = "idle"
    /\ main = "start" => \A t \in Transfer : t >= p => status[t] = "idle"
    /\ main = "start" => \A t \in usb_transfers : t < p => InQueue(t) \/ t \in refused
    /\ main \in {"init", "start", "loop", "stop"} =>
          \A t \in Transfer : status[t] \notin {"freed", "cancelled"}
    /\ main = "free" => \A t \in usb_transfers : t < p => status[t] = "freed"

IInv ==
    /\ TypeOK
    /\ Lists
    /\ Progress
    /\ EveryoneWaits
    /\ AllFreed
    /\ NoneReportedFreed

USE CountsAssumption

-----------------------------------------------------------------------------

LEMMA NameIsName == ASSUME NEW t \in Transfer PROVE NameOf(t) \in Name
  BY DEF NameOf, Name

\* The transfer that is filled is in its list and waits.
LEMMA FilledIs ==
    ASSUME TypeOK, Lists, NEW e \in Name, NEW t \in Filled(e)
    PROVE  /\ t \in Transfer /\ status[t] = "flying" /\ NameOf(t) = e
           /\ \E i \in 1 .. Len(queue[e]) :
                 queue[e][i] = t /\ \A k \in 1 .. i - 1 : status[queue[e][k]] # "flying"
<1>1. PICK i \in 1 .. Len(queue[e]) :
          /\ t = queue[e][i] /\ status[t] = "flying"
          /\ \A k \in 1 .. i - 1 : status[queue[e][k]] # "flying"
  BY DEF Filled
<1>2. queue[e] \in Seq(Transfer)
  BY DEF TypeOK
<1>3. t \in Transfer
  BY <1>1, <1>2
<1> QED
  BY <1>1, <1>3 DEF Lists

\* What submitting does to the lists.
LEMMA Submission ==
    ASSUME TypeOK, Lists, NEW t \in Transfer, status[t] = "idle", Submit(t)
    PROVE  /\ Lists'
           /\ queue' \in [Name -> Seq(Transfer)]
           /\ status' \in [Transfer -> Status]
           /\ \A s \in Transfer : s # t => status'[s] = status[s]
           /\ status'[t] \in {"idle", "flying"}
           /\ \A s \in Transfer : InQueue(s) => InQueue(s)'
           /\ InQueue(t)' \/ t \in refused'
<1> DEFINE e == NameOf(t)
<1>0. e \in Name /\ ~InQueue(t)
  BY NameIsName DEF Lists
<1> HIDE DEF e
<1>1. CASE queue' = [queue EXCEPT ![e] = Append(@, t)] /\ status' = [status EXCEPT ![t] = "flying"]
  <2>1. /\ queue'[e] = Append(queue[e], t)
        /\ \A f \in Name : f # e => queue'[f] = queue[f]
        /\ \A f \in Name : queue[f] \in Seq(Transfer)
    BY <1>0, <1>1 DEF TypeOK
  <2>2. /\ Len(queue'[e]) = Len(queue[e]) + 1
        /\ \A i \in 1 .. Len(queue[e]) : queue'[e][i] = queue[e][i]
        /\ queue'[e][Len(queue[e]) + 1] = t
        /\ Len(queue[e]) \in Nat
    BY <1>0, <2>1
  <2>3. \A i \in 1 .. Len(queue[e]) : queue[e][i] # t
    BY <1>0 DEF InQueue, e
  <2>4. \A s \in Transfer : InQueue(s) => InQueue(s)'
    <3> SUFFICES ASSUME NEW s \in Transfer, InQueue(s) PROVE InQueue(s)'
      OBVIOUS
    <3> QED
      BY <2>1, <2>2, NameIsName DEF InQueue
  <2>5. InQueue(t)'
    <3>1. \E i \in 1 .. Len(queue'[e]) : queue'[e][i] = t
      BY <2>2
    <3> QED
      BY <3>1 DEF InQueue, e
  <2>6. Lists'
    <3>1. \A f \in Name : \A i \in 1 .. Len(queue'[f]) : NameOf(queue'[f][i]) = f
      <4> SUFFICES ASSUME NEW f \in Name, NEW i \in 1 .. Len(queue'[f]) PROVE NameOf(queue'[f][i]) = f
        OBVIOUS
      <4>1. CASE f # e
        BY <4>1, <2>1 DEF Lists
      <4>2. CASE f = e /\ i \in 1 .. Len(queue[e])
        BY <4>2, <2>2 DEF Lists
      <4>3. CASE f = e /\ i = Len(queue[e]) + 1
        BY <4>3, <2>2 DEF e
      <4> QED
        BY <4>1, <4>2, <4>3, <2>2
    <3>2. \A f \in Name : \A i, j \in 1 .. Len(queue'[f]) : queue'[f][i] = queue'[f][j] => i = j
      <4> SUFFICES ASSUME NEW f \in Name, NEW i \in 1 .. Len(queue'[f]), NEW j \in 1 .. Len(queue'[f]),
                          queue'[f][i] = queue'[f][j]
                   PROVE  i = j
        OBVIOUS
      <4>1. CASE f # e
        BY <4>1, <2>1 DEF Lists
      <4>2. CASE f = e
        <5>1. \A k, l \in 1 .. Len(queue[e]) : queue[e][k] = queue[e][l] => k = l
          BY <1>0 DEF Lists
        <5>2. CASE i \in 1 .. Len(queue[e]) /\ j \in 1 .. Len(queue[e])
          BY <4>2, <5>1, <5>2, <2>2
        <5>3. CASE i = Len(queue[e]) + 1 /\ j \in 1 .. Len(queue[e])
          BY <4>2, <5>3, <2>2, <2>3
        <5>4. CASE j = Len(queue[e]) + 1 /\ i \in 1 .. Len(queue[e])
          BY <4>2, <5>4, <2>2, <2>3
        <5>5. i \in 1 .. Len(queue[e]) + 1 /\ j \in 1 .. Len(queue[e]) + 1
          BY <4>2, <2>2
        <5> QED
          BY <5>2, <5>3, <5>4, <5>5, <2>2
      <4> QED
        BY <4>1, <4>2
    <3>3. \A s \in Transfer : status'[s] = "idle" => ~InQueue(s)'
      <4> SUFFICES ASSUME NEW s \in Transfer, status'[s] = "idle", InQueue(s)' PROVE FALSE
        OBVIOUS
      <4>1. s # t /\ status[s] = "idle"
        BY <1>1 DEF TypeOK
      <4>2. ~InQueue(s)
        BY <4>1 DEF Lists
      <4>3. PICK i \in 1 .. Len(queue'[NameOf(s)]) : queue'[NameOf(s)][i] = s
        BY DEF InQueue
      <4>4. CASE NameOf(s) # e
        BY <4>2, <4>3, <4>4, <2>1, NameIsName DEF InQueue
      <4>5. CASE NameOf(s) = e
        <5>1. i # Len(queue[e]) + 1
          BY <4>1, <4>3, <4>5, <2>2
        <5>2. i \in 1 .. Len(queue[e]) /\ queue[e][i] = s
          BY <5>1, <4>3, <4>5, <2>2
        <5> QED
          BY <4>2, <4>5, <5>2 DEF InQueue
      <4> QED
        BY <4>4, <4>5
    <3> QED
      BY <3>1, <3>2, <3>3 DEF Lists
  <2>7. queue' \in [Name -> Seq(Transfer)]
    BY <1>0, <1>1, <2>1 DEF TypeOK
  <2> QED
    BY <1>1, <2>4, <2>5, <2>6, <2>7 DEF TypeOK, Status
<1>2. CASE UNCHANGED queue /\ status' = [status EXCEPT ![t] = "idle"] /\ refused' = refused \union {t}
  <2>1. \A s \in Transfer : InQueue(s)' = InQueue(s)
    BY <1>2 DEF InQueue
  <2>2. Lists'
    BY <1>2, <2>1, <1>0 DEF Lists, TypeOK
  <2> QED
    BY <1>2, <2>1, <2>2 DEF TypeOK, Status
<1> QED
  BY <1>1, <1>2 DEF Submit, e

\* What taking the head off a list leaves.
LEMMA Removal ==
    ASSUME TypeOK, Lists, NEW e \in Name, queue[e] # << >>
    PROVE  LET rest == Tail(queue[e])
           IN  /\ Head(queue[e]) \in Transfer /\ NameOf(Head(queue[e])) = e
               /\ Head(queue[e]) = queue[e][1]
               /\ rest \in Seq(Transfer)
               /\ Len(queue[e]) \in Nat \ {0} /\ Len(rest) = Len(queue[e]) - 1
               /\ \A i \in 1 .. Len(rest) : rest[i] = queue[e][i + 1] /\ rest[i] # Head(queue[e])
<1> DEFINE q == queue[e]
           rest == Tail(q)
<1>1. q \in Seq(Transfer) /\ q # << >>
  BY DEF TypeOK
<1>2. \A i, j \in 1 .. Len(q) : q[i] = q[j] => i = j
  BY DEF Lists
<1>3. \A i \in 1 .. Len(q) : NameOf(q[i]) = e
  BY DEF Lists
<1> HIDE DEF q
<1>4. Len(q) \in Nat \ {0}
  BY <1>1, EmptySeq
<1>5. /\ Head(q) \in Transfer /\ rest \in Seq(Transfer) /\ Len(rest) = Len(q) - 1
      /\ \A i \in 1 .. Len(rest) : rest[i] = q[i + 1]
  BY <1>1, HeadTailProperties
<1>6. Head(q) = q[1]
  BY <1>1
<1> HIDE DEF rest
<1>7. ASSUME NEW i \in 1 .. Len(rest) PROVE rest[i] # Head(q)
  BY <1>2, <1>4, <1>5, <1>6
<1>8. NameOf(Head(q)) = e
  BY <1>3, <1>4, <1>6
<1> QED
  BY <1>4, <1>5, <1>6, <1>7, <1>8 DEF q, rest

\* What a report does to the lists: the transfer leaves its list, or is put at
\* the end of it.
LEMMA Reporting ==
    ASSUME TypeOK, Lists, NEW e \in Name, Report(e)
    PROVE  \E t \in Transfer :
               /\ t = Head(queue[e]) /\ NameOf(t) = e
               /\ Lists'
               /\ queue' \in [Name -> Seq(Transfer)]
               /\ status' \in [Transfer -> Status]
               /\ \A s \in Transfer : s # t => status'[s] = status[s] /\ (InQueue(s) => InQueue(s)')
               /\ status'[t] \in {"idle", "flying"}
               /\ InQueue(t)' \/ t \in refused' \/ ~IsResubmit(t)
<1>0. queue[e] # << >>
  BY DEF Report
<1> PICK t \in Transfer : t = Head(queue[e])
  BY <1>0, Removal
<1> DEFINE rest == Tail(queue[e])
<1>1. /\ t \in Transfer /\ NameOf(t) = e /\ t = queue[e][1]
      /\ rest \in Seq(Transfer)
      /\ Len(queue[e]) \in Nat \ {0} /\ Len(rest) = Len(queue[e]) - 1
      /\ \A i \in 1 .. Len(rest) : rest[i] = queue[e][i + 1] /\ rest[i] # t
  BY <1>0, Removal
<1>2. \/ /\ queue' = [queue EXCEPT ![e] = Append(rest, t)]
         /\ status' = [status EXCEPT ![t] = "flying"]
      \/ /\ queue' = [queue EXCEPT ![e] = rest]
         /\ status' = [status EXCEPT ![t] = "idle"]
         /\ t \in refused' \/ ~IsResubmit(t)
  BY DEF Report, TypeOK
<1> HIDE DEF rest
<1>3. \A i, j \in 1 .. Len(rest) : rest[i] = rest[j] => i = j
  <2>1. \A i, j \in 1 .. Len(queue[e]) : queue[e][i] = queue[e][j] => i = j
    BY DEF Lists
  <2> QED
    BY <2>1, <1>1
<1>4. \A i \in 1 .. Len(rest) : NameOf(rest[i]) = e
  BY <1>1 DEF Lists
<1>5. ASSUME NEW s \in Transfer, s # t, InQueue(s), NameOf(s) = e
      PROVE  \E i \in 1 .. Len(rest) : rest[i] = s
  <2>1. PICK i \in 1 .. Len(queue[e]) : queue[e][i] = s
    BY <1>5 DEF InQueue
  <2>2. i # 1
    BY <2>1, <1>1, <1>5
  <2>3. i - 1 \in 1 .. Len(rest) /\ rest[i - 1] = s
    BY <2>1, <2>2, <1>1
  <2> QED
    BY <2>3
<1>6. ASSUME NEW s \in Transfer, ~InQueue(s), NameOf(s) = e, NEW i \in 1 .. Len(rest)
      PROVE  rest[i] # s
  BY <1>1, <1>6 DEF InQueue
<1>7. CASE queue' = [queue EXCEPT ![e] = Append(rest, t)] /\ status' = [status EXCEPT ![t] = "flying"]
  <2>1. queue'[e] = Append(rest, t) /\ \A f \in Name : f # e => queue'[f] = queue[f]
    BY <1>7 DEF TypeOK
  <2>2. /\ Len(rest) \in Nat /\ Len(queue'[e]) = Len(rest) + 1
        /\ \A i \in 1 .. Len(rest) : queue'[e][i] = rest[i]
        /\ queue'[e][Len(rest) + 1] = t
        /\ queue'[e] \in Seq(Transfer)
    BY <1>1, <2>1
  <2>3. ASSUME NEW s \in Transfer, s # t, InQueue(s) PROVE InQueue(s)'
    <3>1. CASE NameOf(s) # e
      BY <2>1, <2>3, <3>1, NameIsName DEF InQueue
    <3>2. CASE NameOf(s) = e
      <4>1. PICK i \in 1 .. Len(rest) : rest[i] = s
        BY <1>5, <2>3, <3>2
      <4>2. i \in 1 .. Len(queue'[e]) /\ queue'[e][i] = s
        BY <2>2, <4>1
      <4> QED
        BY <3>2, <4>2 DEF InQueue
    <3> QED
      BY <3>1, <3>2
  <2>4. InQueue(t)'
    <3>1. \E i \in 1 .. Len(queue'[e]) : queue'[e][i] = t
      BY <2>2
    <3> QED
      BY <1>1, <3>1 DEF InQueue
  <2>5. \A f \in Name : \A i \in 1 .. Len(queue'[f]) : NameOf(queue'[f][i]) = f
    <3> SUFFICES ASSUME NEW f \in Name, NEW i \in 1 .. Len(queue'[f]) PROVE NameOf(queue'[f][i]) = f
      OBVIOUS
    <3>1. CASE f # e
      BY <3>1, <2>1 DEF Lists
    <3>2. CASE f = e
      BY <3>2, <2>2, <1>1, <1>4
    <3> QED
      BY <3>1, <3>2
  <2>6. \A f \in Name : \A i, j \in 1 .. Len(queue'[f]) : queue'[f][i] = queue'[f][j] => i = j
    <3> SUFFICES ASSUME NEW f \in Name, NEW i \in 1 .. Len(queue'[f]), NEW j \in 1 .. Len(queue'[f]),
                        queue'[f][i] = queue'[f][j]
                 PROVE  i = j
      OBVIOUS
    <3>1. CASE f # e
      BY <3>1, <2>1 DEF Lists
    <3>2. CASE f = e /\ i \in 1 .. Len(rest) /\ j \in 1 .. Len(rest)
      BY <3>2, <2>2, <1>3
    <3>3. CASE f = e /\ i = Len(rest) + 1 /\ j \in 1 .. Len(rest)
      BY <3>3, <2>2, <1>1
    <3>4. CASE f = e /\ j = Len(rest) + 1 /\ i \in 1 .. Len(rest)
      BY <3>4, <2>2, <1>1
    <3> QED
      BY <3>1, <3>2, <3>3, <3>4, <2>2
  <2>7. \A s \in Transfer : status'[s] = "idle" => ~InQueue(s)'
    <3> SUFFICES ASSUME NEW s \in Transfer, status'[s] = "idle", InQueue(s)' PROVE FALSE
      OBVIOUS
    <3>1. s # t /\ ~InQueue(s)
      BY <1>7 DEF TypeOK, Lists
    <3>2. PICK i \in 1 .. Len(queue'[NameOf(s)]) : queue'[NameOf(s)][i] = s
      BY DEF InQueue
    <3>3. CASE NameOf(s) # e
      BY <3>1, <3>2, <3>3, <2>1, NameIsName DEF InQueue
    <3>4. CASE NameOf(s) = e
      <4>1. i \in 1 .. Len(rest)
        BY <3>1, <3>2, <3>4, <2>2
      <4> QED
        BY <4>1, <3>1, <3>2, <3>4, <2>2, <1>6
    <3> QED
      BY <3>3, <3>4
  <2>8. queue' \in [Name -> Seq(Transfer)] /\ status' \in [Transfer -> Status]
    BY <1>1, <1>7, <2>2 DEF TypeOK, Status
  <2>9. Lists'
    BY <2>5, <2>6, <2>7 DEF Lists
  <2> QED
    BY <1>1, <1>7, <2>3, <2>4, <2>8, <2>9 DEF TypeOK
<1>8. CASE /\ queue' = [queue EXCEPT ![e] = rest] /\ status' = [status EXCEPT ![t] = "idle"]
           /\ t \in refused' \/ ~IsResubmit(t)
  <2>1. queue'[e] = rest /\ \A f \in Name : f # e => queue'[f] = queue[f]
    BY <1>8 DEF TypeOK
  <2>2. ASSUME NEW s \in Transfer, s # t, InQueue(s) PROVE InQueue(s)'
    <3>1. CASE NameOf(s) # e
      BY <2>1, <2>2, <3>1, NameIsName DEF InQueue
    <3>2. CASE NameOf(s) = e
      BY <2>1, <2>2, <3>2, <1>5 DEF InQueue
    <3> QED
      BY <3>1, <3>2
  <2>3. \A s \in Transfer : status'[s] = "idle" => ~InQueue(s)'
    <3> SUFFICES ASSUME NEW s \in Transfer, status'[s] = "idle", InQueue(s)' PROVE FALSE
      OBVIOUS
    <3>1. PICK i \in 1 .. Len(queue'[NameOf(s)]) : queue'[NameOf(s)][i] = s
      BY DEF InQueue
    <3>2. CASE s = t
      BY <3>1, <3>2, <2>1, <1>1
    <3>3. CASE s # t
      <4>1. ~InQueue(s)
        BY <1>8, <3>3 DEF TypeOK, Lists
      <4>2. CASE NameOf(s) # e
        BY <4>1, <4>2, <3>1, <2>1, NameIsName DEF InQueue
      <4>3. CASE NameOf(s) = e
        BY <4>1, <4>3, <3>1, <2>1, <1>6
      <4> QED
        BY <4>2, <4>3
    <3> QED
      BY <3>2, <3>3
  <2>4. \A f \in Name : \A i \in 1 .. Len(queue'[f]) : NameOf(queue'[f][i]) = f
    BY <2>1, <1>4 DEF Lists
  <2>5. \A f \in Name : \A i, j \in 1 .. Len(queue'[f]) : queue'[f][i] = queue'[f][j] => i = j
    BY <2>1, <1>3 DEF Lists
  <2>6. queue' \in [Name -> Seq(Transfer)] /\ status' \in [Transfer -> Status]
    BY <1>1, <1>8 DEF TypeOK, Status
  <2>7. Lists'
    BY <2>3, <2>4, <2>5 DEF Lists
  <2> QED
    BY <1>1, <1>8, <2>2, <2>6, <2>7 DEF TypeOK
<1> QED
  BY <1>2, <1>7, <1>8

LEMMA SameLists ==
    ASSUME Lists, UNCHANGED queue,
           \A s \in Transfer : status'[s] = "idle" => status[s] = "idle"
    PROVE  Lists' /\ \A s \in Transfer : InQueue(s)' = InQueue(s)
<1>1. \A s \in Transfer : InQueue(s)' = InQueue(s)
  BY DEF InQueue
<1> QED
  BY <1>1 DEF Lists

LEMMA InitEstablishes == Init => IInv
<1> SUFFICES ASSUME Init PROVE IInv
  OBVIOUS
<1>1. TypeOK
  <2>1. queue \in [Name -> Seq(Transfer)]
    BY DEF Init
  <2>2. sent \in [Name -> 0 .. MaxSent] /\ got \in [Name -> SUBSET (1 .. MaxSent)]
    BY DEF Init
  <2>3. buffer \in [Transfer -> SUBSET (1 .. MaxSent)] /\ status \in [Transfer -> Status]
    BY DEF Init, Status
  <2> QED
    <3>1. p \in 1 .. TsCount + 2
      BY DEF Init
    <3> QED
      BY <2>1, <2>2, <2>3, <3>1 DEF Init, TypeOK, Phase
<1>2. Lists
  BY DEF Init, Lists, InQueue, Name, NameOf
<1>3. Progress
  BY DEF Init, Progress
<1> QED
  BY <1>1, <1>2, <1>3 DEF Init, IInv, EveryoneWaits, AllFreed, NoneReportedFreed

LEMMA TypeStep == IInv /\ [Next]_vars => TypeOK'
<1> SUFFICES ASSUME IInv, [Next]_vars PROVE TypeOK'
  OBVIOUS
<1>0. TypeOK /\ Lists /\ Progress
  BY DEF IInv
<1>1. CASE Allocate
  BY <1>0, <1>1 DEF Allocate, TypeOK, Transfer, libusb
<1>2. CASE StartTransfer
  <2>1. CASE p \in usb_transfers
    <3>1. status[p] = "idle"
      BY <1>0, <1>2 DEF StartTransfer, Progress, Transfer
    <3>2. queue' \in [Name -> Seq(Transfer)] /\ status' \in [Transfer -> Status]
      BY <1>0, <1>2, <2>1, <3>1, Submission DEF StartTransfer
    <3>3. refused' \subseteq Transfer /\ buffer' \in [Transfer -> SUBSET (1 .. MaxSent)]
      BY <1>0, <1>2, <2>1 DEF StartTransfer, Submit, TypeOK
    <3> QED
      BY <1>0, <1>2, <3>2, <3>3 DEF StartTransfer, TypeOK, Transfer
  <2>2. CASE p \notin usb_transfers
    <3>1. p + 1 \in 1 .. TsCount + 2
      BY <1>2 DEF StartTransfer, Transfer
    <3>2. UNCHANGED <<status, queue, buffer, refused>>
      BY <1>2, <2>2 DEF StartTransfer, libusb
    <3> QED
      BY <1>0, <1>2, <3>1, <3>2 DEF StartTransfer, TypeOK
  <2> QED
    BY <2>1, <2>2
<1>3. CASE CancelTransfer
  BY <1>0, <1>3 DEF CancelTransfer, Cancelled, TypeOK, Transfer, Status
<1>4. CASE FreeTransfer
  BY <1>0, <1>4 DEF FreeTransfer, TypeOK, Transfer, Status
<1>5. CASE Proceed
  <2>1. main' \in {"init", "start", "loop", "stop", "cancel", "free", "close", "exited"}
    BY <1>0, <1>5 DEF Proceed, After, TypeOK, Phase
  <2> QED
    BY <1>0, <1>5, <2>1 DEF Proceed, TypeOK, Phase, libusb
<1>6. CASE Signal
  BY <1>0, <1>6 DEF Signal, TypeOK, host, libusb
<1>7. CASE Unplug
  BY <1>0, <1>7 DEF Unplug, TypeOK, Status, host
<1>8. ASSUME NEW e \in Name, Send(e) PROVE TypeOK'
  <2>1. sent[e] + 1 \in 1 .. MaxSent /\ sent' \in [Name -> 0 .. MaxSent]
    BY <1>0, <1>8 DEF Send, TypeOK
  <2>2. status' \in [Transfer -> Status] /\ buffer' \in [Transfer -> SUBSET (1 .. MaxSent)]
    <3>1. CASE UNCHANGED <<status, buffer>>
      BY <1>0, <3>1 DEF TypeOK
    <3>2. ASSUME NEW t \in Filled(e),
                 buffer' = [buffer EXCEPT ![t] = @ \union {sent[e] + 1}],
                 status' = [status EXCEPT ![t] = "completed"] \/ UNCHANGED status
          PROVE  /\ status' \in [Transfer -> Status]
                 /\ buffer' \in [Transfer -> SUBSET (1 .. MaxSent)]
      BY <1>0, <2>1, <3>2, FilledIs DEF TypeOK, Status
    <3> QED
      BY <1>8, <3>1, <3>2 DEF Send
  <2> QED
    BY <1>0, <1>8, <2>1, <2>2 DEF Send, TypeOK, host
<1>9. ASSUME NEW e \in Name, Fail(e) PROVE TypeOK'
  BY <1>0, <1>9, FilledIs DEF Fail, TypeOK, Status, host
<1>10. ASSUME NEW e \in Name, Report(e) PROVE TypeOK'
  <2>1. PICK t \in Transfer : /\ t = Head(queue[e])
                              /\ queue' \in [Name -> Seq(Transfer)]
                              /\ status' \in [Transfer -> Status]
    BY <1>0, <1>10, Reporting
  <2>2. /\ touched_freed' \in BOOLEAN
        /\ got' = [got EXCEPT ![e] = IF status[t] = "completed" THEN @ \union buffer[t] ELSE @]
        /\ buffer' = [buffer EXCEPT ![t] = {}]
        /\ refused' \in {refused, refused \union {t}}
    BY <1>0, <1>10, <2>1 DEF Report, TypeOK
  <2>3. /\ got' \in [Name -> SUBSET (1 .. MaxSent)] /\ buffer' \in [Transfer -> SUBSET (1 .. MaxSent)]
        /\ refused' \subseteq Transfer
    BY <1>0, <2>1, <2>2 DEF TypeOK
  <2> QED
    BY <1>0, <1>10, <2>1, <2>2, <2>3 DEF Report, TypeOK, host
<1>11. CASE UNCHANGED vars
  BY <1>0, <1>11 DEF vars, TypeOK, host, libusb
<1> QED
  BY <1>1, <1>2, <1>3, <1>4, <1>5, <1>6, <1>7, <1>8, <1>9, <1>10, <1>11 DEF Next, Main

LEMMA ListsStep == IInv /\ [Next]_vars => Lists'
<1> SUFFICES ASSUME IInv, [Next]_vars PROVE Lists'
  OBVIOUS
<1>0. TypeOK /\ Lists /\ Progress
  BY DEF IInv
<1>1. CASE UNCHANGED <<queue, status>>
  BY <1>0, <1>1, SameLists
<1>2. CASE StartTransfer
  <2>1. CASE p \in usb_transfers
    <3>1. status[p] = "idle" /\ Submit(p) /\ p \in Transfer
      BY <1>0, <1>2, <2>1 DEF StartTransfer, Progress, Transfer
    <3> QED
      BY <1>0, <3>1, Submission
  <2>2. CASE p \notin usb_transfers
    BY <1>1, <1>2, <2>2 DEF StartTransfer, libusb
  <2> QED
    BY <2>1, <2>2
<1>3. CASE CancelTransfer
  BY <1>0, <1>3, SameLists DEF CancelTransfer, Cancelled, TypeOK
<1>4. CASE FreeTransfer
  BY <1>0, <1>4, SameLists DEF FreeTransfer, TypeOK
<1>5. CASE Unplug
  BY <1>0, <1>5, SameLists DEF Unplug, TypeOK
<1>6. ASSUME NEW e \in Name, Send(e) PROVE Lists'
  BY <1>0, <1>1, <1>6, SameLists DEF Send, TypeOK
<1>7. ASSUME NEW e \in Name, Fail(e) PROVE Lists'
  BY <1>0, <1>7, SameLists DEF Fail, TypeOK
<1>8. ASSUME NEW e \in Name, Report(e) PROVE Lists'
  BY <1>0, <1>8, Reporting
<1>9. CASE Allocate \/ Proceed \/ Signal \/ UNCHANGED vars
  BY <1>1, <1>9 DEF Allocate, Proceed, Signal, vars, libusb
<1> QED
  BY <1>2, <1>3, <1>4, <1>5, <1>6, <1>7, <1>8, <1>9 DEF Next, Main

\* The lists, the phases and what is expected of the transfers in each.
LEMMA ProgressStep ==
    IInv /\ [Next]_vars => Progress' /\ EveryoneWaits' /\ AllFreed' /\ NoneReportedFreed'
<1> SUFFICES ASSUME IInv, [Next]_vars
             PROVE  Progress' /\ EveryoneWaits' /\ AllFreed' /\ NoneReportedFreed'
  OBVIOUS
<1>0. TypeOK /\ Lists /\ Progress /\ EveryoneWaits /\ AllFreed /\ NoneReportedFreed
  BY DEF IInv
<1>a. EveryoneWaits <=> (main \in {"loop", "stop"} =>
          \A t \in usb_transfers : InQueue(t) \/ t \in refused \/ (NameOf(t) = "TS" /\ st_is_intterupted))
  BY DEF EveryoneWaits, InQueue
<1>b. EveryoneWaits' <=> (main' \in {"loop", "stop"} =>
          \A t \in usb_transfers' : InQueue(t)' \/ t \in refused' \/ (NameOf(t) = "TS" /\ st_is_intterupted'))
  BY DEF EveryoneWaits, InQueue
<1>c. usb_transfers \subseteq Transfer
  BY <1>0 DEF TypeOK
<1>1. CASE Allocate
  BY <1>0, <1>1, <1>a, <1>b DEF Allocate, libusb, Progress, AllFreed, NoneReportedFreed, Transfer
<1>2. CASE StartTransfer
  <2>1. CASE p \in usb_transfers
    <3>1. status[p] = "idle" /\ Submit(p) /\ p \in Transfer
      BY <1>0, <1>2, <2>1 DEF StartTransfer, Progress, Transfer
    <3>2. /\ \A s \in Transfer : s # p => status'[s] = status[s]
          /\ status'[p] \in {"idle", "flying"}
          /\ \A s \in Transfer : InQueue(s) => InQueue(s)'
          /\ \A s \in Transfer : s = p => InQueue(s)' \/ s \in refused'
          /\ refused \subseteq refused'
      <4>1. PICK t \in Transfer : t = p
        BY <3>1
      <4>2. status[t] = "idle" /\ Submit(t)
        BY <3>1, <4>1
      <4> QED
        BY <1>0, <4>1, <4>2, Submission DEF Submit
    <3>3. main = "start" /\ main' = "start" /\ usb_transfers' = usb_transfers /\ p' = p + 1
          /\ touched_freed' = touched_freed
      BY <1>2 DEF StartTransfer
    <3>4. Progress'
      BY <1>0, <1>c, <3>1, <3>2, <3>3 DEF Progress, TypeOK, Transfer
    <3> QED
      BY <1>0, <1>b, <3>3, <3>4 DEF AllFreed, NoneReportedFreed
  <2>2. CASE p \notin usb_transfers
    <3>1. UNCHANGED <<status, queue, refused, usb_transfers, touched_freed, main>> /\ p' = p + 1
          /\ main = "start"
      BY <1>2, <2>2 DEF StartTransfer, libusb
    <3>2. \A t \in Transfer : InQueue(t)' = InQueue(t)
      BY <3>1 DEF InQueue
    <3>3. Progress'
      BY <1>0, <1>c, <2>2, <3>1, <3>2 DEF Progress, TypeOK, Transfer
    <3> QED
      BY <1>0, <1>b, <3>1, <3>3 DEF AllFreed, NoneReportedFreed
  <2> QED
    BY <2>1, <2>2
<1>3. CASE CancelTransfer
  BY <1>0, <1>3, <1>b DEF CancelTransfer, Progress, AllFreed, NoneReportedFreed
<1>4. CASE FreeTransfer
  BY <1>0, <1>4, <1>b, <1>c DEF FreeTransfer, Progress, AllFreed, NoneReportedFreed, TypeOK, Transfer
<1>5. CASE Proceed
  <2>1. UNCHANGED <<status, queue, refused, usb_transfers, touched_freed, st_is_intterupted>>
        /\ main' = After(main) /\ p' = 1 /\ (main \in Loops => p = TsCount + 2) /\ main # "exited"
    BY <1>5 DEF Proceed, libusb
  <2>2. \A t \in Transfer : InQueue(t)' = InQueue(t)
    BY <2>1 DEF InQueue
  <2>3. \/ main = "init" /\ main' = "start"
        \/ main = "start" /\ main' = "loop"
        \/ main = "loop" /\ main' = "stop"
        \/ main = "stop" /\ main' \in {"cancel", "free"}
        \/ main = "cancel" /\ main' = "free"
        \/ main = "free" /\ main' = "close"
        \/ main = "close" /\ main' = "exited"
    BY <1>0, <2>1 DEF After, TypeOK, Phase
  <2>4. \A t \in usb_transfers : t \in Nat /\ t >= 1 /\ t < TsCount + 2
    BY <1>c DEF Transfer
  <2>5. Progress'
    BY <1>0, <1>c, <2>1, <2>2, <2>3, <2>4 DEF Progress, Transfer
  <2>6. EveryoneWaits'
    BY <1>0, <1>a, <1>b, <1>c, <2>1, <2>2, <2>3, <2>4 DEF Progress, Loops
  <2>7. AllFreed'
    BY <1>0, <2>1, <2>3, <2>4 DEF Progress, Loops, AllFreed
  <2> QED
    BY <1>0, <2>1, <2>5, <2>6, <2>7 DEF NoneReportedFreed
<1>6. CASE Signal
  BY <1>0, <1>6, <1>a, <1>b DEF Signal, host, libusb, Progress, AllFreed, NoneReportedFreed, InQueue
<1>7. CASE Unplug
  <2>1. UNCHANGED <<queue, refused, host, touched_freed, st_is_intterupted>>
        /\ \A t \in Transfer : status'[t] = status[t] \/ (status[t] = "flying" /\ status'[t] = "failed")
    BY <1>0, <1>7 DEF Unplug, TypeOK
  <2>2. \A t \in Transfer : InQueue(t)' = InQueue(t)
    BY <2>1 DEF InQueue
  <2> QED
    BY <1>0, <1>a, <1>b, <1>c, <2>1, <2>2 DEF host, Progress, AllFreed, NoneReportedFreed
<1>8. ASSUME NEW e \in Name, Send(e) \/ Fail(e)
      PROVE  Progress' /\ EveryoneWaits' /\ AllFreed' /\ NoneReportedFreed'
  <2>1. UNCHANGED <<queue, refused, host, touched_freed, st_is_intterupted>>
        /\ \A t \in Transfer : status'[t] = status[t]
                              \/ (status[t] = "flying" /\ status'[t] \in {"completed", "failed"})
    BY <1>0, <1>8, FilledIs DEF Send, Fail, TypeOK
  <2>2. \A t \in Transfer : InQueue(t)' = InQueue(t)
    BY <2>1 DEF InQueue
  <2> QED
    BY <1>0, <1>a, <1>b, <1>c, <2>1, <2>2 DEF host, Progress, AllFreed, NoneReportedFreed
<1>9. ASSUME NEW e \in Name, Report(e)
      PROVE  Progress' /\ EveryoneWaits' /\ AllFreed' /\ NoneReportedFreed'
  <2>1. PICK t \in Transfer :
            /\ t = Head(queue[e]) /\ NameOf(t) = e
            /\ \A s \in Transfer : s # t => status'[s] = status[s] /\ (InQueue(s) => InQueue(s)')
            /\ status'[t] \in {"idle", "flying"}
            /\ InQueue(t)' \/ t \in refused' \/ ~IsResubmit(t)
    BY <1>0, <1>9, Reporting
  <2>2. /\ main \in {"loop", "stop"} /\ UNCHANGED <<host, st_is_intterupted>>
        /\ touched_freed' = (touched_freed \/ status[t] = "freed") /\ refused \subseteq refused'
    BY <1>9, <2>1 DEF Report, HandlesEvents
  <2>3. status[t] \notin {"freed", "cancelled"}
    BY <1>0, <2>2 DEF Progress
  <2>4. ~IsResubmit(t) => NameOf(t) = "TS" /\ st_is_intterupted
    BY <2>3 DEF IsResubmit, CallbackReturns, NameOf
  <2>5. EveryoneWaits'
    BY <1>0, <1>a, <1>b, <1>c, <2>1, <2>2, <2>4 DEF host
  <2>6. Progress'
    BY <1>0, <2>1, <2>2 DEF host, Progress
  <2> QED
    BY <1>0, <2>2, <2>3, <2>5, <2>6 DEF host, AllFreed, NoneReportedFreed
<1>10. CASE UNCHANGED vars
  <2>1. \A t \in Transfer : InQueue(t)' = InQueue(t)
    BY <1>10 DEF vars, libusb, InQueue
  <2> QED
    BY <1>0, <1>10, <1>a, <1>b, <1>c, <2>1 DEF vars, libusb, host, Progress, AllFreed, NoneReportedFreed
<1> QED
  BY <1>1, <1>2, <1>3, <1>4, <1>5, <1>6, <1>7, <1>8, <1>9, <1>10 DEF Next, Main

THEOREM Invariance == Spec => []IInv
<1>1. IInv /\ [Next]_vars => IInv'
  BY TypeStep, ListsStep, ProgressStep DEF IInv
<1> QED
  BY <1>1, InitEstablishes, PTL DEF Spec

\* Type correctness, for every number of transfers (cusbfx2.c's lists).
THEOREM TypeCorrect == Spec => []TypeOK
  BY Invariance, PTL DEF IInv

\* libusb reports no transfer that was freed (main.c:692-716).
THEOREM ReportsNoneFreed == Spec => []NoneReportedFreed
  BY Invariance, PTL DEF IInv

\* No timeout and no error uses a transfer up (cusbfx2.c:357).
THEOREM AllStayInUse == Spec => []EveryoneWaits
  BY Invariance, PTL DEF IInv

\* Whatever becomes of them, all transfers are freed in the end (cusbfx2.c:460).
THEOREM FreesAll == Spec => []AllFreed
  BY Invariance, PTL DEF IInv

-----------------------------------------------------------------------------
(* The order of the data *)

\* Only what was sent is in a buffer or was given to a callback.
Units ==
    /\ \A t \in Transfer : buffer[t] \subseteq 1 .. sent[NameOf(t)]
    /\ \A e \in Name : got[e] \subseteq 1 .. sent[e]

\* What is in a transfer is older than what is in those behind it, and behind one
\* that still waits there is nothing.
Ordered ==
    \A e \in Name : \A i, j \in 1 .. Len(queue[e]) : i < j =>
        /\ \A u \in buffer[queue[e][i]], v \in buffer[queue[e][j]] : u < v
        /\ status[queue[e][i]] = "flying" => buffer[queue[e][j]] = {}

\* What the callback was given is older than anything that is in a transfer.
Later ==
    \A e \in Name : \A i \in 1 .. Len(queue[e]) :
        \A u \in got[e], v \in buffer[queue[e][i]] : u < v

OrderInv == Units /\ Ordered /\ Later

\* A transfer of a list is one, and of that endpoint.
LEMMA Listed ==
    ASSUME TypeOK, Lists, NEW e \in Name, NEW i \in 1 .. Len(queue[e])
    PROVE  queue[e][i] \in Transfer /\ NameOf(queue[e][i]) = e
<1>1. queue[e] \in Seq(Transfer)
  BY DEF TypeOK
<1> QED
  BY <1>1 DEF Lists

\* A step that lets the lists be, gives nothing to a callback and fills no buffer.
LEMMA OrderKept ==
    ASSUME IInv, OrderInv, UNCHANGED <<queue, buffer, sent, got>>,
           \A t \in Transfer : status'[t] = "flying" => status[t] = "flying"
    PROVE  OrderInv'
<1>0. TypeOK /\ Lists
  BY DEF IInv
<1>1. Units' /\ Later'
  BY DEF OrderInv, Units, Later
<1>2. Ordered'
  <2> SUFFICES ASSUME NEW e \in Name, NEW i \in 1 .. Len(queue[e]), NEW j \in 1 .. Len(queue[e]), i < j
               PROVE  /\ \A u \in buffer[queue[e][i]], v \in buffer[queue[e][j]] : u < v
                      /\ status'[queue[e][i]] = "flying" => buffer[queue[e][j]] = {}
    BY DEF Ordered
  <2>1. queue[e][i] \in Transfer
    BY <1>0, Listed
  <2> QED
    BY <2>1 DEF OrderInv, Ordered
<1> QED
  BY <1>1, <1>2 DEF OrderInv

\* A unit goes into the buffer that is filled.
LEMMA OrderFilled ==
    ASSUME IInv, OrderInv, NEW e \in Name, NEW t \in Filled(e),
           UNCHANGED <<queue, got>>,
           sent' = [sent EXCEPT ![e] = @ + 1],
           buffer' = [buffer EXCEPT ![t] = @ \union {sent[e] + 1}],
           \A s \in Transfer : status'[s] = "flying" => status[s] = "flying"
    PROVE  OrderInv'
<1>0. TypeOK /\ Lists /\ Units /\ Ordered /\ Later
  BY DEF IInv, OrderInv
<1>1. /\ t \in Transfer /\ status[t] = "flying" /\ NameOf(t) = e
  BY <1>0, FilledIs
<1>2. PICK k \in 1 .. Len(queue[e]) :
          queue[e][k] = t /\ \A l \in 1 .. k - 1 : status[queue[e][l]] # "flying"
  BY <1>0, FilledIs
<1>3. /\ buffer'[t] = buffer[t] \union {sent[e] + 1}
      /\ \A s \in Transfer : s # t => buffer'[s] = buffer[s]
      /\ sent'[e] = sent[e] + 1 /\ \A f \in Name : f # e => sent'[f] = sent[f]
      /\ \A f \in Name : sent[f] \in Nat
  BY <1>0, <1>1 DEF TypeOK
<1>4. Units'
  <2>1. \A s \in Transfer : buffer'[s] \subseteq 1 .. sent'[NameOf(s)]
    <3> SUFFICES ASSUME NEW s \in Transfer, NEW u \in buffer'[s] PROVE u \in 1 .. sent'[NameOf(s)]
      OBVIOUS
    <3>1. NameOf(s) \in Name
      BY NameIsName
    <3>2. u \in buffer[s] => u \in 1 .. sent[NameOf(s)]
      BY <1>0 DEF Units
    <3>3. u \in buffer[s] \/ (s = t /\ u = sent[e] + 1)
      BY <1>3
    <3> QED
      BY <1>1, <1>3, <3>1, <3>2, <3>3
  <2>2. \A f \in Name : got'[f] \subseteq 1 .. sent'[f]
    <3> SUFFICES ASSUME NEW f \in Name, NEW u \in got[f] PROVE u \in 1 .. sent'[f]
      OBVIOUS
    <3>1. u \in 1 .. sent[f]
      BY <1>0 DEF Units
    <3> QED
      BY <1>3, <3>1
  <2> QED
    BY <2>1, <2>2 DEF Units
<1>5. Ordered'
  <2> SUFFICES ASSUME NEW f \in Name, NEW i \in 1 .. Len(queue[f]), NEW j \in 1 .. Len(queue[f]), i < j
               PROVE  /\ \A u \in buffer'[queue[f][i]], v \in buffer'[queue[f][j]] : u < v
                      /\ status'[queue[f][i]] = "flying" => buffer'[queue[f][j]] = {}
    BY DEF Ordered
  <2>1. /\ queue[f][i] \in Transfer /\ NameOf(queue[f][i]) = f
        /\ queue[f][j] \in Transfer /\ NameOf(queue[f][j]) = f
    BY <1>0, Listed
  <2>2. /\ \A u \in buffer[queue[f][i]], v \in buffer[queue[f][j]] : u < v
        /\ status[queue[f][i]] = "flying" => buffer[queue[f][j]] = {}
    BY <1>0 DEF Ordered
  <2>3. CASE queue[f][i] # t /\ queue[f][j] # t
    BY <2>1, <2>2, <2>3, <1>3
  <2>4. CASE queue[f][i] = t
    <3>1. buffer[queue[f][j]] = {}
      BY <2>2, <2>4, <1>1
    <3>2. queue[f][j] # t
      <4>1. f = e
        BY <2>1, <2>4, <1>1
      <4> QED
        BY <2>4, <4>1, <1>0 DEF Lists
    <3> QED
      BY <3>1, <3>2, <2>1, <1>3
  <2>5. CASE queue[f][j] = t
    <3>1. f = e /\ j = k
      BY <2>1, <2>5, <1>0, <1>1, <1>2 DEF Lists
    <3>2. status[queue[f][i]] # "flying" /\ queue[f][i] # t
      BY <3>1, <1>1, <1>2
    <3>3. \A u \in buffer[queue[f][i]] : u < sent[e] + 1
      <4>1. \A u \in buffer[queue[f][i]] : u \in 1 .. sent[e]
        BY <2>1, <3>1, <1>0 DEF Units
      <4> QED
        BY <4>1, <1>3
    <3> QED
      BY <2>1, <2>2, <2>5, <3>2, <3>3, <1>3
  <2> QED
    BY <2>3, <2>4, <2>5
<1>6. Later'
  <2> SUFFICES ASSUME NEW f \in Name, NEW i \in 1 .. Len(queue[f]), NEW u \in got[f],
                      NEW v \in buffer'[queue[f][i]]
               PROVE  u < v
    BY DEF Later
  <2>1. queue[f][i] \in Transfer /\ NameOf(queue[f][i]) = f
    BY <1>0, Listed
  <2>2. CASE v \in buffer[queue[f][i]]
    BY <1>0, <2>2 DEF Later
  <2>3. CASE queue[f][i] = t /\ v = sent[e] + 1
    <3>1. f = e /\ u \in 1 .. sent[e]
      BY <2>1, <2>3, <1>0, <1>1 DEF Units
    <3> QED
      BY <2>3, <3>1, <1>3
  <2> QED
    BY <2>1, <2>2, <2>3, <1>3
<1> QED
  BY <1>4, <1>5, <1>6 DEF OrderInv

\* A transfer is submitted with an empty buffer.
LEMMA OrderSubmitted ==
    ASSUME IInv, OrderInv, NEW t \in Transfer, status[t] = "idle", Submit(t), UNCHANGED <<sent, got>>
    PROVE  OrderInv'
<1> DEFINE e == NameOf(t)
<1>0. TypeOK /\ Lists /\ Units /\ Ordered /\ Later /\ e \in Name
  BY NameIsName DEF IInv, OrderInv
<1>1. /\ buffer'[t] = {} /\ \A s \in Transfer : s # t => buffer'[s] = buffer[s]
      /\ \A s \in Transfer : s # t => status'[s] = status[s]
  BY <1>0 DEF Submit, TypeOK
<1>2. \A f \in Name : /\ queue'[f] \in {queue[f], Append(queue[f], t)}
                       /\ queue[f] \in Seq(Transfer)
  BY <1>0 DEF Submit, TypeOK
<1>3. \A f \in Name : \A i \in 1 .. Len(queue'[f]) :
          \/ i = Len(queue[f]) + 1 /\ i = Len(queue'[f]) /\ queue'[f][i] = t
          \/ i \in 1 .. Len(queue[f]) /\ queue'[f][i] = queue[f][i] /\ queue[f][i] # t
  <2> SUFFICES ASSUME NEW f \in Name, NEW i \in 1 .. Len(queue'[f])
               PROVE  \/ i = Len(queue[f]) + 1 /\ i = Len(queue'[f]) /\ queue'[f][i] = t
                      \/ i \in 1 .. Len(queue[f]) /\ queue'[f][i] = queue[f][i] /\ queue[f][i] # t
    OBVIOUS
  <2>1. \A l \in 1 .. Len(queue[f]) : queue[f][l] # t
    <3> SUFFICES ASSUME NEW l \in 1 .. Len(queue[f]), queue[f][l] = t PROVE FALSE
      OBVIOUS
    <3>1. f = e
      BY <1>0, Listed
    <3> QED
      BY <1>0, <3>1 DEF Lists, InQueue
  <2>2. Len(queue[f]) \in Nat
    BY <1>2
  <2> QED
    BY <1>2, <2>1, <2>2
<1>4. Units'
  BY <1>0, <1>1 DEF Units
<1>5. Ordered'
  <2> SUFFICES ASSUME NEW f \in Name, NEW i \in 1 .. Len(queue'[f]), NEW j \in 1 .. Len(queue'[f]), i < j
               PROVE  /\ \A u \in buffer'[queue'[f][i]], v \in buffer'[queue'[f][j]] : u < v
                      /\ status'[queue'[f][i]] = "flying" => buffer'[queue'[f][j]] = {}
    BY DEF Ordered
  <2>1. i \in 1 .. Len(queue[f]) /\ queue'[f][i] = queue[f][i] /\ queue[f][i] # t
    BY <1>3
  <2>2. CASE queue'[f][j] = t
    BY <2>2, <1>1
  <2>3. CASE j \in 1 .. Len(queue[f]) /\ queue'[f][j] = queue[f][j] /\ queue[f][j] # t
    <3>1. queue[f][i] \in Transfer /\ queue[f][j] \in Transfer
      BY <1>0, <2>1, <2>3, Listed
    <3>2. /\ \A u \in buffer[queue[f][i]], v \in buffer[queue[f][j]] : u < v
          /\ status[queue[f][i]] = "flying" => buffer[queue[f][j]] = {}
      BY <1>0, <2>1, <2>3 DEF Ordered
    <3> QED
      BY <1>1, <2>1, <2>3, <3>1, <3>2
  <2> QED
    BY <1>3, <2>2, <2>3
<1>6. Later'
  <2> SUFFICES ASSUME NEW f \in Name, NEW i \in 1 .. Len(queue'[f]), NEW u \in got[f],
                      NEW v \in buffer'[queue'[f][i]]
               PROVE  u < v
    BY DEF Later
  <2>1. i \in 1 .. Len(queue[f]) /\ queue'[f][i] = queue[f][i] /\ queue[f][i] # t
    BY <1>1, <1>3
  <2>2. queue[f][i] \in Transfer
    BY <1>0, <2>1, Listed
  <2> QED
    BY <1>0, <1>1, <2>1, <2>2 DEF Later
<1> QED
  BY <1>4, <1>5, <1>6 DEF OrderInv

\* A report empties the buffer, and gives what was in it to the callback if the
\* transfer was complete.
LEMMA OrderReported ==
    ASSUME IInv, OrderInv, NEW e \in Name, Report(e)
    PROVE  OrderInv'
<1>0. TypeOK /\ Lists /\ Units /\ Ordered /\ Later
  BY DEF IInv, OrderInv
<1>1. queue[e] # << >>
  BY DEF Report
<1> PICK t \in Transfer : t = Head(queue[e])
  BY <1>0, <1>1, Removal
<1> DEFINE rest == Tail(queue[e])
<1>2. /\ NameOf(t) = e /\ t = queue[e][1] /\ rest \in Seq(Transfer)
      /\ Len(queue[e]) \in Nat \ {0} /\ Len(rest) = Len(queue[e]) - 1
      /\ \A i \in 1 .. Len(rest) : rest[i] = queue[e][i + 1] /\ rest[i] # t
  BY <1>0, <1>1, Removal
<1>3. /\ buffer'[t] = {} /\ \A s \in Transfer : s # t => buffer'[s] = buffer[s]
      /\ \A s \in Transfer : s # t => status'[s] = status[s]
      /\ got'[e] \in {got[e], got[e] \union buffer[t]} /\ \A f \in Name : f # e => got'[f] = got[f]
      /\ sent' = sent
  BY <1>0 DEF Report, TypeOK
<1>4. /\ queue'[e] \in {rest, Append(rest, t)}
      /\ \A f \in Name : f # e => queue'[f] = queue[f]
  BY <1>0 DEF Report, TypeOK
<1> HIDE DEF rest
\* Where an element of a list was before.
<1>5. \A f \in Name : \A i \in 1 .. Len(queue'[f]) :
          \/ queue'[f][i] = t /\ i = Len(queue'[f])
          \/ /\ queue'[f][i] # t
             /\ \E k \in 1 .. Len(queue[f]) : k >= i /\ k - i = (IF f = e THEN 1 ELSE 0)
                                            /\ queue'[f][i] = queue[f][k]
  <2> SUFFICES ASSUME NEW f \in Name, NEW i \in 1 .. Len(queue'[f])
               PROVE  \/ queue'[f][i] = t /\ i = Len(queue'[f])
                      \/ /\ queue'[f][i] # t
                         /\ \E k \in 1 .. Len(queue[f]) : k >= i /\ k - i = (IF f = e THEN 1 ELSE 0)
                                                        /\ queue'[f][i] = queue[f][k]
    OBVIOUS
  <2>1. CASE f # e
    <3>1. i \in 1 .. Len(queue[f]) /\ queue'[f][i] = queue[f][i]
      BY <1>4, <2>1
    <3>2. NameOf(queue[f][i]) = f
      BY <1>0, <3>1, Listed
    <3>3. i >= i /\ i - i = 0 /\ queue'[f][i] # t
      BY <1>2, <2>1, <3>1, <3>2
    <3> QED
      BY <2>1, <3>1, <3>3
  <2>2. CASE f = e
    <3>1. Len(rest) \in Nat
      BY <1>2
    <3>2. \/ i \in 1 .. Len(rest) /\ queue'[e][i] = rest[i]
          \/ i = Len(rest) + 1 /\ i = Len(queue'[e]) /\ queue'[e][i] = t
      <4>1. CASE queue'[e] = rest
        BY <2>2, <3>1, <4>1
      <4>2. CASE queue'[e] = Append(rest, t)
        <5>1. /\ Len(queue'[e]) = Len(rest) + 1 /\ queue'[e][Len(rest) + 1] = t
              /\ \A l \in 1 .. Len(rest) : queue'[e][l] = rest[l]
          BY <1>2, <3>1, <4>2
        <5>2. i \in 1 .. Len(rest) + 1
          BY <2>2, <5>1
        <5> QED
          BY <3>1, <5>1, <5>2
      <4> QED
        BY <1>4, <4>1, <4>2
    <3>3. CASE i \in 1 .. Len(rest) /\ queue'[e][i] = rest[i]
      <4>1. i + 1 \in 1 .. Len(queue[e]) /\ i + 1 >= i /\ (i + 1) - i = 1
            /\ queue'[e][i] = queue[e][i + 1] /\ queue'[e][i] # t
        BY <1>2, <3>3
      <4> QED
        BY <2>2, <4>1
    <3> QED
      BY <2>2, <3>2, <3>3
  <2> QED
    BY <2>1, <2>2
<1>6. Units'
  <2>1. \A s \in Transfer : buffer'[s] \subseteq 1 .. sent'[NameOf(s)]
    BY <1>0, <1>3 DEF Units
  <2>2. \A f \in Name : got'[f] \subseteq 1 .. sent'[f]
    BY <1>0, <1>2, <1>3 DEF Units
  <2> QED
    BY <2>1, <2>2 DEF Units
<1>7. Ordered'
  <2> SUFFICES ASSUME NEW f \in Name, NEW i \in 1 .. Len(queue'[f]), NEW j \in 1 .. Len(queue'[f]), i < j
               PROVE  /\ \A u \in buffer'[queue'[f][i]], v \in buffer'[queue'[f][j]] : u < v
                      /\ status'[queue'[f][i]] = "flying" => buffer'[queue'[f][j]] = {}
    BY DEF Ordered
  <2>1. queue'[f][i] # t
    BY <1>5
  <2>2. PICK k \in 1 .. Len(queue[f]) : k - i = (IF f = e THEN 1 ELSE 0) /\ queue'[f][i] = queue[f][k]
    BY <1>5, <2>1
  <2>3. CASE queue'[f][j] = t
    BY <2>3, <1>3
  <2>4. CASE queue'[f][j] # t
    <3>1. PICK l \in 1 .. Len(queue[f]) : l - j = (IF f = e THEN 1 ELSE 0) /\ queue'[f][j] = queue[f][l]
      BY <1>5, <2>4
    <3>2. k < l
      BY <2>2, <3>1
    <3>3. queue[f][k] \in Transfer /\ queue[f][l] \in Transfer
      BY <1>0, Listed
    <3>4. /\ \A u \in buffer[queue[f][k]], v \in buffer[queue[f][l]] : u < v
          /\ status[queue[f][k]] = "flying" => buffer[queue[f][l]] = {}
      BY <1>0, <3>2 DEF Ordered
    <3> QED
      BY <1>3, <2>1, <2>2, <2>4, <3>1, <3>3, <3>4
  <2> QED
    BY <2>3, <2>4
<1>8. Later'
  <2> SUFFICES ASSUME NEW f \in Name, NEW i \in 1 .. Len(queue'[f]), NEW u \in got'[f],
                      NEW v \in buffer'[queue'[f][i]]
               PROVE  u < v
    BY DEF Later
  <2>1. queue'[f][i] # t
    BY <1>3
  <2>2. PICK k \in 1 .. Len(queue[f]) : k >= i /\ k - i = (IF f = e THEN 1 ELSE 0)
                                       /\ queue'[f][i] = queue[f][k]
    BY <1>5, <2>1
  <2>3. queue[f][k] \in Transfer /\ v \in buffer[queue[f][k]]
    BY <1>0, <1>3, <2>1, <2>2, Listed
  <2>4. CASE u \in got[f]
    BY <1>0, <2>3, <2>4 DEF Later
  <2>5. CASE f = e /\ u \in buffer[t]
    <3>1. 1 \in 1 .. Len(queue[e]) /\ 1 < k /\ queue[e][1] = t
      BY <1>2, <2>2, <2>5
    <3> QED
      BY <1>0, <2>2, <2>3, <2>5, <3>1 DEF Ordered
  <2> QED
    BY <1>3, <2>4, <2>5
<1> QED
  BY <1>6, <1>7, <1>8 DEF OrderInv

LEMMA OrderStep == IInv /\ OrderInv /\ [Next]_vars => OrderInv'
<1> SUFFICES ASSUME IInv, OrderInv, [Next]_vars PROVE OrderInv'
  OBVIOUS
<1>0. TypeOK /\ Lists /\ Progress
  BY DEF IInv
<1>1. CASE Allocate \/ Proceed \/ Signal \/ UNCHANGED vars
  BY <1>1, OrderKept DEF Allocate, Proceed, Signal, vars, libusb
<1>2. CASE CancelTransfer \/ FreeTransfer \/ Unplug
  <2>1. UNCHANGED <<queue, buffer, sent, got>>
    BY <1>2 DEF CancelTransfer, FreeTransfer, Unplug
  <2>2. \A t \in Transfer : status'[t] = "flying" => status[t] = "flying"
    BY <1>0, <1>2 DEF CancelTransfer, FreeTransfer, Unplug, Cancelled, TypeOK
  <2> QED
    BY <2>1, <2>2, OrderKept
<1>3. CASE StartTransfer
  <2>1. CASE p \in usb_transfers
    <3>1. status[p] = "idle" /\ Submit(p) /\ p \in Transfer /\ UNCHANGED <<sent, got>>
      BY <1>0, <1>3, <2>1 DEF StartTransfer, Progress, Transfer
    <3> QED
      BY <3>1, OrderSubmitted
  <2>2. CASE p \notin usb_transfers
    BY <1>3, <2>2, OrderKept DEF StartTransfer, libusb
  <2> QED
    BY <2>1, <2>2
<1>4. ASSUME NEW e \in Name, Send(e) PROVE OrderInv'
  <2>1. CASE UNCHANGED <<status, buffer>>
    <3>1. /\ UNCHANGED <<queue, got>> /\ sent' = [sent EXCEPT ![e] = @ + 1]
      BY <1>4 DEF Send
    <3>2. \A f \in Name : sent[f] \in Nat /\ sent'[f] >= sent[f] /\ sent'[f] \in Nat
      BY <1>0, <3>1 DEF TypeOK
    <3>3. Units'
      <4>1. \A f \in Name : 1 .. sent[f] \subseteq 1 .. sent'[f]
        BY <3>2
      <4> QED
        BY <2>1, <3>1, <4>1, NameIsName DEF OrderInv, Units
    <3> QED
      BY <2>1, <3>1, <3>3 DEF OrderInv, Ordered, Later
  <2>2. ASSUME NEW t \in Filled(e),
               buffer' = [buffer EXCEPT ![t] = @ \union {sent[e] + 1}],
               status' = [status EXCEPT ![t] = "completed"] \/ UNCHANGED status
        PROVE  OrderInv'
    <3>1. \A s \in Transfer : status'[s] = "flying" => status[s] = "flying"
      BY <1>0, <2>2 DEF TypeOK
    <3>2. UNCHANGED <<queue, got>> /\ sent' = [sent EXCEPT ![e] = @ + 1]
      BY <1>4 DEF Send
    <3> QED
      BY <2>2, <3>1, <3>2, OrderFilled
  <2> QED
    BY <1>4, <2>1, <2>2 DEF Send
<1>5. ASSUME NEW e \in Name, Fail(e) PROVE OrderInv'
  <2>1. UNCHANGED <<queue, buffer, sent, got>>
    BY <1>5 DEF Fail
  <2>2. \A t \in Transfer : status'[t] = "flying" => status[t] = "flying"
    BY <1>0, <1>5 DEF Fail, TypeOK
  <2> QED
    BY <2>1, <2>2, OrderKept
<1>6. ASSUME NEW e \in Name, Report(e) PROVE OrderInv'
  BY <1>6, OrderReported
<1> QED
  BY <1>1, <1>2, <1>3, <1>4, <1>5, <1>6 DEF Next, Main

\* What may still be given: the units in transfers that wait or are complete.
LEMMA HeldIs ==
    ASSUME NEW e \in Name, NEW u
    PROVE  u \in Held(e) <=>
              \E i \in 1 .. Len(queue[e]) : /\ status[queue[e][i]] \in {"flying", "completed"}
                                            /\ u \in buffer[queue[e][i]]
  BY DEF Held

\* The step of the feed that a step of the program is, for either endpoint.
FeedSends(e) ==
    /\ sent'[e] = sent[e] + 1
    /\ Held(e)' \in {Held(e), Held(e) \union {sent'[e]}}
    /\ got'[e] = got[e]

FeedLoses(e) == Held(e)' \subseteq Held(e) /\ sent'[e] = sent[e] /\ got'[e] = got[e]

FeedGives(e) ==
    \E b \in SUBSET Held(e) :
        /\ \A u \in b, v \in Held(e) \ b : u < v
        /\ got'[e] = got[e] \union b
        /\ Held(e)' = Held(e) \ b
        /\ sent'[e] = sent[e]

FeedSteps(e) == FeedSends(e) \/ FeedLoses(e) \/ FeedGives(e)

\* Without data put into a buffer nothing more can be given.
LEMMA HeldShrinks ==
    ASSUME TypeOK, Lists, NEW e \in Name, UNCHANGED queue,
           \A t \in Transfer : buffer'[t] \subseteq buffer[t],
           \A t \in Transfer : status'[t] \in {"flying", "completed"} => status[t] \in {"flying", "completed"}
    PROVE  Held(e)' \subseteq Held(e)
<1> SUFFICES ASSUME NEW u \in Held(e)' PROVE u \in Held(e)
  OBVIOUS
<1>1. PICK i \in 1 .. Len(queue[e]) : /\ status'[queue[e][i]] \in {"flying", "completed"}
                                      /\ u \in buffer'[queue[e][i]]
  BY DEF Held
<1>2. queue[e][i] \in Transfer
  BY Listed
<1> QED
  BY <1>1, <1>2, HeldIs

LEMMA SendFeeds ==
    ASSUME TypeOK, Lists, NEW e \in Name, NEW f \in Name, Send(f)
    PROVE  FeedSteps(e)
<1>1. CASE e # f
  <2>1. /\ UNCHANGED <<queue, got>> /\ sent'[e] = sent[e]
        /\ \A t \in Transfer : NameOf(t) = e => buffer'[t] = buffer[t] /\ status'[t] = status[t]
    BY <1>1, FilledIs DEF Send, TypeOK
  <2>2. Held(e)' \subseteq Held(e)
    <3> SUFFICES ASSUME NEW u \in Held(e)' PROVE u \in Held(e)
      OBVIOUS
    <3>1. PICK i \in 1 .. Len(queue[e]) : /\ status'[queue[e][i]] \in {"flying", "completed"}
                                          /\ u \in buffer'[queue[e][i]]
      BY <2>1 DEF Held
    <3>2. queue[e][i] \in Transfer /\ NameOf(queue[e][i]) = e
      BY Listed
    <3> QED
      BY <2>1, <3>1, <3>2, HeldIs
  <2> QED
    BY <2>1, <2>2 DEF FeedSteps, FeedLoses
<1>2. CASE e = f
  <2>1. UNCHANGED <<queue, got>> /\ sent'[e] = sent[e] + 1
    BY <1>2 DEF Send, TypeOK
  <2>2. CASE UNCHANGED <<status, buffer>>
    <3>1. Held(e)' = Held(e)
      BY <2>1, <2>2 DEF Held
    <3> QED
      BY <2>1, <3>1 DEF FeedSteps, FeedSends
  <2>3. ASSUME NEW t \in Filled(e),
               buffer' = [buffer EXCEPT ![t] = @ \union {sent[e] + 1}],
               status' = [status EXCEPT ![t] = "completed"] \/ UNCHANGED status
        PROVE  FeedSteps(e)
    <3>1. t \in Transfer /\ status[t] = "flying"
      BY FilledIs
    <3>2. PICK k \in 1 .. Len(queue[e]) : queue[e][k] = t
      BY FilledIs
    <3>3. /\ buffer'[t] = buffer[t] \union {sent[e] + 1} /\ status'[t] \in {"flying", "completed"}
          /\ \A s \in Transfer : s # t => buffer'[s] = buffer[s] /\ status'[s] = status[s]
      BY <2>3, <3>1 DEF TypeOK
    <3>4. \A s \in Transfer : status'[s] \in {"flying", "completed"} <=> status[s] \in {"flying", "completed"}
      BY <3>1, <3>3
    <3>5. ASSUME NEW u PROVE u \in Held(e)' <=> u \in Held(e) \/ u = sent[e] + 1
      <4>1. u \in Held(e)' <=> \E i \in 1 .. Len(queue[e]) :
                                   /\ status'[queue[e][i]] \in {"flying", "completed"}
                                   /\ u \in buffer'[queue[e][i]]
        BY <2>1 DEF Held
      <4>2. \A i \in 1 .. Len(queue[e]) : queue[e][i] \in Transfer
        BY Listed
      <4> QED
        BY <3>1, <3>2, <3>3, <3>4, <4>1, <4>2, HeldIs
    <3>6. Held(e)' = Held(e) \union {sent[e] + 1}
      BY <3>5
    <3> QED
      BY <2>1, <3>6 DEF FeedSteps, FeedSends
  <2> QED
    BY <1>2, <2>2, <2>3 DEF Send
<1> QED
  BY <1>1, <1>2

LEMMA SubmitFeeds ==
    ASSUME TypeOK, Lists, NEW e \in Name, NEW t \in Transfer, status[t] = "idle", Submit(t),
           UNCHANGED <<sent, got>>
    PROVE  FeedSteps(e)
<1>1. /\ buffer'[t] = {} /\ \A s \in Transfer : s # t => buffer'[s] = buffer[s] /\ status'[s] = status[s]
      /\ queue'[e] \in {queue[e], Append(queue[e], t)} /\ queue[e] \in Seq(Transfer)
  BY DEF Submit, TypeOK
<1>2. Held(e)' \subseteq Held(e)
  <2> SUFFICES ASSUME NEW u \in Held(e)' PROVE u \in Held(e)
    OBVIOUS
  <2>1. PICK i \in 1 .. Len(queue'[e]) : /\ status'[queue'[e][i]] \in {"flying", "completed"}
                                         /\ u \in buffer'[queue'[e][i]]
    BY DEF Held
  <2>2. queue'[e][i] # t
    BY <1>1, <2>1
  <2>3. i \in 1 .. Len(queue[e]) /\ queue'[e][i] = queue[e][i]
    BY <1>1, <2>2
  <2>4. queue[e][i] \in Transfer
    BY <2>3, Listed
  <2> QED
    BY <1>1, <2>1, <2>2, <2>3, <2>4, HeldIs
<1> QED
  BY <1>2 DEF FeedSteps, FeedLoses

LEMMA ReportFeeds ==
    ASSUME IInv, OrderInv, NEW e \in Name, NEW f \in Name, Report(f)
    PROVE  FeedSteps(e)
<1>0. TypeOK /\ Lists /\ Units /\ Ordered
  BY DEF IInv, OrderInv
<1>1. queue[f] # << >>
  BY DEF Report
<1> PICK t \in Transfer : t = Head(queue[f])
  BY <1>0, <1>1, Removal
<1> DEFINE rest == Tail(queue[f])
<1>2. /\ NameOf(t) = f /\ t = queue[f][1] /\ rest \in Seq(Transfer)
      /\ Len(queue[f]) \in Nat \ {0} /\ Len(rest) = Len(queue[f]) - 1
      /\ \A i \in 1 .. Len(rest) : rest[i] = queue[f][i + 1] /\ rest[i] # t
  BY <1>0, <1>1, Removal
<1>3. /\ buffer'[t] = {}
      /\ \A s \in Transfer : s # t => buffer'[s] = buffer[s] /\ status'[s] = status[s]
      /\ got'[f] = (IF status[t] = "completed" THEN got[f] \union buffer[t] ELSE got[f])
      /\ \A g \in Name : g # f => got'[g] = got[g] /\ queue'[g] = queue[g]
      /\ queue'[f] \in {rest, Append(rest, t)}
      /\ sent' = sent
  BY <1>0 DEF Report, TypeOK
<1> HIDE DEF rest
<1>4. CASE e # f
  <2>1. Held(e)' \subseteq Held(e)
    <3> SUFFICES ASSUME NEW u \in Held(e)' PROVE u \in Held(e)
      OBVIOUS
    <3>1. PICK i \in 1 .. Len(queue[e]) : /\ status'[queue[e][i]] \in {"flying", "completed"}
                                          /\ u \in buffer'[queue[e][i]]
      BY <1>3, <1>4 DEF Held
    <3>2. queue[e][i] \in Transfer /\ queue[e][i] # t
      BY <1>0, <1>2, <1>4, Listed
    <3> QED
      BY <1>3, <3>1, <3>2, HeldIs
  <2> QED
    BY <1>3, <1>4, <2>1 DEF FeedSteps, FeedLoses
<1>5. CASE e = f
  <2>1. ASSUME NEW u \in Held(e)'
        PROVE  \E k \in 1 .. Len(queue[e]) :
                  /\ k > 1 /\ status[queue[e][k]] \in {"flying", "completed"}
                  /\ u \in buffer[queue[e][k]]
    <3>1. PICK i \in 1 .. Len(queue'[e]) : /\ status'[queue'[e][i]] \in {"flying", "completed"}
                                           /\ u \in buffer'[queue'[e][i]]
      BY DEF Held
    <3>2. queue'[e][i] # t
      BY <1>3, <3>1
    <3>3. i \in 1 .. Len(rest) /\ queue'[e][i] = rest[i]
      <4>1. CASE queue'[e] = rest
        BY <4>1
      <4>2. CASE queue'[e] = Append(rest, t)
        <5>1. /\ Len(queue'[e]) = Len(rest) + 1 /\ queue'[e][Len(rest) + 1] = t
              /\ \A l \in 1 .. Len(rest) : queue'[e][l] = rest[l]
              /\ Len(rest) \in Nat
          BY <1>2, <4>2
        <5> QED
          BY <3>2, <5>1
      <4> QED
        BY <1>3, <1>5, <4>1, <4>2
    <3>4. i + 1 \in 1 .. Len(queue[e]) /\ i + 1 > 1 /\ queue'[e][i] = queue[e][i + 1]
      BY <1>2, <1>5, <3>3
    <3>5. queue[e][i + 1] \in Transfer /\ queue[e][i + 1] # t
      BY <1>0, <3>2, <3>4, Listed
    <3> QED
      BY <1>3, <3>1, <3>4, <3>5
  <2>2. Held(e)' \subseteq Held(e)
    BY <2>1, HeldIs
  <2>3. CASE status[t] = "completed"
    <3> DEFINE b == buffer[t]
    <3>1. b \subseteq Held(e)
      <4>1. 1 \in 1 .. Len(queue[e]) /\ queue[e][1] = t
        BY <1>2, <1>5
      <4> QED
        BY <2>3, <4>1, HeldIs
    <3>2. ASSUME NEW u \in b, NEW k \in 1 .. Len(queue[e]), k > 1, NEW v \in buffer[queue[e][k]]
          PROVE  u < v
      <4>1. 1 \in 1 .. Len(queue[e]) /\ queue[e][1] = t
        BY <1>2, <1>5
      <4> QED
        BY <1>0, <3>2, <4>1 DEF Ordered
    <3>3. \A u \in b, v \in Held(e) \ b : u < v
      <4> SUFFICES ASSUME NEW u \in b, NEW v \in Held(e) \ b PROVE u < v
        OBVIOUS
      <4>1. PICK k \in 1 .. Len(queue[e]) : v \in buffer[queue[e][k]]
        BY HeldIs
      <4>2. k # 1
        BY <4>1, <1>2, <1>5
      <4> QED
        BY <3>2, <4>1, <4>2
    <3>4. \A u \in Held(e)' : u \notin b
      <4> SUFFICES ASSUME NEW u \in Held(e)', u \in b PROVE FALSE
        OBVIOUS
      <4>1. u < u
        BY <2>1, <3>2
      <4>2. u \in Nat
        BY <1>0 DEF Units, TypeOK
      <4> QED
        BY <4>1, <4>2
    <3>5. \A u \in Held(e) \ b : u \in Held(e)'
      <4> SUFFICES ASSUME NEW u \in Held(e) \ b PROVE u \in Held(e)'
        OBVIOUS
      <4>1. PICK k \in 1 .. Len(queue[e]) : /\ status[queue[e][k]] \in {"flying", "completed"}
                                            /\ u \in buffer[queue[e][k]]
        BY HeldIs
      <4>2. k # 1 /\ queue[e][k] \in Transfer
        BY <1>0, <4>1, <1>2, <1>5, Listed
      <4>3. k - 1 \in 1 .. Len(rest) /\ rest[k - 1] = queue[e][k] /\ rest[k - 1] # t
        BY <1>2, <1>5, <4>2
      <4>4. k - 1 \in 1 .. Len(queue'[e]) /\ queue'[e][k - 1] = rest[k - 1]
        <5>1. CASE queue'[e] = rest
          BY <4>3, <5>1
        <5>2. CASE queue'[e] = Append(rest, t)
          BY <1>2, <4>3, <5>2
        <5> QED
          BY <1>3, <1>5, <5>1, <5>2
      <4>5. /\ status'[queue'[e][k - 1]] \in {"flying", "completed"}
            /\ u \in buffer'[queue'[e][k - 1]]
        BY <1>3, <4>1, <4>2, <4>3, <4>4
      <4> QED
        BY <4>4, <4>5 DEF Held
    <3>6. Held(e)' = Held(e) \ b
      BY <2>2, <3>4, <3>5
    <3>7. got'[e] = got[e] \union b
      BY <1>3, <1>5, <2>3
    <3> HIDE DEF b
    <3> QED
      BY <1>3, <3>1, <3>3, <3>6, <3>7 DEF FeedSteps, FeedGives
  <2>4. CASE status[t] # "completed"
    BY <1>3, <1>5, <2>2, <2>4 DEF FeedSteps, FeedLoses
  <2> QED
    BY <2>3, <2>4
<1> QED
  BY <1>4, <1>5

LEMMA StepFeeds ==
    ASSUME IInv, OrderInv, [Next]_vars, NEW e \in Name
    PROVE  FeedSteps(e)
<1>0. TypeOK /\ Lists /\ Progress
  BY DEF IInv
<1>1. ASSUME UNCHANGED <<queue, buffer, sent, got>>,
             \A t \in Transfer : status'[t] \in {status[t], "failed", "cancelled", "freed"}
      PROVE  FeedSteps(e)
  <2>1. \A t \in Transfer : status'[t] \in {"flying", "completed"} => status[t] \in {"flying", "completed"}
    BY <1>1
  <2>2. Held(e)' \subseteq Held(e)
    BY <1>0, <1>1, <2>1, HeldShrinks
  <2> QED
    BY <1>1, <2>2 DEF FeedSteps, FeedLoses
<1>2. ASSUME NEW f \in Name, Send(f) PROVE FeedSteps(e)
  BY <1>0, <1>2, SendFeeds
<1>3. ASSUME NEW f \in Name, Report(f) PROVE FeedSteps(e)
  BY <1>3, ReportFeeds
<1>4. CASE StartTransfer
  <2>1. CASE p \in usb_transfers
    <3>1. status[p] = "idle" /\ Submit(p) /\ p \in Transfer /\ UNCHANGED <<sent, got>>
      BY <1>0, <1>4, <2>1 DEF StartTransfer, Progress, Transfer
    <3> QED
      BY <1>0, <3>1, SubmitFeeds
  <2>2. CASE p \notin usb_transfers
    <3>1. UNCHANGED <<queue, status, buffer, sent, got>>
      BY <1>4, <2>2 DEF StartTransfer, libusb
    <3>2. Held(e)' = Held(e)
      BY <3>1 DEF Held
    <3> QED
      BY <3>1, <3>2 DEF FeedSteps, FeedLoses
  <2> QED
    BY <2>1, <2>2
<1>5. CASE Allocate \/ Proceed \/ Signal \/ UNCHANGED vars
  BY <1>1, <1>5 DEF Allocate, Proceed, Signal, vars, libusb
<1>6. CASE CancelTransfer \/ FreeTransfer \/ Unplug
  <2>1. UNCHANGED <<queue, buffer, sent, got>>
    BY <1>6 DEF CancelTransfer, FreeTransfer, Unplug
  <2>2. \A t \in Transfer : status'[t] \in {status[t], "failed", "cancelled", "freed"}
    BY <1>0, <1>6 DEF CancelTransfer, FreeTransfer, Unplug, Cancelled, TypeOK
  <2> QED
    BY <1>1, <2>1, <2>2
<1>7. ASSUME NEW f \in Name, Fail(f) PROVE FeedSteps(e)
  <2>1. UNCHANGED <<queue, buffer, sent, got>>
    BY <1>7 DEF Fail
  <2>2. \A t \in Transfer : status'[t] \in {status[t], "failed", "cancelled", "freed"}
    BY <1>0, <1>7 DEF Fail, TypeOK
  <2> QED
    BY <1>1, <2>1, <2>2
<1> QED
  BY <1>2, <1>3, <1>4, <1>5, <1>6, <1>7 DEF Next, Main

\* The callbacks are given what was sent in its order and once each
\* (cusbfx2.c:306-362): the transfers implement TransferFeed, for both endpoints.
THEOREM ImplementsFeed == Spec => FeedSpec
<1>1. Init => OrderInv /\ TsFeed!Init /\ BcasFeed!Init
  <2> SUFFICES ASSUME Init PROVE OrderInv /\ TsFeed!Init /\ BcasFeed!Init
    OBVIOUS
  <2>1. OrderInv
    BY NameIsName DEF Init, OrderInv, Units, Ordered, Later
  <2>2. \A e \in Name : Held(e) = {}
    BY DEF Init, Held
  <2> QED
    BY <2>1, <2>2 DEF Init, Name, TsFeed!Init, BcasFeed!Init
<1>2. IInv /\ OrderInv /\ [Next]_vars => OrderInv'
  BY OrderStep
<1>3. IInv /\ OrderInv /\ [Next]_vars => [TsFeed!Next]_TsFeed!vars
  <2> SUFFICES ASSUME IInv, OrderInv, [Next]_vars PROVE [TsFeed!Next]_TsFeed!vars
    OBVIOUS
  <2>1. FeedSteps("TS")
    BY StepFeeds DEF Name
  <2> QED
    BY <2>1 DEF FeedSteps, FeedSends, FeedLoses, FeedGives, TsFeed!Next, TsFeed!Send, TsFeed!Lose,
                TsFeed!Give, TsFeed!vars
<1>4. IInv /\ OrderInv /\ [Next]_vars => [BcasFeed!Next]_BcasFeed!vars
  <2> SUFFICES ASSUME IInv, OrderInv, [Next]_vars PROVE [BcasFeed!Next]_BcasFeed!vars
    OBVIOUS
  <2>1. FeedSteps("B-CAS")
    BY StepFeeds DEF Name
  <2> QED
    BY <2>1 DEF FeedSteps, FeedSends, FeedLoses, FeedGives, BcasFeed!Next, BcasFeed!Send, BcasFeed!Lose,
                BcasFeed!Give, BcasFeed!vars
<1> QED
  BY <1>1, <1>2, <1>3, <1>4, Invariance, PTL DEF Spec, FeedSpec, TsFeed!Spec, BcasFeed!Spec

-----------------------------------------------------------------------------
(***************************************************************************)
(* The opening of the device, for every number of devices and of records   *)
(* and every number of retries that exceeds the waits a restart takes by   *)
(* two.  The invariant follows the device the firmware was sent to: it is  *)
(* on the bus with the id that is searched for, or on its way back, and    *)
(* the searches that missed it are counted by the time it was away.        *)
(***************************************************************************)
\* The opener has a device open.
HandleHeld == pc \in {"check", "stop", "write", "open"} => usb_handle \in Handle

\* Until the upload nothing has happened to any device.
Untouched ==
    /\ pc \in {"search", "check"} => uploaded = NoHandle
    /\ pc \in {"search", "check", "stop"} =>
          \A d \in Device : on_bus[d] /\ fw[d] \in {"right", "other"}
    /\ pc \in {"check", "stop"} => matches[usb_handle[1]]
    /\ pc \in {"stop", "write"} => uploaded = usb_handle

\* A device the firmware was sent to is found, broken, or will come back.
Reachable ==
    \A d \in Device : uploaded # NoHandle /\ d = uploaded[1] =>
        \/ fw[d] = "broken"
        \/ on_bus[d] /\ matches[d]
        \/ fw[d] = "right" /\ ~on_bus[d]

\* The searches that did not find it fell into the time it was away, or did not have
\* the list of devices.
Counted ==
    \A d \in Device :
        uploaded # NoHandle /\ d = uploaded[1] /\ fw[d] \notin {"broken", "stopped"} =>
            /\ pc \in {"research", "sleep"} =>
                  count <= unlisted + (IF fw[d] # "right" THEN 0
                                       ELSE IF on_bus[d] \/ pc = "sleep" THEN away[d] + 1
                                       ELSE away[d])
            /\ pc = "failed" => unlisted >= RetryMax - AwayMax - 1

\* Inductive.
OpeningInv == OpeningTypeOK /\ HandleHeld /\ HandlesBalanced /\ Untouched /\ Reachable /\ Counted

-----------------------------------------------------------------------------

LEMMA OpeningInvBegins == OpeningInit => OpeningInv
  BY TimesAssumption DEF OpeningInit, OpeningInv, OpeningTypeOK, HandleHeld, HandlesBalanced,
     Untouched, Reachable, Counted, Firmware

LEMMA OpeningHostType ==
  ASSUME OpeningTypeOK, HandleHeld, Host
  PROVE  OpeningTypeOK' /\ HandleHeld'
<1>1. ASSUME NEW d \in Device, Open(d)
      PROVE  usb_handle' \in Handle /\ opened' \subseteq Handle
  BY <1>1 DEF OpeningTypeOK, Open, Handle
<1>2. CASE FirstSearch
  BY <1>1, <1>2 DEF OpeningTypeOK, HandleHeld, FirstSearch, Candidates, device
<1>3. CASE Check
  BY <1>3 DEF OpeningTypeOK, HandleHeld, Check, device
<1>4. CASE Stop
  BY <1>4 DEF OpeningTypeOK, HandleHeld, Stop, Firmware
<1>5. CASE Write
  <2> DEFINE d == usb_handle[1]
  <2>1. d \in Device
    BY <1>5 DEF HandleHeld, Handle, Write
  <2>2. /\ fw' \in [Device -> Firmware]
        /\ memory' \in [Device -> SUBSET Image]
    BY <1>5 DEF OpeningTypeOK, Write, Firmware
  <2> QED BY <1>5, <2>2 DEF OpeningTypeOK, HandleHeld, Write
<1>6. CASE Close
  BY <1>6, TimesAssumption DEF OpeningTypeOK, HandleHeld, Close, device
<1>7. CASE SearchAgain
  BY <1>1, <1>7, TimesAssumption DEF OpeningTypeOK, HandleHeld, SearchAgain, Candidates, device
<1>8. CASE ClaimsNull
  BY <1>8 DEF OpeningTypeOK, HandleHeld, ClaimsNull, device
<1> QED BY <1>2, <1>3, <1>4, <1>5, <1>6, <1>7, <1>8 DEF Host

LEMMA OthersType ==
  ASSUME OpeningTypeOK, HandleHeld,
         Pause \/ (\E d \in Device : Restart(d) \/ Vanish(d))
  PROVE  OpeningTypeOK' /\ HandleHeld'
<1>1. CASE Pause
  <2>1. away' \in [Device -> 0 .. AwayMax]
    BY <1>1, TimesAssumption DEF OpeningTypeOK, Pause
  <2> QED BY <1>1, <2>1 DEF OpeningTypeOK, HandleHeld, Pause
<1>2. ASSUME NEW d \in Device, Leave(d)
      PROVE  OpeningTypeOK' /\ HandleHeld'
  BY <1>2, TimesAssumption DEF OpeningTypeOK, HandleHeld, Leave, opener, Firmware
<1>3. ASSUME NEW d \in Device, Return(d)
      PROVE  OpeningTypeOK' /\ HandleHeld'
  BY <1>3 DEF OpeningTypeOK, HandleHeld, Return, opener
<1>4. ASSUME NEW d \in Device, Vanish(d)
      PROVE  OpeningTypeOK' /\ HandleHeld'
  BY <1>4 DEF OpeningTypeOK, HandleHeld, Vanish, opener
<1> QED BY <1>1, <1>2, <1>3, <1>4 DEF Restart

\* The host's steps.
LEMMA HostSteps ==
  ASSUME OpeningInv, Host
  PROVE  HandlesBalanced' /\ Untouched' /\ Reachable' /\ Counted'
<1> USE DEF OpeningInv
<1>1. ASSUME NEW d \in Device, Open(d)
      PROVE  usb_handle' = <<d, attachment[d]>> /\ opened' = opened \union {usb_handle'}
  BY <1>1 DEF Open
<1>2. CASE FirstSearch
  BY <1>1, <1>2 DEF FirstSearch, Candidates, device, HandlesBalanced, Untouched, Reachable,
     Counted
<1>3. CASE Check
  BY <1>3, NoHandleAssumption DEF Check, device, OpeningTypeOK, HandleHeld, Handle,
     HandlesBalanced, Untouched, Reachable, Counted
<1>4. CASE Stop
  BY <1>4 DEF Stop, OpeningTypeOK, HandleHeld, Handle, HandlesBalanced, Untouched,
     Reachable, Counted
<1>5. CASE Write
  <2>1. HandlesBalanced' /\ Untouched'
    BY <1>5 DEF Write, HandlesBalanced, Untouched
  <2>2. Reachable' /\ Counted'
    BY <1>5 DEF Write, OpeningTypeOK, HandleHeld, Handle, Untouched, Reachable, Counted
  <2> QED BY <2>1, <2>2
<1>6. CASE Close
  BY <1>6, TimesAssumption DEF Close, device, OpeningTypeOK, HandlesBalanced, Untouched,
     Reachable, Counted
<1>7. CASE SearchAgain
  <2>1. HandlesBalanced' /\ Untouched' /\ Reachable'
    BY <1>1, <1>7 DEF SearchAgain, Candidates, device, HandlesBalanced, Untouched, Reachable
  <2>2. Counted'
    BY <1>7, TimesAssumption DEF SearchAgain, Candidates, device, OpeningTypeOK, Firmware,
       Reachable, Counted
  <2> QED BY <2>1, <2>2
<1>8. CASE ClaimsNull
  BY <1>8 DEF ClaimsNull, device, HandlesBalanced, Untouched, Reachable, Counted
<1> QED BY <1>2, <1>3, <1>4, <1>5, <1>6, <1>7, <1>8 DEF Host

\* The devices' steps, and time.
LEMMA OtherSteps ==
  ASSUME OpeningInv, Pause \/ (\E d \in Device : Restart(d) \/ Vanish(d))
  PROVE  HandlesBalanced' /\ Untouched' /\ Reachable' /\ Counted'
<1> USE DEF OpeningInv
<1>1. CASE Pause
  <2>1. HandlesBalanced' /\ Untouched' /\ Reachable'
    BY <1>1 DEF Pause, HandlesBalanced, Untouched, Reachable
  <2>2. Counted'
    BY <1>1, TimesAssumption DEF Pause, OpeningTypeOK, Counted
  <2> QED BY <2>1, <2>2
<1>2. ASSUME NEW d \in Device, Leave(d)
      PROVE  HandlesBalanced' /\ Untouched' /\ Reachable' /\ Counted'
  <2>1. HandlesBalanced' /\ Untouched'
    BY <1>2 DEF Leave, opener, HandlesBalanced, Untouched
  <2>2. Reachable' /\ Counted'
    BY <1>2 DEF Leave, opener, OpeningTypeOK, Reachable, Counted
  <2> QED BY <2>1, <2>2
<1>3. ASSUME NEW d \in Device, Return(d)
      PROVE  HandlesBalanced' /\ Untouched' /\ Reachable' /\ Counted'
  <2>1. HandlesBalanced' /\ Untouched'
    BY <1>3 DEF Return, opener, OpeningTypeOK, HandleHeld, Handle, HandlesBalanced, Untouched
  <2>2. Reachable' /\ Counted'
    BY <1>3 DEF Return, opener, OpeningTypeOK, Reachable, Counted
  <2> QED BY <2>1, <2>2
<1>4. ASSUME NEW d \in Device, Vanish(d)
      PROVE  HandlesBalanced' /\ Untouched' /\ Reachable' /\ Counted'
  <2>1. HandlesBalanced' /\ Untouched'
    BY <1>4 DEF Vanish, opener, HandlesBalanced, Untouched
  <2>2. Reachable' /\ Counted'
    BY <1>4 DEF Vanish, opener, OpeningTypeOK, Reachable, Counted
  <2> QED BY <2>1, <2>2
<1> QED BY <1>1, <1>2, <1>3, <1>4 DEF Restart

LEMMA OpeningInvKept ==
  ASSUME OpeningInv, [OpeningNext]_opening_vars
  PROVE  OpeningInv'
<1>1. CASE UNCHANGED opening_vars
  BY <1>1 DEF opening_vars, opener, device, OpeningInv, OpeningTypeOK, HandleHeld, HandlesBalanced,
     Untouched, Reachable, Counted
<1>2. CASE Host
  BY <1>2, OpeningHostType, HostSteps DEF OpeningInv
<1>3. CASE Pause \/ (\E d \in Device : Restart(d) \/ Vanish(d))
  BY <1>3, OthersType, OtherSteps DEF OpeningInv
<1> QED BY <1>1, <1>2, <1>3 DEF OpeningNext

\* Whatever is lost and whenever devices leave and return, the invariant holds.
THEOREM OpeningInvariance == OpeningSpec => []OpeningInv
<1>1. OpeningInit => OpeningInv
  BY OpeningInvBegins
<1>2. OpeningInv /\ [OpeningNext]_opening_vars => OpeningInv'
  BY OpeningInvKept
<1> QED BY <1>1, <1>2, PTL DEF OpeningSpec

\* The variables keep their types, and the number of retries is not exceeded.
THEOREM OpeningTypeCorrect == OpeningSpec => []OpeningTypeOK
<1>1. OpeningInv => OpeningTypeOK
  BY DEF OpeningInv
<1> QED BY <1>1, OpeningInvariance, PTL

\* cusbfx2_open keeps no handle open but the one it is about to return.
THEOREM LeavesNoHandle == OpeningSpec => []HandlesBalanced
<1>1. OpeningInv => HandlesBalanced
  BY DEF OpeningInv
<1> QED BY <1>1, OpeningInvariance, PTL

\* A search after an upload fails only if the device has lost its program or the list
\* of devices could not be had too often.
THEOREM WaitsLongEnough == OpeningSpec => []FindsRestarted
<1>1. OpeningInv => FindsRestarted
  BY NoHandleAssumption DEF OpeningInv, OpeningTypeOK, Handle, Counted, FindsRestarted
<1> QED BY <1>1, OpeningInvariance, PTL
=============================================================================
