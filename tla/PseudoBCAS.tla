----------------------------- MODULE PseudoBCAS -----------------------------
(***************************************************************************)
(* The pseudo B-CAS card, lib/pseudo_bcas.c: it pairs the ECM requests and *)
(* responses the stream parser delivers, keeps the latest answered ones in *)
(* a queue, and answers the B25 decoder's questions from it.               *)
(*                                                                         *)
(* The main thread runs parse_packet, the decoder's thread proc_ecm; they  *)
(* share ecm_queue and its packets without a lock.  A list node and the    *)
(* ECMPacket it holds are one cell, for they are allocated and freed       *)
(* together.  The key of an ECM is represented by the ECM itself, so that  *)
(* a wrong key is one that differs from the data beside it.                *)
(*                                                                         *)
(* The packets come from BCASStream: every loss is flagged and followed by *)
(* a request (FirstIffGap and FirstIsRequest there).  The card behind the  *)
(* stream answers the last request it was asked, perhaps repeatedly.       *)
(***************************************************************************)
EXTENDS Integers, Sequences

CONSTANTS
    Ecm,            \* the ECMs that may be asked for
    NoEcm,          \* none of them
    NoResult, Failed, Garbage,  \* what a lookup returns instead of a key
    Cells,          \* the memory of the packets; bounds the runs
    NoCell,         \* NULL
    QueueLen,       \* ecm_queue_len
    MaxArrived      \* bounds the runs

ASSUME NoneAssumption == NoCell \notin Cells /\ NoEcm \notin Ecm
ASSUME ResultAssumption ==
    /\ {NoResult, Failed, Garbage} \cap (Ecm \cup {NoEcm}) = {}
    /\ NoResult \notin {Failed, Garbage} /\ Failed # Garbage
ASSUME QueueLenAssumption == QueueLen \in Nat
ASSUME MaxArrivedAssumption == MaxArrived \in Nat

VARIABLES
    mem,                    \* what a cell holds
    used,                   \* the cells allocated
    ecm_queue,
    pending_ecm_packet,
    n_ecm_arrived,
    main,                   \* "idle", "queued" in parse_packet, "released"
    lookup,                 \* proc_ecm: "idle", "search", "copy", "crashed"
    wanted,                 \* src_packet
    cursor,                 \* the list node the search is at
    result,                 \* what the last proc_ecm returned
    synced,                 \* the parser has delivered something
    asked,                  \* what the card was asked last
    arrived,                \* history: the ECMs answered, in order
    held,                   \* history: wanted was in the queue all the time
    undisturbed             \* history: no packet was popped since the lookup began

card   == <<mem, used, ecm_queue, pending_ecm_packet, n_ecm_arrived, main>>
search == <<lookup, wanted, cursor, result, held, undisturbed>>
feed   == <<synced, asked, arrived>>
vars   == <<card, search, feed>>

ToSet(s) == {s[i] : i \in 1 .. Len(s)}

\* The list nodes that can be reached.
Queued == ToSet(ecm_queue)

\* wanted has an entry in queue q.
Holds(q, e) == \E i \in 1 .. Len(q) : mem[q[i]].data = e

Init ==
    /\ mem = [c \in Cells |-> [data |-> NoEcm, key |-> NoEcm]]
    /\ used = {}
    /\ ecm_queue = << >>
    /\ pending_ecm_packet = NoCell
    /\ n_ecm_arrived = 0
    /\ main = "idle"
    /\ lookup = "idle" /\ wanted = NoEcm /\ cursor = NoCell
    /\ result = NoResult /\ held = FALSE /\ undisturbed = TRUE
    /\ synced = FALSE /\ asked = NoEcm /\ arrived = << >>

-----------------------------------------------------------------------------
(* parse_packet, on the main thread *)

\* The pending request, unless the parser has lost bytes since.
Kept(first) == IF first THEN NoCell ELSE pending_ecm_packet

\* Bug: a request that is still pending keeps its data.
DataOfOlder(c, e, first) ==
    [mem EXCEPT ![c].data = IF Kept(first) = NoCell THEN e ELSE @]

\* The data of the request are stored, over those of an older one.
DataStored(c, e, first) == [mem EXCEPT ![c].data = e]

\* An ECM request, the first packet after a loss if first is TRUE.  A
\* disposed packet is freed, so that its memory may be the new one's; a
\* request that was not answered is overwritten.
Request(e, first) ==
    LET live == used \ (IF Kept(first) = NoCell THEN {pending_ecm_packet} ELSE {})
    IN
    /\ main = "idle"
    /\ synced \/ first
    /\ \E c \in Cells :
          /\ IF Kept(first) = NoCell THEN c \notin live ELSE c = Kept(first)
          /\ pending_ecm_packet' = c
          /\ used' = live \cup {c}
          /\ mem' = DataStored(c, e, first)
    /\ synced' = TRUE
    /\ asked' = e
    /\ UNCHANGED <<ecm_queue, n_ecm_arrived, main, search, arrived>>

\* An ECM response: its key goes into the pending packet, and that to the tail of the
\* queue.
Answer(key) ==
    /\ main = "idle"
    /\ synced
    /\ pending_ecm_packet # NoCell
    /\ Len(arrived) < MaxArrived
    /\ mem' = [mem EXCEPT ![pending_ecm_packet].key = key]
    /\ ecm_queue' = Append(ecm_queue, pending_ecm_packet)
    /\ arrived' = Append(arrived, mem[pending_ecm_packet].data)
    /\ main' = "queued"
    /\ UNCHANGED <<used, pending_ecm_packet, n_ecm_arrived, search, synced, asked>>

\* The key is that of the request before.
Response == Answer(asked)

\* Bug: the queue is allowed one packet too many.
SurplusOfOne == Len(ecm_queue) > QueueLen + 1

\* The queue is longer than it may be.
Surplus == Len(ecm_queue) > QueueLen

\* Bug: the packet popped is not freed.
EvictAndLeak ==
    IF Surplus
    THEN /\ ecm_queue' = Tail(ecm_queue)
         /\ held' = (held /\ Holds(ecm_queue', wanted))
         /\ undisturbed' = FALSE
         /\ UNCHANGED used
    ELSE UNCHANGED <<ecm_queue, used, held, undisturbed>>

\* The oldest packet is popped and freed if the queue is too long.
Evict ==
    IF Surplus
    THEN /\ ecm_queue' = Tail(ecm_queue)
         /\ used' = used \ {Head(ecm_queue)}
         /\ held' = (held /\ Holds(ecm_queue', wanted))
         /\ undisturbed' = FALSE
    ELSE UNCHANGED <<ecm_queue, used, held, undisturbed>>

\* Bug: the packet queued is still pending.
RegisteredAndPending ==
    /\ main = "queued"
    /\ Evict
    /\ n_ecm_arrived' = n_ecm_arrived + 1
    /\ main' = "idle"
    /\ UNCHANGED <<mem, pending_ecm_packet, lookup, wanted, cursor, result, feed>>

\* The rest of parse_packet after the packet was queued.
Registered ==
    /\ main = "queued"
    /\ Evict
    /\ n_ecm_arrived' = n_ecm_arrived + 1
    /\ pending_ecm_packet' = NoCell
    /\ main' = "idle"
    /\ UNCHANGED <<mem, lookup, wanted, cursor, result, feed>>

\* release_b_cas_card: the queue is freed, the pending packet is not.  run
\* has joined the decoder's thread before.
Release ==
    /\ main = "idle"
    /\ lookup = "idle"
    /\ ecm_queue' = << >>
    /\ used' = used \ Queued
    /\ main' = "released"
    /\ UNCHANGED <<mem, pending_ecm_packet, n_ecm_arrived, search, feed>>

-----------------------------------------------------------------------------
(* proc_ecm_b_cas_card, on the decoder's thread *)

\* The lookup starts at the head of the list.
ProcEcm(e) ==
    /\ lookup = "idle" /\ main # "released"
    /\ wanted' = e
    /\ held' = Holds(ecm_queue, e) /\ undisturbed' = TRUE
    /\ IF ecm_queue = << >>
       THEN /\ result' = Failed
            /\ UNCHANGED <<lookup, cursor>>
       ELSE /\ lookup' = "search"
            /\ cursor' = Head(ecm_queue)
            /\ result' = NoResult
    /\ UNCHANGED <<card, feed>>

\* Bug: the search waits at the end of the list for what may come.
WaitForMore == UNCHANGED <<lookup, result, cursor>>

\* g_queue_find_custom returns NULL.
Fail ==
    /\ lookup' = "idle"
    /\ result' = Failed
    /\ cursor' = NoCell

\* Bug: the search ends one node early.
NextInAllButLast(i) == i + 2 <= Len(ecm_queue)

\* There is a node behind the i-th.
HasNext(i) == i + 1 <= Len(ecm_queue)

\* compare_ecm_packet finds no difference.
Matches(c) == mem[c].data = wanted

\* g_queue_find_custom looks at the packet under the cursor, which is in the queue.
Compare ==
    /\ lookup = "search"
    /\ \E i \in 1 .. Len(ecm_queue) :
          /\ ecm_queue[i] = cursor
          /\ \/ /\ Matches(cursor)
                /\ lookup' = "copy"
                /\ UNCHANGED <<cursor, result>>
             \/ /\ ~Matches(cursor)
                /\ HasNext(i)
                /\ cursor' = ecm_queue[i + 1]
                /\ UNCHANGED <<lookup, result>>
             \/ /\ ~Matches(cursor)
                /\ ~HasNext(i)
                /\ Fail
    /\ UNCHANGED <<wanted, held, undisturbed, card, feed>>

\* The same of a node that was popped and freed under the cursor: whatever
\* the freed memory holds is compared and followed.
CompareFreed ==
    /\ lookup = "search"
    /\ cursor \notin Queued
    /\ \/ lookup' \in {"copy", "crashed"} /\ UNCHANGED <<cursor, result>>
       \/ cursor' \in Queued /\ UNCHANGED <<lookup, result>>
       \/ Fail
    /\ UNCHANGED <<wanted, held, undisturbed, card, feed>>

\* The key is copied out of the packet found, which may be freed by now.
Copy ==
    /\ lookup = "copy"
    /\ IF cursor \in Queued
       THEN result' = mem[cursor].key
       ELSE result' \in Ecm \cup {Garbage}
    /\ lookup' = "idle"
    /\ cursor' = NoCell
    /\ UNCHANGED <<wanted, held, undisturbed, card, feed>>

Next ==
    \/ \E e \in Ecm, first \in BOOLEAN : Request(e, first)
    \/ Response
    \/ Registered
    \/ Release
    \/ \E e \in Ecm : ProcEcm(e)
    \/ Compare
    \/ CompareFreed
    \/ Copy

\* Neither the card nor the decoder has to ask; what was begun is ended.
Spec == Init /\ [][Next]_vars
             /\ WF_vars(Registered) /\ WF_vars(Compare \/ CompareFreed \/ Copy)

-----------------------------------------------------------------------------
(* Properties *)

Cell == [data : Ecm \cup {NoEcm}, key : Ecm \cup {NoEcm}]

\* The types of the fields of Context and of the lookup's locals.
TypeOK ==
    /\ mem \in [Cells -> Cell]
    /\ used \subseteq Cells
    /\ ecm_queue \in Seq(Cells)
    /\ Len(ecm_queue) <= QueueLen + 1
    /\ pending_ecm_packet \in Cells \cup {NoCell}
    /\ n_ecm_arrived \in Nat
    /\ main \in {"idle", "queued", "released"}
    /\ lookup \in {"idle", "search", "copy", "crashed"}
    /\ wanted \in Ecm \cup {NoEcm}
    /\ cursor \in Cells \cup {NoCell}
    /\ result \in Ecm \cup {NoEcm, NoResult, Failed, Garbage}
    /\ synced \in BOOLEAN
    /\ asked \in Ecm \cup {NoEcm}
    /\ arrived \in Seq(Ecm)
    /\ held \in BOOLEAN /\ undisturbed \in BOOLEAN

\* Every packet of the queue holds the key that the card gave for its very
\* ECM, although requests go unanswered, responses come twice and stretches
\* of the stream are lost (parse_packet, pseudo_bcas.c:83-133).
KeysMatch == \A c \in Queued : mem[c].key = mem[c].data

\* The queue is the history of the latest QueueLen answered ECMs, oldest
\* first, and n_ecm_arrived counts all that ever were (pseudo_bcas.c:125-131).
HistoryIsLatest ==
    main = "idle" =>
        LET kept == IF Len(arrived) < QueueLen THEN Len(arrived) ELSE QueueLen
        IN  /\ n_ecm_arrived = Len(arrived)
            /\ Len(ecm_queue) = kept
            /\ \A i \in 1 .. kept :
                  mem[ecm_queue[i]].data = arrived[Len(arrived) - kept + i]

\* The packets allocated are those of the queue, each once, and the pending
\* one: none is lost without being freed, none is freed and still queued.
NoPacketLost ==
    /\ used = Queued \cup ({pending_ecm_packet} \ {NoCell})
    /\ \A i, j \in 1 .. Len(ecm_queue) : i # j => ecm_queue[i] # ecm_queue[j]
    /\ main # "queued" => pending_ecm_packet \notin Queued

\* A lookup during which nothing is evicted returns the key of the ECM asked for or
\* none, and that key if it was in the history all the time, although others come in
\* meanwhile (proc_ecm, pseudo_bcas.c:228-252).
LookupServes ==
    undisturbed =>
        /\ result \in Ecm \cup {NoEcm, Garbage} => result = wanted
        /\ held => result # Failed

\* It ends, although the list it walks grows meanwhile (pseudo_bcas.c:233).
LookupEnds ==
    lookup \in {"search", "copy"} ~> lookup \notin {"search", "copy"} \/ ~undisturbed
=============================================================================
