----------------------------- MODULE UsbTransfer -----------------------------
(***************************************************************************)
(* The transfers of lib/cusbfx2.c and what run of tsniff/main.c does with  *)
(* them.  Each endpoint has a list of libusb transfers, which are          *)
(* submitted once the device sends.  libusb reports those that end, in the *)
(* order in which they were submitted, while the main thread waits in      *)
(* cusbfx2_poll or in the bulk transfer of a command; the callback passes  *)
(* the data on and submits the transfer again.  In the end the transfers   *)
(* are cancelled and freed.                                                *)
(*                                                                         *)
(* The transfers of the TS are 1 .. TsCount, that of B-CAS is the next     *)
(* number.  What the device sends is a number of units.  libusb's part is  *)
(* its list of submitted transfers and how each of them ended.             *)
(***************************************************************************)
EXTENDS Integers, Sequences, FiniteSets

CONSTANTS
    TsCount,        \* st_fx2_ts_buffer_count
    Size,           \* the units a buffer holds
    MaxSent         \* bounds the units sent on each endpoint

ASSUME CountsAssumption ==
    TsCount \in Nat \ {0} /\ Size \in Nat \ {0} /\ MaxSent \in Nat

VARIABLES
    main,           \* where run is
    st_is_intterupted,
    p,              \* the element a loop over the lists is at
    usb_transfers,  \* the transfers in the lists
    attached,       \* the device is there
    status,         \* of each transfer: "idle" when libusb does not have it
    queue,          \* per endpoint: the transfers libusb has, oldest first
    buffer,         \* per transfer: the units in it
    sent, got,      \* per endpoint: units sent, units given to the callback
    refused,        \* history: transfers that libusb would not take
    touched_freed   \* history: libusb reported a transfer that was freed

host    == <<main, p, usb_transfers>>
libusb  == <<status, queue, buffer, refused>>
vars    == <<host, st_is_intterupted, attached, libusb, sent, got, touched_freed>>

Name     == {"TS", "B-CAS"}
Transfer == 1 .. TsCount + 1
NameOf(t) == IF t <= TsCount THEN "TS" ELSE "B-CAS"

\* How a transfer ended otherwise than completed or cancelled, an error, a stall,
\* a timeout, makes no difference to the program.
Status == {"idle", "flying", "completed", "failed", "cancelled", "freed"}

\* What run does with the lists, in its order.
Phase == {"init", "start", "loop", "stop", "cancel", "free", "close", "exited"}

\* The loops over the lists.
Loops == {"init", "start", "cancel", "free"}

Init ==
    /\ main = "init" /\ p = 1 /\ usb_transfers = {}
    /\ st_is_intterupted = FALSE
    /\ attached = TRUE
    /\ status = [t \in Transfer |-> "idle"]
    /\ queue = [e \in Name |-> << >>]
    /\ buffer = [t \in Transfer |-> {}]
    /\ sent = [e \in Name |-> 0] /\ got = [e \in Name |-> {}]
    /\ refused = {} /\ touched_freed = FALSE

-----------------------------------------------------------------------------
(* libusb *)

\* libusb_submit_transfer takes the transfer, or refuses it.
Submit(t) ==
    \/ /\ attached
       /\ status' = [status EXCEPT ![t] = "flying"]
       /\ queue' = [queue EXCEPT ![NameOf(t)] = Append(@, t)]
       /\ buffer' = [buffer EXCEPT ![t] = {}]
       /\ UNCHANGED refused
    \/ /\ status' = [status EXCEPT ![t] = "idle"]
       /\ refused' = refused \union {t}
       /\ buffer' = [buffer EXCEPT ![t] = {}]
       /\ UNCHANGED queue

\* libusb_cancel_transfer: of a transfer that ended or was not submitted it
\* changes nothing.
Cancelled(t) == IF status[t] = "flying" THEN "cancelled" ELSE status[t]

\* The transfer that is filled: the oldest of those that wait for data.
Filled(e) ==
    {queue[e][i] : i \in {j \in 1 .. Len(queue[e]) :
                             /\ status[queue[e][j]] = "flying"
                             /\ \A k \in 1 .. j - 1 : status[queue[e][k]] # "flying"}}

\* The device sends a unit.  Nobody waits for it and it is lost, or it is put
\* into the first buffer, which may thereby be full or end short.
Send(e) ==
    /\ main \notin {"init", "close", "exited"} /\ attached
    /\ sent[e] < MaxSent
    /\ sent' = [sent EXCEPT ![e] = @ + 1]
    /\ \/ Filled(e) = {} /\ UNCHANGED <<status, buffer>>
       \/ \E t \in Filled(e) :
             /\ buffer' = [buffer EXCEPT ![t] = @ \union {sent[e] + 1}]
             /\ \/ status' = [status EXCEPT ![t] = "completed"]
                \/ Cardinality(buffer[t]) + 1 < Size /\ UNCHANGED status
    /\ UNCHANGED <<host, st_is_intterupted, attached, queue, refused, got, touched_freed>>

\* The oldest transfer that waits times out or meets an error.
Fail(e) ==
    /\ \E t \in Filled(e) : status' = [status EXCEPT ![t] = "failed"]
    /\ UNCHANGED <<host, st_is_intterupted, attached, queue, buffer, refused, sent,
                   got, touched_freed>>

\* The device goes away, and all transfers with it.
Unplug ==
    /\ attached /\ main # "exited"
    /\ attached' = FALSE
    /\ status' = [t \in Transfer |-> IF status[t] = "flying" THEN "failed" ELSE status[t]]
    /\ UNCHANGED <<host, st_is_intterupted, queue, buffer, refused, sent, got,
                   touched_freed>>

-----------------------------------------------------------------------------
(* The callbacks *)

\* transfer_ts_cb asks for no more after a signal, transfer_bcas_cb always does.
CallbackReturns(e) == e = "B-CAS" \/ ~st_is_intterupted

\* Bug: only a transfer that brought data is submitted again.
IsResubmitOfData(t) == status[t] = "completed" /\ CallbackReturns(NameOf(t))

\* Only the callback is asked whether to submit again, and only of data.
IsResubmit(t) ==
    /\ status[t] # "cancelled"
    /\ status[t] = "completed" => CallbackReturns(NameOf(t))

\* Where libusb handles events: in cusbfx2_poll and in the transfer that stops
\* the device.
HandlesEvents == main \in {"loop", "stop"}

\* Bug: what a transfer that failed had received stays in its buffer.
ReportKeeping(e) ==
    /\ HandlesEvents
    /\ queue[e] # << >>
    /\ LET t == Head(queue[e])
           rest == [queue EXCEPT ![e] = Tail(@)]
       IN  /\ status[t] # "flying"
           /\ touched_freed' = (touched_freed \/ status[t] = "freed")
           /\ got' = [got EXCEPT ![e] = IF status[t] = "completed"
                                        THEN @ \union buffer[t] ELSE @]
           /\ \/ /\ IsResubmit(t) /\ attached
                 /\ queue' = [rest EXCEPT ![e] = Append(@, t)]
                 /\ status' = [status EXCEPT ![t] = "flying"]
                 /\ UNCHANGED refused
              \/ /\ IsResubmit(t)
                 /\ queue' = rest
                 /\ status' = [status EXCEPT ![t] = "idle"]
                 /\ refused' = refused \union {t}
              \/ /\ ~IsResubmit(t)
                 /\ queue' = rest
                 /\ status' = [status EXCEPT ![t] = "idle"]
                 /\ UNCHANGED refused
           /\ buffer' = IF status[t] = "completed" THEN [buffer EXCEPT ![t] = {}] ELSE buffer
    /\ UNCHANGED <<host, st_is_intterupted, attached, sent>>

\* cusbfx2_transfer_callback, for the oldest transfer of an endpoint, when that
\* has ended.
Report(e) ==
    /\ HandlesEvents
    /\ queue[e] # << >>
    /\ LET t == Head(queue[e])
           rest == [queue EXCEPT ![e] = Tail(@)]
       IN  /\ status[t] # "flying"
           /\ touched_freed' = (touched_freed \/ status[t] = "freed")
           /\ got' = [got EXCEPT ![e] = IF status[t] = "completed"
                                        THEN @ \union buffer[t] ELSE @]
           /\ \/ /\ IsResubmit(t) /\ attached
                 /\ queue' = [rest EXCEPT ![e] = Append(@, t)]
                 /\ status' = [status EXCEPT ![t] = "flying"]
                 /\ UNCHANGED refused
              \/ /\ IsResubmit(t)
                 /\ queue' = rest
                 /\ status' = [status EXCEPT ![t] = "idle"]
                 /\ refused' = refused \union {t}
              \/ /\ ~IsResubmit(t)
                 /\ queue' = rest
                 /\ status' = [status EXCEPT ![t] = "idle"]
                 /\ UNCHANGED refused
           /\ buffer' = [buffer EXCEPT ![t] = {}]
    /\ UNCHANGED <<host, st_is_intterupted, attached, sent>>

-----------------------------------------------------------------------------
(* run *)

\* cusbfx2_init_bulk_transfer: a transfer that cannot be had is left out.
Allocate ==
    /\ main = "init" /\ p \in Transfer
    /\ usb_transfers' \in {usb_transfers, usb_transfers \union {p}}
    /\ p' = p + 1
    /\ UNCHANGED <<main, st_is_intterupted, attached, libusb, sent, got, touched_freed>>

\* cusbfx2_start_transfer
StartTransfer ==
    /\ main = "start" /\ p \in Transfer
    /\ IF p \in usb_transfers THEN Submit(p) ELSE UNCHANGED libusb
    /\ p' = p + 1
    /\ UNCHANGED <<main, usb_transfers, st_is_intterupted, attached, sent, got,
                   touched_freed>>

\* cusbfx2_cancel_transfer
CancelTransfer ==
    /\ main = "cancel" /\ p \in Transfer
    /\ status' = IF p \in usb_transfers
                 THEN [status EXCEPT ![p] = Cancelled(p)] ELSE status
    /\ p' = p + 1
    /\ UNCHANGED <<main, usb_transfers, st_is_intterupted, attached, queue, buffer,
                   refused, sent, got, touched_freed>>

\* cusbfx2_free_transfer: cancelled, and freed whether libusb has it or not.
FreeTransfer ==
    /\ main = "free" /\ p \in Transfer
    /\ status' = IF p \in usb_transfers THEN [status EXCEPT ![p] = "freed"] ELSE status
    /\ p' = p + 1
    /\ UNCHANGED <<main, usb_transfers, st_is_intterupted, attached, queue, buffer,
                   refused, sent, got, touched_freed>>

\* Bug: the transfers are freed before the device is stopped.
AfterFreeFirst(phase) ==
    CASE phase = "init"   -> "start"
      [] phase = "start"  -> "loop"
      [] phase = "loop"   -> IF st_is_intterupted THEN "cancel" ELSE "free"
      [] phase = "cancel" -> "free"
      [] phase = "free"   -> "stop"
      [] phase = "stop"   -> "close"
      [] phase = "close"  -> "exited"

\* The transfers are cancelled after a signal only; freeing cancels, too.
After(phase) ==
    CASE phase = "init"   -> "start"
      [] phase = "start"  -> "loop"
      [] phase = "loop"   -> "stop"
      [] phase = "stop"   -> IF st_is_intterupted THEN "cancel" ELSE "free"
      [] phase = "cancel" -> "free"
      [] phase = "free"   -> "close"
      [] phase = "close"  -> "exited"

\* Bug: the transfers are only freed when libusb has none of them any more.
ProceedWhenDone ==
    /\ main # "exited"
    /\ main = "stop" => \A e \in Name : queue[e] = << >>
    /\ main \in Loops => p = TsCount + 2
    /\ main' = After(main)
    /\ p' = 1
    /\ UNCHANGED <<usb_transfers, st_is_intterupted, attached, libusb, sent, got,
                   touched_freed>>

\* On to the next phase, when a loop over the lists has reached their end; the
\* main loop is left after a signal or the time that was asked for, the command
\* that stops the device arrives or times out.
Proceed ==
    /\ main # "exited"
    /\ main \in Loops => p = TsCount + 2
    /\ main' = After(main)
    /\ p' = 1
    /\ UNCHANGED <<usb_transfers, st_is_intterupted, attached, libusb, sent, got,
                   touched_freed>>

\* The handlers are installed when the transfers are started.
Signal ==
    /\ main = "loop"
    /\ st_is_intterupted' = TRUE
    /\ UNCHANGED <<host, attached, libusb, sent, got, touched_freed>>

Main == Allocate \/ StartTransfer \/ CancelTransfer \/ FreeTransfer

Next ==
    \/ Main \/ Proceed \/ Signal \/ Unplug
    \/ \E e \in Name : Send(e) \/ Fail(e) \/ Report(e)

\* The loops over the lists do not block and commands time out.  Polls return
\* while transfers time out, and after 60 seconds in any case.  That the main
\* loop is left is not assumed, unless there was a signal.
Fairness ==
    /\ WF_vars(Main)
    /\ WF_vars(Proceed /\ (main = "loop" => st_is_intterupted))
    /\ \A e \in Name : WF_vars(Report(e)) /\ WF_vars(Fail(e))

Spec == Init /\ [][Next]_vars /\ Fairness

-----------------------------------------------------------------------------
(* Properties *)

\* Type correctness of lib/cusbfx2.c's lists and of libusb's.
TypeOK ==
    /\ main \in Phase
    /\ p \in 1 .. TsCount + 2
    /\ st_is_intterupted \in BOOLEAN /\ attached \in BOOLEAN /\ touched_freed \in BOOLEAN
    /\ usb_transfers \subseteq Transfer /\ refused \subseteq Transfer
    /\ status \in [Transfer -> Status]
    /\ queue \in [Name -> Seq(Transfer)]
    /\ sent \in [Name -> 0 .. MaxSent]
    /\ buffer \in [Transfer -> SUBSET (1 .. MaxSent)]
    /\ got \in [Name -> SUBSET (1 .. MaxSent)]

\* libusb never reports a transfer that was freed (main.c:692-716 frees those it
\* still has): the callback would use the structure that is gone.
NoneReportedFreed == ~touched_freed

\* While data are wanted, every transfer of the lists is with libusb, but those
\* it refused and those that had data after a signal: timeouts and errors do not
\* use them up (cusbfx2.c:357).
EveryoneWaits ==
    main \in {"loop", "stop"} =>
        \A t \in usb_transfers :
            \/ \E i \in 1 .. Len(queue[NameOf(t)]) : queue[NameOf(t)][i] = t
            \/ t \in refused
            \/ NameOf(t) = "TS" /\ st_is_intterupted

\* When the device is closed, all the transfers of the lists are freed, those
\* that were refused and those libusb has as well (cusbfx2.c:460-468).
AllFreed ==
    main \in {"close", "exited"} => \A t \in usb_transfers : status[t] = "freed"

\* The units in a transfer that ended well, or may yet.
Held(e) == UNION {buffer[queue[e][i]] :
                  i \in {j \in 1 .. Len(queue[e]) :
                             status[queue[e][j]] \in {"flying", "completed"}}}

TsFeed   == INSTANCE TransferFeed
            WITH sent <- sent["TS"], pending <- Held("TS"), got <- got["TS"]
BcasFeed == INSTANCE TransferFeed
            WITH sent <- sent["B-CAS"], pending <- Held("B-CAS"), got <- got["B-CAS"]

\* The callback of each endpoint is given what the device sent in its order and
\* once each, although transfers time out, fail and are submitted anew.
FeedSpec == TsFeed!Spec /\ BcasFeed!Spec

\* After a signal the program comes to its end, although transfer_bcas_cb goes
\* on asking for its transfer to be submitted.
Ends == st_is_intterupted ~> main = "exited"
=============================================================================
