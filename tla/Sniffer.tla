------------------------------ MODULE Sniffer -------------------------------
(***************************************************************************)
(* The life of a capture, run of tsniff/main.c: the main thread sets up    *)
(* the decoder, its thread and the device, passes what the callbacks are   *)
(* given to the decoder's thread through an asynchronous queue, and on a   *)
(* signal, the end of the file or of the time takes all of it down again.  *)
(*                                                                         *)
(* The bytes of the TS are their positions in it.  cusbfx2_poll and the    *)
(* commands that are committed run the callbacks of the transfers that are *)
(* complete; the device may lose what it was to send.  Of the B-CAS input  *)
(* only the number of ECMs answered is kept: PseudoBCAS has the rest, and  *)
(* TimeShift has the delay before a chunk is decoded.  The wait for a last *)
(* key (main.c:663-690) is guarded by st_b25_queue, which nothing assigns, *)
(* and is never executed.  The README leaves TS from a file with B-CAS     *)
(* from the device undefined; it is not among the options.                 *)
(***************************************************************************)
EXTENDS Integers, Sequences

CONSTANTS
    TsLen,          \* the bytes of TS there are; bounds the runs
    BufSize,        \* the bytes run reads at once, and a transfer's buffer
    BufferCount,    \* st_fx2_ts_buffer_count
    MaxEcm          \* bounds the runs

ASSUME SizesAssumption ==
    TsLen \in Nat /\ BufSize \in Nat \ {0} /\ BufferCount \in Nat \ {0} /\ MaxEcm \in Nat

VARIABLES
    option,         \* the options of the command line
    main,           \* where run is
    device,         \* "closed", "started"
    flying,         \* the TS transfers that are submitted
    given,          \* how far the TS was read or sent
    ts_out,         \* what transfer_ts_cb was given, the raw TS output
    n_ecm_arrived,
    st_is_intterupted,
    st_b25,         \* the decoder and its card: "none", "alive", "released"
    queue_set,      \* st_b25_async_queue is not NULL
    refs,           \* the references to the queue
    queue,          \* the chunks in it
    running,        \* st_is_b25_running
    thread,         \* where b25_thread is
    chunk,          \* the chunk it has popped
    pushed,         \* history: the chunks pushed to the queue
    put,            \* history: the chunks put into the decoder
    first_key,      \* history: callbacks there were before the first key
    late            \* history: TS callbacks since the signal

input  == <<given, ts_out, n_ecm_arrived, first_key, late>>
usb    == <<device, flying>>
async  == <<queue_set, refs, queue>>
worker == <<thread, chunk, put>>
ends   == <<st_is_intterupted, running, st_b25>>
vars   == <<option, main, usb, input, async, pushed, worker, ends>>

\* A byte that is not of the TS, but was in the buffer.
Stale == 0

Options ==
    {o \in [ts : {"fx2", "file"}, bcas : {"fx2", "file", "pcsc"},
            b25 : BOOLEAN, length : BOOLEAN] :
        o.ts = "file" => o.bcas # "fx2" /\ ~o.length}

UsesDevice == option.ts = "fx2" \/ option.bcas = "fx2"

Chunk == UNION {[1 .. n -> 0 .. TsLen] : n \in 1 .. BufSize}

Init ==
    /\ option \in Options
    /\ main = "open"
    /\ device = "closed" /\ flying = 0
    /\ given = 0 /\ ts_out = << >>
    /\ n_ecm_arrived = 0 /\ first_key = 0 /\ late = 0
    /\ st_is_intterupted = FALSE
    /\ st_b25 = "none"
    /\ queue_set = FALSE /\ refs = 0 /\ queue = << >>
    /\ running = TRUE /\ thread = "none" /\ chunk = << >>
    /\ pushed = << >> /\ put = << >>

-----------------------------------------------------------------------------
(* Setting up, on the main thread *)

\* The files named are opened; one of them may not be there.
OpenFiles ==
    /\ main = "open"
    /\ main' \in {"init_b25", "quit"}
    /\ UNCHANGED <<option, usb, input, async, pushed, worker, ends>>

\* init_b25 fails before it has a decoder, or cannot create the thread.
InitB25Fails ==
    /\ main = "init_b25" /\ option.b25
    /\ st_b25' \in {"none", "alive"}
    /\ main' = "quit"
    /\ UNCHANGED <<option, usb, input, async, pushed, worker, st_is_intterupted,
                   running>>

\* init_b25 up to the creation of the thread, which may run from here on.
CreateThread ==
    /\ main = "init_b25" /\ option.b25
    /\ st_b25' = "alive"
    /\ thread' = "created"
    /\ main' = "new_queue"
    /\ UNCHANGED <<option, usb, input, async, pushed, chunk, put, st_is_intterupted,
                   running>>

\* Only then the queue is created.
NewQueue ==
    /\ main = "new_queue"
    /\ queue_set' = TRUE /\ refs' = 1
    /\ main' = "device"
    /\ UNCHANGED <<option, usb, input, queue, pushed, worker, ends>>

\* The decoder is not wanted.
SkipB25 ==
    /\ main = "init_b25" /\ ~option.b25
    /\ main' = "device"
    /\ UNCHANGED <<option, usb, input, async, pushed, worker, ends>>

\* The device is opened, set up and its transfers are started, each of which
\* may fail to be submitted; then the signal handlers are installed.
Start ==
    /\ main = "device"
    /\ IF UsesDevice
       THEN \/ main' = "quit" /\ UNCHANGED usb
            \/ /\ device' = "started"
               /\ flying' \in IF option.ts = "fx2" THEN 0 .. BufferCount ELSE {0}
               /\ main' = "keys"
       ELSE main' = "keys" /\ UNCHANGED usb
    /\ UNCHANGED <<option, input, async, pushed, worker, ends>>

\* A B-CAS file is read to its end before any TS.
ReadKeys ==
    /\ main = "keys"
    /\ IF option.bcas = "file" /\ option.b25
       THEN n_ecm_arrived' \in 0 .. MaxEcm
       ELSE UNCHANGED n_ecm_arrived
    /\ main' = "loop"
    /\ UNCHANGED <<option, usb, given, ts_out, first_key, late, async, pushed, worker, ends>>

-----------------------------------------------------------------------------
(* Sniffing *)

Signal ==
    /\ main \in {"keys", "loop"}
    /\ st_is_intterupted' = TRUE
    /\ UNCHANGED <<option, main, usb, input, async, pushed, worker, running, st_b25>>

\* Bug: the TS is passed on before there is a key.
HasKeyOrNot == option.b25

\* The chunk is to be decoded: TS before the first key is disposed of.
HasKey == option.b25 /\ (option.bcas = "fx2" => n_ecm_arrived > 0)

\* transfer_ts_cb writes the chunk out and may pass it on.
TransferTsCb(data) ==
    /\ ts_out' = Append(ts_out, data)
    /\ late' = IF st_is_intterupted THEN late + 1 ELSE late
    /\ IF HasKey
       THEN /\ queue' = Append(queue, data)
            /\ pushed' = Append(pushed, data)
       ELSE UNCHANGED <<queue, pushed>>

\* Bug: a transfer is submitted again whatever the callback returns.
AlwaysAgain == UNCHANGED flying

\* The transfer is submitted again if the callback says so and it can be.
Resubmit ==
    IF st_is_intterupted
    THEN flying' = flying - 1
    ELSE flying' \in {flying, flying - 1}

\* Callbacks run in cusbfx2_poll and while commands are committed.
CallbacksRun == device = "started" /\ main \in {"loop", "quit"}

\* A TS transfer is complete, with n bytes or fewer than asked for.
TsComplete(n) ==
    /\ CallbacksRun /\ flying > 0
    /\ given + n <= TsLen
    /\ given' = given + n
    /\ TransferTsCb([i \in 1 .. n |-> given + i])
    /\ Resubmit
    /\ UNCHANGED <<option, main, device, n_ecm_arrived, first_key, queue_set, refs, worker, ends>>

\* A TS transfer times out or fails, with what it held: it is submitted
\* again without asking the callback.
TsLost(n) ==
    /\ CallbacksRun /\ flying > 0
    /\ given + n <= TsLen
    /\ given' = given + n
    /\ flying' \in {flying, flying - 1}
    /\ UNCHANGED <<option, main, device, ts_out, n_ecm_arrived, first_key, late, async,
                   pushed, worker, ends>>

\* The B-CAS transfer is complete and brings a response to an ECM.
EcmComplete ==
    /\ CallbacksRun /\ option.bcas = "fx2" /\ option.b25
    /\ n_ecm_arrived < MaxEcm
    /\ n_ecm_arrived' = n_ecm_arrived + 1
    /\ first_key' = IF n_ecm_arrived = 0 THEN Len(ts_out) ELSE first_key
    /\ UNCHANGED <<option, main, usb, given, ts_out, late, async, pushed, worker, ends>>

\* How far the file is read by the next call.
ReadUpTo == IF given + BufSize < TsLen THEN given + BufSize ELSE TsLen

\* run reads a buffer from the file and passes all of it on, however much
\* was read.
ReadTs ==
    /\ main = "loop" /\ option.ts = "file" /\ ~st_is_intterupted
    /\ given < TsLen
    /\ given' = ReadUpTo
    /\ TransferTsCb([i \in 1 .. BufSize |-> IF given + i <= TsLen THEN given + i ELSE Stale])
    /\ UNCHANGED <<option, main, usb, n_ecm_arrived, first_key, queue_set, refs, worker, ends>>

-----------------------------------------------------------------------------
(* b25_thread *)

\* A thread that starts before there is a queue takes no reference to it.
ThreadStarts ==
    /\ thread = "created"
    /\ refs' = IF queue_set THEN refs + 1 ELSE refs
    /\ thread' = "test"
    /\ UNCHANGED <<option, main, usb, input, queue_set, queue, pushed, chunk, put, ends>>

ThreadTests ==
    /\ thread = "test"
    /\ thread' = IF running THEN "pop" ELSE "drain"
    /\ UNCHANGED <<option, main, usb, input, async, pushed, chunk, put, ends>>

\* The oldest chunk is popped.
Pop ==
    /\ chunk' = Head(queue)
    /\ queue' = Tail(queue)

\* A chunk is popped, in the loop or in what follows it.
ThreadPops ==
    /\ thread \in {"pop", "drain"}
    /\ queue # << >>
    /\ Pop
    /\ thread' = IF thread = "pop" THEN "put" ELSE "drain_put"
    /\ UNCHANGED <<option, main, usb, input, queue_set, refs, pushed, put, ends>>

\* It is put into the decoder, which may ask the card, and written out.
ThreadPuts ==
    /\ thread \in {"put", "drain_put"}
    /\ put' = Append(put, chunk)
    /\ chunk' = << >>
    /\ thread' = IF thread = "put" THEN "pop" ELSE "drain"
    /\ UNCHANGED <<option, main, usb, input, async, pushed, ends>>

\* There is none, or no queue yet: the thread sleeps and tests again.
ThreadSleeps ==
    /\ thread = "pop"
    /\ queue = << >>
    /\ thread' = "test"
    /\ UNCHANGED <<option, main, usb, input, async, pushed, chunk, put, ends>>

\* Bug: what is left in the queue is not decoded.
LeftOver == TRUE

\* Nothing is left in the queue.
Drained == queue = << >>

\* The reference to the queue is dropped, taken or not.
ThreadEnds ==
    /\ thread = "drain"
    /\ Drained
    /\ refs' = IF queue_set THEN refs - 1 ELSE refs
    /\ thread' = "done"
    /\ UNCHANGED <<option, main, usb, input, queue_set, queue, pushed, chunk, put, ends>>

-----------------------------------------------------------------------------
(* Taking down, on the main thread *)

\* The main loop is left: on a signal, after --length, at the end of the file.
LeaveLoop ==
    /\ main = "loop"
    /\ st_is_intterupted \/ option.length \/ (option.ts = "file" /\ given = TsLen)
    /\ main' = "quit"
    /\ UNCHANGED <<option, usb, input, async, pushed, worker, st_is_intterupted, running, st_b25>>

\* The device is set to idle, the transfers are freed, it is closed.
StopDevice ==
    /\ main = "quit"
    /\ device' = "closed"
    /\ flying' = 0
    /\ main' = "stop_thread"
    /\ UNCHANGED <<option, input, async, pushed, worker, ends>>

\* Bug: the thread is not told.
KeepRunning == UNCHANGED running

\* st_is_b25_running = FALSE
StopRunning == running' = FALSE

\* The thread is told to end, if there is one.
StopThread ==
    /\ main = "stop_thread"
    /\ IF st_b25 = "alive" /\ thread # "none"
       THEN StopRunning /\ main' = "join"
       ELSE UNCHANGED running /\ main' = "flush"
    /\ UNCHANGED <<option, usb, input, async, pushed, worker, st_is_intterupted, st_b25>>

\* Bug: the decoder is flushed while the thread still uses it.
NoJoin == TRUE

\* g_thread_join returns.
Joined == thread = "done"

Join ==
    /\ main = "join"
    /\ Joined
    /\ main' = "flush"
    /\ UNCHANGED <<option, usb, input, async, pushed, worker, ends>>

\* The decoder is flushed, it and the card are released, the files closed.
FlushAndRelease ==
    /\ main = "flush"
    /\ st_b25' = IF st_b25 = "alive" THEN "released" ELSE st_b25
    /\ main' = "exited"
    /\ UNCHANGED <<option, usb, input, async, pushed, worker, st_is_intterupted, running>>

-----------------------------------------------------------------------------

\* What run does of itself, callbacks included if they are due.
MainStep ==
    \/ OpenFiles \/ InitB25Fails \/ CreateThread \/ NewQueue \/ SkipB25
    \/ Start \/ ReadKeys \/ ReadTs
    \/ LeaveLoop \/ StopDevice \/ StopThread \/ Join \/ FlushAndRelease

ThreadStep ==
    ThreadStarts \/ ThreadTests \/ ThreadPops \/ ThreadPuts \/ ThreadSleeps \/ ThreadEnds

Next ==
    \/ MainStep
    \/ ThreadStep
    \/ Signal
    \/ \E n \in 1 .. BufSize : TsComplete(n) \/ TsLost(n)
    \/ EcmComplete

\* cusbfx2_poll and the commands return, in the end by their timeouts, so
\* that run goes on whether or not the device sends; so does the thread.
Spec == Init /\ [][Next]_vars /\ WF_vars(MainStep) /\ WF_vars(ThreadStep)

-----------------------------------------------------------------------------
(* Properties *)

\* The types of run's, b25_thread's and the callbacks' variables.
TypeOK ==
    /\ option \in Options
    /\ main \in {"open", "init_b25", "new_queue", "device", "keys", "loop", "quit",
                 "stop_thread", "join", "flush", "exited"}
    /\ device \in {"closed", "started"} /\ flying \in 0 .. BufferCount
    /\ given \in 0 .. TsLen
    /\ ts_out \in Seq(Chunk)
    /\ n_ecm_arrived \in 0 .. MaxEcm
    /\ first_key \in Nat /\ late \in Nat
    /\ st_is_intterupted \in BOOLEAN
    /\ st_b25 \in {"none", "alive", "released"}
    /\ queue_set \in BOOLEAN /\ refs \in 0 .. 2 /\ queue \in Seq(Chunk)
    /\ running \in BOOLEAN
    /\ thread \in {"none", "created", "test", "pop", "put", "drain", "drain_put", "done"}
    /\ chunk \in Chunk \cup {<< >>}
    /\ pushed \in Seq(Chunk) /\ put \in Seq(Chunk)

\* With keys from the device, what is decoded is the TS from the first key
\* on, all of it; with other keys it is all the TS (main.c:272-291).
DecodesFromFirstKey ==
    option.b25 =>
        pushed = IF option.bcas # "fx2" THEN ts_out
                 ELSE IF n_ecm_arrived = 0 THEN << >>
                 ELSE SubSeq(ts_out, first_key + 1, Len(ts_out))

\* No chunk is lost or overtaken between the callback and the decoder,
\* although the thread may start before its queue exists, and be told to
\* end while chunks wait (main.c:228-253, 416-422, 724-727).
NothingLost ==
    pushed = put \o (IF chunk = << >> THEN << >> ELSE <<chunk>>) \o queue

\* Neither the queue, of which a thread that started early drops a
\* reference it never took, nor the decoder and its card are used when they
\* are gone (main.c:233, 250, 724-751).
UsedWhileAlive ==
    /\ thread \in {"put", "drain_put"} => st_b25 = "alive"
    /\ queue_set /\ (CallbacksRun \/ thread \in {"test", "pop", "drain"}) => refs > 0

\* After a signal every TS transfer calls back once at most: TS does not go
\* on because the device does (main.c:280, 293; cusbfx2.c:356).
EachOnceAfterSignal == late + flying <= BufferCount \/ ~st_is_intterupted \/ option.ts = "file"

\* A signal, and a TS file in any case, end the program, the thread and all
\* (main.c:596-614, 724-727).
Ends == (st_is_intterupted \/ main = "quit" \/ option.ts = "file") ~> main = "exited"

Pipe == INSTANCE TsPipe WITH
            accepted <- pushed, decoded <- put, open <- main \notin {"flush", "exited"}

\* The same, without its fairness.
PipeSafe == Pipe!Safe

\* run implements TsPipe: the decoder has had every chunk when it is
\* flushed, and gets them in time (main.c:228-253, 718-730).
PipeSpec == Pipe!Spec
=============================================================================
