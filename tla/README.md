# tsniff in TLA+

tsniff captures the transport stream (TS) of a Japanese digital tuner together
with what its B-CAS card says on the wire, and decodes the TS with the keys it
overheard.  It is a user program in C on libusb and GLib, a firmware for a
Cypress FX2, and a library, libarib25, that is not in the repository.

This directory models the part of it where state, order and concurrency matter,
checks it with TLC on small instances, and proves the central invariants with
TLAPS for every value of the constants.

- [Parts of the system](#parts-of-the-system)
- [Modules](#modules)
- [Runs](#runs)
- [Bounds](#bounds)
- [Fairness](#fairness)
- [Proofs](#proofs)
- [Where the program differs from its documents](#where-the-program-differs-from-its-documents)
- [What is left out](#what-is-left-out)
- [Plan](#plan)

## Parts of the system

```
   device (FX2)                         host
 +--------------+  EP1 commands   +-------------------------------------+
 |  TD_Poll     |<----------------| lib/capsts.c    queue of commands   |
 |  ir timer    |                 |                                     |
 |  dispatcher  |  EP6 TS         | main thread:  transfer_ts_cb -------|--+ st_b25_async_queue
 |  fw.c        |---------------->|                                     |  v
 |              |  EP4 B-CAS      |   bcas_stream -> pseudo_bcas        | b25_thread: delay,
 |              |---------------->|   (parser)       (history of keys)<-|-- libarib25 asks proc_ecm
 +--------------+  lib/cusbfx2.c  +-------------------------------------+
```

There are three flows of control: the main thread of the host, in which the
callbacks of libusb run too; the decoder's thread; and the firmware, a loop that
an interrupt of 20 us and those of USB break into.

**B-CAS stream parser**, `lib/bcas_stream.c`.
State: the bytes it has not done with (`raw_stream`), whether it is
synchronised, how much of the buffer is parsed.  Operation: `push`, which
appends bytes and delivers the packets found among them.
Hard: packets are cut anywhere, bytes are lost and damaged, and the loop goes on
over an array that shrinks under it.
Correct: packets are intact and come once, in order, every loss is flagged and
followed by a request, the result does not depend on the cutting, `push` returns.

**Pseudo B-CAS card**, `lib/pseudo_bcas.c`.
State: the pending request and the history `ecm_queue` of answered ones.
Operations: `parse_packet` on the main thread, `proc_ecm` on the decoder's,
`release`.  Hard: the two threads share a list without a lock while the oldest
entry is freed; requests may go unanswered and responses may be repeated.
Correct: a key is that of its ECM, the history is the latest, nothing leaks, a
lookup ends and its answer is right.

**Capture lifecycle**, `run` and its callbacks, `tsniff/main.c`.
State: the decoder, its thread and its queue, the transfers, the signal flag.
Operations: setting up, polling, reading files, the callbacks, taking down.
Hard: the thread is created before its queue; a signal comes at any time; the
transfers keep themselves alive; the thread must drain the queue before the
decoder is flushed.  Correct: the TS from the first key on is decoded, all and
in order; nothing is used that is gone; the program ends.

**Delay of the TS**, `proc_b25_chunk`, `tsniff/main.c`.
State: chunks with the time they arrived.  Hard: the time is the wall clock's;
sleeping for one chunk ages the others.  Correct: no chunk is decoded too young
or held back for long.

**Command link**, `lib/capsts.c` and `TD_Poll`, `firmware/tsniff/main.c`.
State: the host's queue, the packet in the endpoint, the firmware's registers,
which survive the process.  Hard: both sides count the arguments of a command by
themselves; transfers fail; a process is killed.  Correct: what is pushed is
executed, a capture starts from whatever state the device is in, and leaves it
idle.

**Tuner and remote control**, `capsts_adjust_tuner_channel`, `lib/capsts.c`.
The keys for a source and a channel.  Each is pressed for 600 ms and released for
100 ms.  Hard: a queue given up half sent.

**Infrared**, `firmware/tsniff/timer.c`.
State: the code, the position in its frame and in its bits, the time to the next
level; the buffer of a wave that was loaded, with the place where it is played;
the last level of the input and its duration.  Operation: the timer interrupt,
every 20 us.  Hard: it comes between any two instructions of `TD_Poll`, which
writes the two bytes of `ir_code` one after the other and the buffer before its
length and its index; the state is kept from one key to the next.
Correct: a receiver gets the keys that are pressed and no other, nothing behind the
end of the buffer is played, what is recorded has its duration.

**USB transfers**, `lib/cusbfx2.c`.
State: the lists of transfers of the two endpoints; libusb's of those submitted.
Operations: allocation, submission, the callback with its resubmission,
cancellation, freeing.  Hard: transfers end in any way and time; after a signal
they are freed while libusb still has some; one that is refused is lost.
Correct: data reach the callback in order and once, errors do not use up
transfers, no callback runs on a freed one, the program ends.

**Opening of the device**, `lib/cusbfx2.c`.
State: the handle, the count of the retries; on the device's side what its
processor runs and whether it is on the bus.  Operations: search by id, check of
the firmware, upload, search again.  Hard: the device leaves the bus some time
after the upload and comes back some time later; any control transfer may fail
unnoticed.  Correct: one handle is left open or none, the search lasts longer than
a restart, it ends.

**Task dispatcher of the firmware**, `firmware/tsniff/fw.c`.
State: `GotSUD` and `Sleep`, set by interrupts and cleared by the loop; the
settings a host can make; the pointers to the descriptors, which interrupts turn
round with the speed.  Operations: the loop, `SetupCommand`, suspension.
Hard: a host gives up requests, resets, suspends, and changes the speed between any
two steps; a request may come while the last one is at its last instructions.
Correct: answers are those of the request and of the speed, what is acknowledged is
done, the processor wakes when it should and only then.

**The rest**: the I2C library, which is linked and not called; the rest of the
vendor's library; options, key files and dumps; libarib25; build files, the
firmware's image, documents.

`PROJECT.json` lists each with its files and status, and under `hazards` the
lines at which each part can go wrong in a way that is hard to test.

## Modules

| Module | Models | Proofs |
|---|---|---|
| `BCASPacket` | the packet format as the macros of `bcas_stream.c` read it | |
| `PacketFeed` | what the parser promises to its callback | |
| `BCASStream` | the parser | `BCASPathProofs` |
| `PseudoBCAS` | the card, two threads | `PseudoBCASProofs` |
| `BCASPath` | transfers, parser and card together, with bytes lost on the way | `BCASPathProofs` |
| `TsPipe` | what `run` promises of the TS it decodes | |
| `Sniffer` | `run`, its callbacks and `b25_thread` | `SnifferProofs` |
| `TimeShift` | the delay, with a clock that is set | `TimeShiftProofs` |
| `CapstsLink` | host queue, bulk transfer, `TD_Poll` | `CapstsLinkProofs` |
| `TransferFeed` | what the transfers of an endpoint promise their callback | |
| `UsbTransfer` | the transfers of `cusbfx2.c`, libusb's part, `run`'s use of them | `Cusbfx2Proofs` |
| `FirmwareIR` | the timer interrupt against `TD_Poll`, with a receiver | `FirmwareIRProofs` |
| `Enumeration` | `cusbfx2_open` and a device that restarts | `Cusbfx2Proofs` |
| `FirmwareDispatcher` | the loop of `fw.c`, setup requests, suspension | `FirmwareDispatcherProofs` |

`MCBCASStream`, `MCPseudoBCAS`, `MCBCASPath`, `MCTimeShift` and `MCCapstsLink` give the
constants of the runs their values.  `MCFirmwareIR` and `MCFirmwareDispatcher` do,
too, and restrict each behaviour to a scenario of its own, chosen in the initial
state, because the product of all would be too large: a key or two with the timer,
a wave that is played, a key in turns with a wave, an input that is recorded; the
requests for descriptors, for settings, for halts, or for features with suspension.

A definition that begins with the comment "Bug:" is what a plausible mistake in the
line beside it would be; nothing in a specification uses one.

**BCASStream.**  `stream` is all there will be and `fed` how much of it was
pushed; `raw_stream`, `pos` and `parsed_size` are the variables of `push`.  A
step of the module is one turn of the parser's loop: synchronisation found,
refused or failed, a packet delivered, a checksum that does not match, the end
of the buffer.  `dropped` counts what was stripped, so that `raw_stream` can be
compared with the stream it is of.  The module stops at a call that GLib refuses
and whose result is dereferenced (`crashed`).

**PseudoBCAS.**  A list node and its packet are a cell of `mem`, allocated or not.
`parse_packet` is `Request`, and `Response` (the packet is queued) with
`Registered` (one is evicted, the count goes up) as a step of its own, for the
other thread may run in between.  `proc_ecm` is `ProcEcm`, a step for each node it
looks at (`Compare`, or `CompareFreed` for one that is gone: anything may be read
from it, and the lookup may crash), and `Copy`.  A key is represented
by the ECM it belongs to.  What the module assumes of the packets is what
`BCASStream` proves: a packet after a loss is a request and flagged
(`FirstIffGap`, `FirstIsRequest`).

**BCASPath.**  `BCASStream` and `PseudoBCAS` side by side: `TransferBcas` is
`transfer_bcas_cb` with the data of one transfer, `Search` a turn of the parser's
loop that delivers nothing, `ParsePacket` a delivered packet together with the call
of `parse_packet`, `Registered` the rest of that call, before which the parser does
not go on.  `losses` are the places of the stream at which something is missing;
no transfer extends over one.  The macros look at the start of a payload whatever
its length is, and the parser writes only that length of its local packet
(`bcas_stream.c:162`): `Payloads` completes a short packet by any bytes.  The
decoder's lookups are left to `PseudoBCAS`.

What may be received is the constant `Received`.  `CardAnswers` says of it what the
program relies on in the card, which is not in the repository: its packets follow
one another, a response has the key of the request before it ("always lead by
request_packet", `bcas_stream.c:234`), and no other bytes that come whole are a
request with a checksum that fits.  Of what a loss tore it says nothing.  `Complete`
says of a received stream that nothing is torn or unanswered behind its last loss.

**Sniffer.**  `main` and `thread` are the program counters.  Bytes of the TS are
their positions in it.  Callbacks (`TsComplete`, `TsLost`, `EcmComplete`) run
where `cusbfx2_poll` or a bulk transfer runs them.  The main loop's tests are
`LeaveLoop`, and everything behind the label `quit` is a sequence of steps that
may be entered from any failure.  `Signal` sets a flag from outside, once the
handlers are there.

**TimeShift.**  Time advances in the milliseconds `b25_thread` sleeps for; the
wall clock is `now + ahead`.  Decoding takes no time, so what is shown is the
delay the code asks for.

**CapstsLink.**  A byte is the set of its bits, so that the masks of the firmware
are set operations.  A program is the calls of one process in their order: those of
`run` for its options (`RunProgram`; an `if` that is not taken is a `Skip`), or any
other calls of the functions of `capsts.h` (`ApiProgram`).  `capsts_cmd_push` appends
to `st_cmd_queue` what the C function appends for the command, which need not be what
the command documents; beside its bytes a queue has, as a history, the commands that
were pushed.  `capsts_cmd_commit` sends it or fails, and `IrTransfer` is one of the
two transfers for each key.  A turn of `TD_Poll`'s loop is an action for each `case`.
The firmware reads whatever follows a `CMD_PORT_CFG` as the argument that is missing;
of other users of `capsts.h` it is assumed that something does follow in the same
queue, and that its own arguments are not commands (`ProgramsAssumption`, `Harmless`; what looks like the firmware's own
`CMD_EP4AUTOINLEN` may be among them where its two arguments follow): otherwise the
8-bit count wraps and the firmware executes what is left of earlier
packets.  `run` fulfils both.  The device keeps its state from one process to the next
(`NextRun`), or is loaded anew.  `addr_mask`, which is a local variable, begins
with any value of `Garbage`.

**UsbTransfer.**  `main` is the phase of `run`: allocation, submission, the main
loop, the command that stops the device, cancellation, freeing; in four of these
`p` walks along the lists.  libusb has a queue per endpoint and a status per
transfer; the device fills the oldest of a queue (`Send`), which is completed when
it is full or the device makes it short, or fails (`Fail`, `Unplug`).  `Report` is
`cusbfx2_transfer_callback`.  It happens where libusb handles events: in the polls
of the main loop and in the synchronous transfer of the stop.  After that no
events are handled, which is why a transfer may be freed that was cancelled only.

**FirmwareIR.**  `timer0` is one interrupt; the actions of `Poll` are the
instructions of `TD_Poll` that touch what the interrupt uses, and any number of
ticks may come between two of them, but one at most between the two bytes of the
code, and between the length and the index of the buffer: these are a few
instructions, and a tick is 240 cycles.  `Press`, `Release` and `GiveUp` are the host's.  The receiver is not in the
repository: it measures levels and accepts the frames that the constants of
`timer.c` describe.  Of `ir_rbuf` there is the entry that is written.

**Enumeration.**  Time is counted in the 500 ms of the search.  A device that was
given the whole image leaves the bus within one of them (`Leave`) and is back after
`AwayMin` to `AwayMax` (`Return`); one with a part of the image may do anything.
Each return is a new attachment, to which an old handle does not belong.  The list of
devices may fail at any search; after the upload that is counted (`unlisted`).

**FirmwareDispatcher.**  `pc` is the place in the loop, with a step for each point
at which an interrupt changes what follows.  `told` is the set of states of the
device the host considers possible: one after each answer, more after a request it
gave up.  The host is external, as is the USB core: a SETUP packet replaces the
one before, and nothing is acknowledged until `HSNAK` is cleared.

The modules meet in what they assume of each other: BCASStream's properties are
PseudoBCAS's environment; the count of answered ECMs of PseudoBCAS is Sniffer's
`EcmComplete`; Sniffer's pops of a chunk are TimeShift's; what Sniffer does in
`Start` and `StopDevice` are the programs of CapstsLink.  UsbTransfer is what is
behind Sniffer's `TsComplete`, `TsLost` and `EcmComplete`: that a transfer calls
back again as long as it is asked to, once, with the data in order, and that
nothing calls back when the queue has been freed.  FirmwareIR takes `CMD_IR_CODE`
where CapstsLink's `TD_Poll` executes it, with the presses and releases of its
`IrTransfer`.  Enumeration comes before Sniffer has a device, and leaves the restarted
device in the state in which CapstsLink and FirmwareDispatcher begin.
FirmwareDispatcher's `Poll` is CapstsLink's `TD_Poll`, of which it knows that it may
write `FIFORESET`.

## Runs

| Run | Shows | States |
|---|---|---|
| `bcas_stream` | the parser under all cuttings of its streams | 264 k |
| `pseudo_bcas` | the card with a history of two that overflows, and lookups | 641 k |
| `bcas_path` | three exchanges with the card through parser and pseudo card, any stretch of them lost | 912 k |
| `sniffer` | a capture with every combination of inputs, failures at every call | 97 k |
| `time_shift` | the delay, with a clock set back and forth | 742 k |
| `usb_transfer` | three transfers from allocation to freeing, ending in every way | 247 k |
| `capsts_link` | two processes after one another on one device | 240 k |
| `firmware_ir` | the timer between any two instructions of `TD_Poll` | 3.0 M |
| `dispatcher` | requests, resets and suspension between any two steps of the loop | 294 k |
| `enumeration` | two devices, an upload of which anything may be lost, a restart | 20 k |
| `stream_strip`, `port_cfg` | one disagreement each between the program and what it or its documents say | |

Type invariants are proved, not run.  `FirstIffGap` and `FirstIsRequest` of the
parser, `NothingLost` of the capture and `AllFreed` of the transfers are proved as
well.

`bcas_stream`:
- `PacketsIntact`: every packet delivered is a stretch of the stream that was
  received whole, never bytes from two places.
- `ChunkingIrrelevant`: of a stream without corruption, the packets delivered
  depend on how much was pushed and not on where it was cut.  They are compared
  with `Cut`, a recursive reference definition.
- `PushReturns`: `push` returns, or crashes as in the first finding, unless it is
  `Stuck`: at a packet whose size wraps to 0 with a checksum that fits it goes round
  for ever, and nowhere else.  The run has such packets; without the exception the
  property is violated.
- `FeedSpec`: it implements `PacketFeed`, by which a gap is flagged and followed by
  a request, and a delivered packet has the checksum of its bytes unless its size
  wraps; one that wraps is still a stretch of the stream and in order.

`pseudo_bcas`:
- `KeysMatch`, `HistoryIsLatest`, `NoPacketLost`: the key of each entry is that
  of its ECM; the history is the latest answered ECMs, in order; the cells
  allocated are those of the history and the pending one.
- `LookupServes`: a lookup during which nothing is evicted returns the key that was
  asked for or fails, and finds it if it is held from its beginning to its end,
  while others are added.
- `LookupEnds`: a lookup ends, or an eviction has disturbed it: of one that is in
  freed memory the code promises nothing.

`bcas_path`:
- `OneWrongKeyPerLoss`: a loss that the parser cannot notice, of whole packets or
  between two halves that make one with a checksum that fits, leaves one key with
  the ECM of another in the history at most.  (`KeysMatch` of the card does not hold
  here: that is the cost of the format, which numbers no packets.)
- `CatchesUp`: with the first request that comes through behind the loss all is right
  again, although an older one was left waiting: the newest entry is the last ECM
  with its key.
- `CardIsServed`: while every loss was noticed, each step of the card is one of
  `PseudoBCAS`: what that module assumes of its packets is what the parser delivers.

The module of the run also checks, of each stream, what the theorems about `BCASPath`
assume (`ReceivedAssumption`) and the condition `Complete` of one of them.

`sniffer`:
- `DecodesFromFirstKey`: all TS from the first key on is queued, in order.
- `UsedWhileAlive`: a thread that starts before the queue exists drops a
  reference it never took; nobody uses the queue when that frees it.
- `EachOnceAfterSignal`: transfers do not keep the capture alive.
- `Ends`: the program and its thread end.
- `PipeSpec`: it implements `TsPipe`, its fairness included.

`time_shift`:
- `AgedEnough`: no chunk is decoded younger than the delay, unless the clock was
  set while it waited.
- `NotHeldBack`: none waits for twice the delay.  The thread sleeps for the
  *whole* delay when a chunk is too young, not for what is left of it, so a chunk
  may in fact be decoded almost two delays old; the property says that this does
  not add up from chunk to chunk.

`usb_transfer`:
- `NoneReportedFreed`: libusb reports no transfer that was freed, although those in
  flight are freed right after they are cancelled, or without.
- `EveryoneWaits`: timeouts and errors leave a transfer with libusb as long as
  data are wanted.
- `FeedSpec`: for each endpoint it implements `TransferFeed`: the callback is given
  what the device sent, in order and once.
- `Ends`: after a signal the program ends, although the callback of B-CAS always
  asks for more.

`capsts_link`:
- `WithinPacket`: the 8-bit count of bytes never wraps, although an argument is
  missing.
- `ExecutesWhatIsPushed`: for everything but `CMD_PORT_CFG` the two sides agree
  on the arguments.
- `CapturesWhenStarted`: endpoints, clock and mode are right after the starting
  commands, from any earlier state; the mode is excepted when `addr_mask` happens
  to clear it.
- `LeavesIdle`: no endpoint sends and no key is pressed after a run whose
  transfers arrived, if the runs before ended so too.
- `DecodesEveryPacket`: the endpoint is armed again after every packet.

`firmware_ir`:
- `KeyReceived`: a key that was held for its time has been received whole, although
  the sender begins where the last key stopped (`timer.c:60`).
- `SendsOnlyWhatIsAsked`: no other code is received, wherever the interrupt comes
  between the bytes of `ir_code`; over a key that was not released, that, or a mix
  of the two, may be.  Released, the line goes to rest.
- `PlaysWithinLength`: no entry behind the end is played, although a shorter wave may
  be loaded while the player runs.  A tick that comes when the length is stored and
  the index is not (`main.c:170`, 171) may take an entry from before the old end.
  Entries before the end that no wave has loaded are played like the others.
- `RecordsRuns`: a level of the input is recorded with its duration, but for two
  ticks and one each time the counter was full.

`dispatcher`:
- `AnswersRight`: a request is answered what was asked, with the descriptors of
  the speed the bus has, whatever was given up before it.
- `DoesWhatItAcknowledges`: the device is in a state that follows from what it
  acknowledged.
- `WakesIfAllowed`: the pin wakes the bus only if the host allowed it.
- `EachAnswered`: a request is answered, unless it is given up.
A request that comes before `SetupCommand` has left the one before is excepted
(`overtaken`): see below.

`enumeration`:
- `HandlesBalanced`: `cusbfx2_open` leaves open the handle that it returns.
- `FindsRestarted`: the search is not given up while the device restarts, unless the
  list of devices could not be had as often as there are retries to spare.
- `OpeningEnds`: `cusbfx2_open` ends.

Each property was broken by a mutation of the modelled code (`mutants` in
`PROJECT.json`), under the same configuration.

## Bounds

- `bcas_stream`: a format in which a byte has 3 bits, a header is one byte and a
  request is recognised by a command of one byte.  The source's 8-bit bytes, 3
  header bytes and 4-byte command differ in the numbers only; the proofs are for
  any of them.  Streams are noise, a request and three segments out of sound,
  corrupted, short and truncated packets, all streams of eight bytes over three
  values, and noise or a request before a packet whose size wraps to 0 or 1, with a
  checksum that fits or not, and a segment; pushed in pieces of every length.  A
  parser that is stuck delivers for ever: `Bounded` stops that at `MaxPackets`.  Two packets and one fault
  between them are what every branch of the loop needs; three segments allow a
  loss, a recovery and a second loss.
- `pseudo_bcas`: two ECMs, a history of two, four cells, four answers.  The
  history overflows, the same ECM is answered twice, and a freed cell is reused
  while a lookup stands on it.  At most three cells are allocated at a time, the
  history and the pending packet; the fourth lets a new packet take other memory
  than the one that was just freed.
- `bcas_path`: three exchanges, each of one of two ECMs or of another command, of
  which every single stretch of bytes is lost, pushed in transfers of 6 bytes or all
  at once, as far as the loss: one exchange before the loss, one that it tears and
  one that shows the recovery.  (`bcas_stream` has every way of cutting.)  Checksums
  have three bits, so that torn packets are accepted much more often than with eight.
  A stream with a command inside an ECM is left out: a parser that synchronises on it
  can deliver anything.
- `sniffer`: three bytes of TS read two at a time, two transfers, two ECMs.  The
  last read is short, one transfer may be lost while the other goes on, and TS
  comes before and between the keys.
- `time_shift`: a delay of 3, four chunks, two settings of the clock by -5, -1 or
  2, up to the time 10: further and less far than the delay, in both directions.
- `capsts_link`: the programs of tsniff with at most one key, and every other
  command of `capsts.h` before and behind another; two processes.  A second one
  finds every state a first one can leave.  `PacketSize` is the 64 bytes of endpoint
  1, of which no program here uses a fifth.  One program has `CMD_EP4AUTOINLEN` among
  the arguments behind a `CMD_PORT_CFG`.
- `usb_transfer`: two transfers for the TS and one for B-CAS, buffers of two units,
  two units on each endpoint.  A transfer may be full, short, or failed with
  something in it, the second may end after the first was submitted again, and
  what was lost is followed by what is not.
- `firmware_ir`: codes of two bytes of two bits, bytes of four values, two keys that
  differ in both bytes, frames of 20 ticks at most that keep what `TimesAssumption`
  says of the source's durations (a header's low level is longer than a bit's, a pause
  longer than what precedes it, a key held for two frames), a key held for two frames
  and a tick, two waves of which one ends before the other begins.  A key is pressed at every tick of a
  frame that another has left.
- `dispatcher`: a request of each kind, for the two endpoints that share a number
  and not a register, two strings of which one exists, one pull of the pin.
  Requests that read what others set are in one group; the others are independent.
- `enumeration`: two devices, with and without the id and the firmware, an image of
  three records, ten retries as in the source, a restart of 3 to 5 of their waits
  (the 1500 ms of `discon.c:14` are 3).

## Fairness

- `BCASStream`: weak fairness of the parser's steps.  `push` is a sequential loop
  in which nothing blocks.  More of the stream need never arrive.
- `PseudoBCAS`: weak fairness of the rest of `parse_packet` once it began, and of
  each step of a lookup: both threads are runnable.  No packet need come, no
  lookup need be made.
- `Sniffer`: weak fairness of `MainStep` and `ThreadStep`: polls and commits
  return by their timeouts.  The device need never send, a signal need never come.
- `CapstsLink`: weak fairness of `TD_Poll`, which the dispatcher calls in an
  endless loop (`fw.c:239-242`).  Nothing is assumed of the host.
- `UsbTransfer`: weak fairness of the loops over the lists, of what ends a transfer
  (its timeout at the latest) and of its report: polls return by their timeouts.
  The main loop is not assumed to end without a signal.
- `Enumeration`: weak fairness of `cusbfx2_open`, its pauses, and a device that
  restarts, which has its times.
- `FirmwareDispatcher`: weak fairness of the processor, its interrupts, and the host
  that takes its answer.  The host need never resume the bus.
- `TimeShift` and `FirmwareIR` have no liveness properties: they bound durations
  instead.

## Proofs

All proofs are checked by TLAPS with SMT (Z3), Zenon and LS4.  They assume the
named `ASSUME`s of the modules: sizes are positive naturals, the format leaves
room for a command, `NoCell` is not a cell, and the like.  TLC evaluates each on
the runs.

**BCASPathProofs** is about two modules.  About BCASStream: `TypeCorrect`,
`DeliversIntactPackets`, `FlagsEveryGap`, `ResumesOnRequest`, `ImplementsFeed`.  The
inductive invariant adds to the type
invariant that `raw_stream` is the stretch of the stream from `dropped` to `fed`
(`Window`), that the parse position lies in it (`ParsedInBuffer`), that the last
packet ends at the parse position as long as the parser is synchronised
(`Linked`), and that each packet delivered was sound where it was cut
(`Delivered`).  Without `Window` nothing can be said of a packet in terms of the
stream, and without `Linked` a packet without the flag might begin anywhere.  The
properties follow from `Linked` and `Delivered`; so does the refinement, because
a delivery is an `Emit` at the parse position and everything else a stutter or a
`Receive`.

About BCASPath, for any streams and losses that keep `ReceivedAssumption`, any
transfers, any memory and any length of the history but where it is named:

- `ServesCard` (that is `CardIsServed`) and `KeysOnTheWay`: while every loss is
  noticed the packets come as `PseudoBCAS` expects them, and so its promise of the
  keys holds of them.  Packets do not overlap (`Ordered`), so that a loss inside of
  one, or before one without the flag, is in none before it and was not noticed
  (`LossInside`): a packet delivered while all losses are noticed is uncut
  (`Uncut`), hence one of the card's.  The invariant (`Paired`) then keeps the ECM the
  pseudo card was asked equal to the one the card answers at the parse position.
  One case is in the way: a packet so long that its size wraps to 0
  (`bcas_stream.c:132`) is delivered again and again; it is no response.
- `HistoryOnTheWay`: of the promises of `PseudoBCAS`, those about the history and the
  memory hold whatever the packets are, unnoticed losses included.
  `PseudoBCASProofs` is instantiated for both.
- `OneWrongKeyEach` (`OneWrongKeyPerLoss`), for any number of losses.  A response that
  would bring a wrong key is already known to come before it does (`Owing`), and the
  invariant counts it (`Charged`): wrong keys, and one more if a response owes one,
  are as many as the unnoticed losses at most.  A packet with a loss in it or right
  before it brings the loss it is charged to; every other packet is the card's and
  brings what was owed or nothing.  That it is the card's is the hypothesis `InStep`:
  torn bytes are checked by a checksum of one byte only, so that a packet accepted by
  chance may leave the parser in the middle of a sound one, from where it may take
  any bytes for a response as long as checksums fit by chance.  On the run's streams
  it is not needed.
- `NewestIsTheCards` (`CatchesUp`), for a history that has room for an entry and any
  stream that is `Complete`.  Once a request from behind the last loss was delivered
  the parser stays on the card's packets (`OnCourse`): no checksum is wrong there, so
  that it never synchronises again.  What was delivered there is the last ECM, and
  while its request waits no answer to it has passed (`Answered`).  A parser that is
  idle has taken every whole packet (`Exhausted`), so that at the end of the stream
  the answer has come.

**PseudoBCASProofs**: `TypeCorrect`, `KeysAlwaysMatch`, `HistoryAlwaysLatest`,
`NoPacketEverLost`, `LookupsServe`.  The invariant adds that the pending packet
holds the ECM the card was asked last (`PendingIsAsked`), without which a response
would not match it, and that the history is one longer than allowed between push
and eviction only (`Lengths`).  That the cells of history and pending packet are
distinct (`NoPacketLost`) is what keeps a store to one from changing another.  All
this (`Base`) holds whichever key a response brings; `KeysMatch` alone takes that it
is the key of the request before.  For
the lookup it adds that the cursor is a cell of the list, with the entry that was
held not behind it (`AtPacket`): adding to the list's end keeps that.

**SnifferProofs**: `TypeCorrect`, `LosesNothing`, `DecodesAllFromFirstKey`,
`UsesWhatIsAlive`, `StopsAfterSignal`, `ImplementsPipe`.  The invariant adds what
exists at which point of `run` (`SetUp`, `TakenDown`), and how many references the
queue has at which point of the thread, whether it saw the queue or not
(`References`, `Counted`).  A thread that starts early lets the count reach zero
only at its end, and by `TakenDown` nobody uses the queue from there on.
`ImplementsPipe` maps pushes to `Accept`, puts to `Decode` and the flush to
`Flush`; the flush is allowed because the thread has been joined with its queue
empty.

**TimeShiftProofs**: `TypeCorrect`, `AlwaysAgedEnough`, `NeverHeldBack`.  The
invariant adds that the chunks are ordered by their arrival (`Ordered`), that the
popped one is asleep until a delay after it was popped (`Delayed`) and that, the
clock not being set, what waits is younger than twice the delay at the time the
thread will wake (`InTime`).

**Cusbfx2Proofs** is about the two modules of `lib/cusbfx2.c`.  About UsbTransfer:
`TypeCorrect`, `ReportsNoneFreed`, `AllStayInUse`, `FreesAll`, `ImplementsFeed`.  The
invariant adds that libusb's queues hold the
transfers of their endpoint once each (`Lists`) and how far a loop over the lists
has come (`Progress`).  That nothing is freed while events are handled is part of
`Progress`; it holds because of the order of `run`'s last calls, and a mutant that
frees before it stops the device breaks it.  For the refinement the units that
were filled are ordered along the queue (`Ordered`): a transfer that ended
precedes those that are being filled.

About Enumeration: `OpeningTypeCorrect`, `LeavesNoHandle`, `WaitsLongEnough`.  The
invariant follows the device that was loaded: it is found, broken, or will come
back (`Reachable`), and the searches that missed it are at most the waits it was
away, one more, and those that had no list of devices (`Counted`).  With
`AwayMax + 1 < RetryMax` the search does not run out as long as the lists can be had;
for the source that leaves a restart of 4 seconds.

**CapstsLinkProofs**: `TypeCorrect`, `CountedBytes`, `ExecutedInOrder`,
`CaptureStarts`, `LeftIdle`, for any programs that keep `ProgramsAssumption`, any keys
and any number of processes, failures and kills.  The invariant has two parts.

`ParseInv` is about bytes.  A queue and a packet have their commands at offsets
(`Laid`): each begins where the one before ends, and the bytes there are those that
were pushed.  Between two turns `TD_Poll` is at one of the offsets, with the commands
before it executed (`Aligned`), or it is astray (`Astray`): it has taken the first
byte of a command that followed `CMD_PORT_CFG` for an argument and is among those of
its own arguments, none of which is a command but `CMD_EP4AUTOINLEN` with its own two
behind it, so that it passes over them and is at an offset again at the command's
end.  That a packet ends with another
command than `CMD_PORT_CFG` (`EndsOpen`) keeps the count from wrapping there.
`CountedBytes` and `ExecutedInOrder` follow.

`RunInv` is about a run.  It says what the queue holds after each of the run's calls
(`QueueIs`), which of its packets is on the way (`SentOK`), where in it `TD_Poll` is
(`PositionOK`), and what that has done to the registers: the clock (`IfConfigOK`), the
key (`KeyOK`), what has been started (`StartedOK`) and stopped (`StoppedOK`).  Each is
needed, for a packet is decoded while the host is already pushing the next one: only
that the endpoint must be armed for the next transfer keeps the two in step.  The
start is decoded with the clock set up, because the packet that sets it up was taken
before the next was accepted, in the same run; that the `CMD_IFCONFIG` in it is found
behind the shifted `CMD_MODE_IDLE` is `ParseInv`'s part.

**FirmwareIRProofs**: `TypeCorrect`, `PlaysBeforeEnd`, `RecordsDurations`,
`NothingElseIsSent`, `HeldKeyArrives`, for any sizes and durations.  Each of the parts
that share the interrupt has an invariant of its own (`PlayerOK`, `RecorderOK`,
`SenderOK`, `ReceiverOK`); that of the recorder counts the rounds of its counter.
The last two theorems need `LineInv`, which relates what the receiver has heard to
where the sender is.  While a key is sent the two are in step (`InStep`, and every bit
heard `Carries` the current code or one that may be); or the receiver has lost a frame
that a change of the code broke off, and waits for a header; or the line has been
high for longer than a bit.  A frame that begins in the middle is never heard whole,
because a header's low level is longer than any other (`GapOK`, with `TimesAssumption`).
For `HeldKeyArrives` the invariant is a budget (`HoldOK`): the ticks a key has been
held, with those left of the frame that is being sent and, if the receiver has missed
its beginning, with another frame, do not exceed those of the press.  That is where two
frames come from: the one that is begun in the middle, and a whole one.

**FirmwareDispatcherProofs**: `TypeCorrect`, `AnswersWhatIsAsked`,
`DoesNothingElse`, `WakesOnlyIfAllowed`, for any requests.  The invariant says for
each point of the loop whether the request in `SETUPDAT` was executed
(`Unserved`), what the host knows of it if it is open (`Waiting`, `Served`), or if
it was given up (`Closed`), and that the descriptors are those of the speed unless
an interrupt that sets them is pending (`AtSpeed`).

Only model-checked:
- liveness: `PushReturns`, `LookupEnds`, the two `Ends`, `OpeningEnds`,
  `EachAnswered`, `DecodesEveryPacket` and the fairness in `PipeSpec`; the prover
  does not do it;
- `ChunkingIrrelevant`, whose reference is recursive: what it computes for every
  input takes an induction over data, which the prover does not do.

## Where the program differs from its documents

1. `StripsOnlyParsed`: behind a corrupted packet, `bcas_stream.c:175` strips as
   many bytes again as were stripped at line 149, if no request is found
   meanwhile.  The comment at line 173 says it strips what was parsed.  A request
   in the buffer may be lost, or GLib refuses and NULL is dereferenced.
2. `PinsAsPushed`: `CMD_PORT_CFG` is queued with one argument and decoded with
   two (`capsts.c:85`).  The byte of the `CMD_MODE_IDLE` behind it is taken for the
   second one; the commands after that are found again, so that the capture works,
   with other pins as outputs.

The passing properties are stated with these in mind and name the condition where
they are concerned (`undisturbed`, `Has(CMD_PORT_CFG)`).

These were met while modelling, and are in the models, without a run of their own:
- `bcas_stream.c:81` reads the length of a packet from the wrong place, so that
  synchronisation is put off although the packet is there.  `bcas_stream.c:132` lets
  the size of a packet wrap at 256; one of 0, with a payload of 252 bytes and a
  checksum that fits, is never left behind (`Stuck`).
- `bcas_stream.c:162` copies the length of a packet only; `pseudo_bcas.c:93` looks at
  four bytes and may see those of an earlier packet.
- A lookup can fail for a key that is in the history all the time, because the entry
  it stands on is popped and freed by the other thread (`pseudo_bcas.c:129`, 233;
  `CompareFreed`).  `LookupServes` is stated for lookups without that.
- After a wave that was loaded at an offset alone (`firmware/tsniff/main.c:163`, 171)
  the player begins at 0 all the same, with entries that were never loaded; with one
  that ends with the buffer the length is 0 and all of it is played (`Extent`).
- `main.c:607` pads a short read of a TS file with what the buffer held before.  The
  wait for a last key at `main.c:663` is never executed.
- `cusbfx2.c:100` takes the 0 that libusb_open returns for success for a failure:
  the interface is never claimed, or claimed through a handle that is NULL.
- `cusbfx2.c:249` may find the device before it has left the bus (its comment at
  line 240 says it connects to the restarted firmware).  The handle is then of an
  attachment that ends.
- The macro `epcs` (`fw.c:138`) gives endpoint 0 the register of `EP1OUT`.  The model
  has the endpoints of the descriptors, in which 0 is not (`EndpointsAssumption`).
- A request that overtakes the end of `SetupCommand` is acknowledged without being
  executed, or its flag is cleared and it is never answered (`fw.c:248`).
- `TD_Poll` stores the lower byte of a code, which `capsts.c:192` sends first, at the
  address of `ir_code` plus one.  That is right for a compiler that stores the high
  byte first, as the one of the loaded image did, and the model follows it; the
  Makefile names SDCC, which stores the low byte first.

## What is left out

- What libarib25 does with a chunk or a key.  `ThreadPuts` is the call of it and
  `ProcEcm` its call back.
- TS from a file together with B-CAS packets from the device, which
  `README.rst:103` leaves undefined.
- What the firmware sends back on endpoint 1: the host reads it for a few
  commands that `run` does not send.
- `CMD_IR_RBUF`, by which a host may read what was recorded, and the ring it is
  read from.
- What libusb does with transfers that are freed while it has them, after the
  device is closed: no callback runs, and memory is not looked at.
- That activity of the bus wakes a processor that is about to stop is taken from
  the hardware.
- Which keys `capsts_adjust_tuner_channel` pushes for a channel.
- `pseudo_bcas`'s constant answers and its statistics; debug output; the leak of
  a pending request at release.
- How many bytes the parser's buffer may hold, and how long the decoder's queue
  may grow with a slow decoder: no document bounds either.
- The I2C library, which nothing calls; options, files, dumps, delays and register
  names of the vendor's library, build files.

## Plan

Done, in this order: `BCASPacket`, `PacketFeed`, `BCASStream`; `PseudoBCAS`;
`TsPipe`, `Sniffer`; `TimeShift`; `CapstsLink`; `TransferFeed`, `UsbTransfer`;
`FirmwareIR`; `Enumeration`; `FirmwareDispatcher`; the proofs of all of these;
`BCASPath` and its proofs.

To extend the model:
1. `TunerChannel`, on `CapstsLink`: the keys of a channel, a base channel that is
   wrong, the queue given up half sent.
2. The I2C library, if something comes to call it.

To prove more: that `InStep` holds of the streams of a card whose checksums do not fit
by chance, for which "by chance" must be stated of the bytes of two torn packets.
