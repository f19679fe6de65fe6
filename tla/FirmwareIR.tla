----------------------------- MODULE FirmwareIR ------------------------------
(***************************************************************************)
(* The infrared port of the firmware.  The interrupt of timer 0            *)
(* (firmware/tsniff/timer.c) comes every 20 us: it sends ir_code again and *)
(* again, one level of PD4 after the other, or what was loaded into        *)
(* ir_wbuf, or, if there is no code, samples PD3 into ir_rbuf.  It may     *)
(* come between any two steps of TD_Poll (firmware/tsniff/main.c), which   *)
(* stores ir_code one byte after the other as an 8-bit processor does.     *)
(*                                                                         *)
(* The host presses and releases keys as capsts_ir_cmd_commit (lib/capsts.c) *)
(* does, or gives up between; the receiver is the tuner's, and knows the   *)
(* durations that the firmware gives a frame.  A code is the sequence of   *)
(* its bits from the lowest on, as the compiler of the loaded image stores *)
(* them: the byte at the address plus one is the lower one.  Durations and *)
(* the range of a byte are parameters.  CMD_IR_RBUF, by which ir_rbuf can  *)
(* be read, is left out, and of ir_rbuf there is what is written to it.    *)
(***************************************************************************)
EXTENDS Integers, Sequences

CONSTANTS
    Keys,           \* codes of keys
    ByteBits,       \* bits of each of the two bytes of a code
    Bytes,          \* 256: the values of a byte, the entries of ir_wbuf
    Waves,          \* what CMD_IR_WBUF may bring: an offset and entries
    Interval, HeaderLow, HeaderHigh, Low, One, Zero,    \* levels of a frame, in ticks
    Hold,           \* for how long a key is pressed, 600 ms
    Pause,          \* and none is after it, 100 ms
    MaxRun          \* bounds how long PD3 stays the same while it is sampled

Bits == 2 * ByteBits
Code == [1 .. Bits -> {0, 1}]

NoCode     == [i \in 1 .. Bits |-> 0]
BufferCode == [i \in 1 .. Bits |-> 1]

Level == {0, 1}
Entry == [len : {n \in 0 .. Bytes - 1 : n % 2 = 0}, level : Level]

\* The levels of a frame: states 0 to 3, then two for each bit.
States == 4 + 2 * Bits

Frame == Interval + HeaderLow + HeaderHigh + Low + Bits * (One + Low)

\* The lower byte of a code beside the upper one of another.
LowByte(c, rest) == [i \in 1 .. Bits |-> IF i <= ByteBits THEN c[i] ELSE rest[i]]

\* Two keys mixed are neither of the codes that send nothing (capsts.h:86-128).
ASSUME CodeAssumption ==
    /\ ByteBits \in Nat \ {0}
    /\ Keys \subseteq Code
    /\ \A c, k \in Keys : LowByte(c, k) \notin {NoCode, BufferCode}
ASSUME BufferAssumption ==
    /\ Bytes \in Nat /\ Bytes > 2 /\ Bytes % 2 = 0
    /\ \A w \in Waves : /\ w.ofs \in 0 .. Bytes - 1
                        /\ w.data \in Seq(Entry) /\ w.data # << >>
\* A pause outlasts the last low level and any high level but the interval; while a
\* key is held, there is time for what is left of a frame and for another.
ASSUME TimesAssumption ==
    /\ {Interval, HeaderLow, HeaderHigh, Low, One, Zero, Hold, Pause, MaxRun} \subseteq Nat \ {0}
    /\ Low < HeaderLow /\ Zero < One
    /\ HeaderLow < Interval /\ HeaderHigh < Interval /\ One < Interval
    /\ HeaderLow + HeaderHigh < Pause /\ HeaderLow + One < Pause
    /\ 2 * Frame < Hold

VARIABLES
    ir_code, ir_state, ir_bits, us20_wait, PD4,
    ir_old, ir_cnt, ir_rbuf,
    ir_wbuf, ir_wbuf_len, ir_wbuf_idx, ir_wbuf_cnt,
    poll,           \* what TD_Poll is in the middle of
    key, held, ticks,       \* the host: the key it sent last, whether it holds it, since when
    since, seen, got,       \* the receiver: the level's duration, levels and bits of a frame
    received,       \* history: what was received since the last press
    may,            \* history: what may be received
    run, noted      \* history: the duration of PD3's level, and what of it is in ir_rbuf

sender   == <<ir_code, ir_state, ir_bits, us20_wait>>
line     == <<PD4, since, seen, got, received>>
recorder == <<ir_old, ir_cnt, ir_rbuf, run, noted>>
buffer   == <<ir_wbuf, ir_wbuf_len>>
player   == <<ir_wbuf_idx, ir_wbuf_cnt>>
host     == <<key, held, ticks, may>>
vars     == <<sender, line, recorder, buffer, player, poll, host>>

Idle == [op |-> "idle"]

Init ==
    /\ ir_code = NoCode /\ ir_state = 0 /\ ir_bits = << >> /\ us20_wait = 0
    /\ PD4 = 0 /\ since = 0 /\ seen = 0 /\ got = << >> /\ received = {}
    /\ ir_old = 1 /\ ir_cnt = 0 /\ ir_rbuf = [len |-> 0, level |-> 0]
    /\ run = 0 /\ noted = 0
    /\ ir_wbuf = [i \in 0 .. Bytes - 1 |-> [len |-> 0, level |-> 0]]
    /\ ir_wbuf_len = 0 /\ ir_wbuf_idx = 0 /\ ir_wbuf_cnt = 0
    /\ poll = Idle
    /\ key = NoCode /\ held = FALSE /\ ticks = 0 /\ may = {}

-----------------------------------------------------------------------------
(* The receiver *)

\* The level of a frame that follows after k of them, the header's low first.
Expected(k, level, duration) ==
    \/ k = 0 /\ level = 0 /\ duration = HeaderLow
    \/ k = 1 /\ level = 1 /\ duration = HeaderHigh
    \/ k > 1 /\ k % 2 = 0 /\ level = 0 /\ duration = Low
    \/ k > 1 /\ k % 2 = 1 /\ level = 1 /\ duration \in {One, Zero}

\* A level ends when PD4 changes; with the last of a frame a code is received.
Hear(level, duration) ==
    LET k == IF Expected(seen, level, duration) THEN seen + 1
                ELSE IF Expected(0, level, duration) THEN 1 ELSE 0
        bits == IF k <= 3 THEN << >>
                ELSE IF level = 0 THEN got
                ELSE Append(got, IF duration = One THEN 1 ELSE 0)
    IN IF k = States - 1
       THEN /\ seen' = 0 /\ got' = << >>
            /\ received' = received \union {bits}
       ELSE /\ seen' = k /\ got' = bits
            /\ UNCHANGED received

\* PD4 is set, by the interrupt and only by it.
SetPD4(level) ==
    /\ PD4' = level
    /\ IF level = PD4
       THEN /\ since' = IF since < Interval + 1 THEN since + 1 ELSE since
            /\ UNCHANGED <<seen, got, received>>
       ELSE since' = 1 /\ Hear(PD4, since)

-----------------------------------------------------------------------------
(* The timer's interrupt *)

\* Bug: the counter goes on when the level changes.
RecordOn(level) ==
    IF level = ir_old
    THEN /\ IF ir_cnt + 1 = Bytes - 1
            THEN /\ ir_cnt' = 0
                 /\ ir_rbuf' = [len |-> Bytes - 2, level |-> ir_old]
                 /\ noted' = noted + Bytes - 2
            ELSE /\ ir_cnt' = ir_cnt + 1
                 /\ UNCHANGED <<ir_rbuf, noted>>
         /\ run' = run + 1
         /\ UNCHANGED ir_old
    ELSE /\ ir_rbuf' = [len |-> ir_cnt - (ir_cnt % 2), level |-> ir_old]
         /\ ir_old' = level
         /\ UNCHANGED ir_cnt
         /\ run' = 1 /\ noted' = 0

\* No code: the run lengths of PD3 are recorded, in a byte whose lowest bit is
\* the level.
Record(level) ==
    IF level = ir_old
    THEN /\ IF ir_cnt + 1 = Bytes - 1
            THEN /\ ir_cnt' = 0
                 /\ ir_rbuf' = [len |-> Bytes - 2, level |-> ir_old]
                 /\ noted' = noted + Bytes - 2
            ELSE /\ ir_cnt' = ir_cnt + 1
                 /\ UNCHANGED <<ir_rbuf, noted>>
         /\ run' = run + 1
         /\ UNCHANGED ir_old
    ELSE /\ ir_rbuf' = [len |-> ir_cnt - (ir_cnt % 2), level |-> ir_old]
         /\ ir_old' = level
         /\ ir_cnt' = 0
         /\ run' = 1 /\ noted' = 0

\* Bug: the line stays as the last code left it.
SampleOnly ==
    /\ ir_code = NoCode
    /\ us20_wait' = 0
    /\ SetPD4(PD4)
    /\ \E level \in Level : (level = ir_old => run < MaxRun) /\ Record(level)
    /\ UNCHANGED <<ir_state, ir_bits, player>>

Sample ==
    /\ ir_code = NoCode
    /\ us20_wait' = 0
    /\ SetPD4(1)
    /\ \E level \in Level : (level = ir_old => run < MaxRun) /\ Record(level)
    /\ UNCHANGED <<ir_state, ir_bits, player>>

\* How much of ir_wbuf is played: with the length 0, which the index never meets, all.
Extent(len) == IF len = 0 THEN Bytes ELSE len

\* The entry that is due is played for its length, and for a round of the counter
\* if that is 0.
Play ==
    /\ ir_code = BufferCode
    /\ us20_wait' = 0
    /\ IF ir_wbuf_cnt = 1
       THEN /\ SetPD4(ir_wbuf[ir_wbuf_idx].level)
            /\ ir_wbuf_cnt' = ir_wbuf[ir_wbuf_idx].len
            /\ LET next == (ir_wbuf_idx + 1) % Bytes
               IN ir_wbuf_idx' = IF next = ir_wbuf_len THEN 0 ELSE next
       ELSE /\ ir_wbuf_cnt' = (ir_wbuf_cnt - 1) % Bytes
            /\ SetPD4(PD4)
            /\ UNCHANGED ir_wbuf_idx
    /\ UNCHANGED <<ir_state, ir_bits, recorder>>

\* Bug: the bits are not shifted.
SendSameBit ==
    \/ ir_state = 0 /\ us20_wait' = Interval   /\ SetPD4(1) /\ UNCHANGED ir_bits
    \/ ir_state = 1 /\ us20_wait' = HeaderLow  /\ SetPD4(0) /\ UNCHANGED ir_bits
    \/ ir_state = 2 /\ us20_wait' = HeaderHigh /\ SetPD4(1) /\ UNCHANGED ir_bits
    \/ ir_state = 3 /\ us20_wait' = Low        /\ SetPD4(0) /\ ir_bits' = ir_code
    \/ /\ ir_state > 3 /\ ir_state % 2 = 0
       /\ us20_wait' = IF Head(ir_bits) = 1 THEN One ELSE Zero
       /\ SetPD4(1)
       /\ UNCHANGED ir_bits
    \/ /\ ir_state > 3 /\ ir_state % 2 = 1
       /\ us20_wait' = Low
       /\ SetPD4(0)
       /\ UNCHANGED ir_bits

\* One level of the frame.  The code is taken once for each frame.
SendLevel ==
    \/ ir_state = 0 /\ us20_wait' = Interval   /\ SetPD4(1) /\ UNCHANGED ir_bits
    \/ ir_state = 1 /\ us20_wait' = HeaderLow  /\ SetPD4(0) /\ UNCHANGED ir_bits
    \/ ir_state = 2 /\ us20_wait' = HeaderHigh /\ SetPD4(1) /\ UNCHANGED ir_bits
    \/ ir_state = 3 /\ us20_wait' = Low        /\ SetPD4(0) /\ ir_bits' = ir_code
    \/ /\ ir_state > 3 /\ ir_state % 2 = 0
       /\ us20_wait' = IF Head(ir_bits) = 1 THEN One ELSE Zero
       /\ SetPD4(1)
       /\ ir_bits' = Tail(ir_bits)
    \/ /\ ir_state > 3 /\ ir_state % 2 = 1
       /\ us20_wait' = Low
       /\ SetPD4(0)
       /\ UNCHANGED ir_bits

Send ==
    /\ ir_code \notin {NoCode, BufferCode}
    /\ SendLevel
    /\ ir_state' = (ir_state + 1) % States
    /\ UNCHANGED <<recorder, player>>

\* The host's clock; and the few instructions between the bytes of ir_code, or between
\* the length and the index of ir_wbuf, which last for less than a tick.
Elapse ==
    /\ ticks' = IF ticks < (IF held THEN Hold ELSE Pause) THEN ticks + 1 ELSE ticks
    /\ \/ poll.op \notin {"code", "index"} /\ UNCHANGED poll
       \/ poll.op \in {"code", "index"} /\ ~poll.ticked /\ poll' = [poll EXCEPT !.ticked = TRUE]

timer0 ==
    /\ Elapse
    /\ IF us20_wait > 1
       THEN /\ us20_wait' = us20_wait - 1
            /\ SetPD4(PD4)
            /\ UNCHANGED <<ir_state, ir_bits, recorder, player>>
       ELSE Sample \/ Play \/ Send
    /\ UNCHANGED <<ir_code, buffer, key, held, may>>

-----------------------------------------------------------------------------
(* TD_Poll *)

\* CMD_IR_CODE stores the lower byte, then the upper one.
WriteLow(c) ==
    /\ poll = Idle
    /\ ir_code' = LowByte(c, ir_code)
    /\ poll' = [op |-> "code", code |-> c, ticked |-> FALSE]

WriteHigh ==
    /\ poll.op = "code"
    /\ ir_code' = LowByte(ir_code, poll.code)
    /\ poll' = Idle
    /\ UNCHANGED <<ir_state, ir_bits, us20_wait, line, recorder, buffer, player, host>>

\* CMD_IR_WBUF copies the entries, and makes the player begin with the first.
Load(w) ==
    /\ poll = Idle
    /\ poll' = [op |-> "data", i |-> w.ofs, data |-> w.data]
    /\ UNCHANGED <<sender, line, recorder, buffer, player, host>>

CopyEntry ==
    /\ poll.op = "data" /\ poll.data # << >>
    /\ ir_wbuf' = [ir_wbuf EXCEPT ![poll.i] = Head(poll.data)]
    /\ poll' = [poll EXCEPT !.i = (@ + 1) % Bytes, !.data = Tail(@)]
    /\ UNCHANGED <<sender, line, recorder, ir_wbuf_len, player, host>>

\* The length before is kept as a history.
SetLength ==
    /\ poll.op = "data" /\ poll.data = << >>
    /\ ir_wbuf_len' = poll.i
    /\ poll' = [op |-> "index", len |-> ir_wbuf_len, ticked |-> FALSE]
    /\ UNCHANGED <<sender, line, recorder, ir_wbuf, player, host>>

\* Bug: the player goes on where it was.
KeepIndex ==
    /\ poll.op = "index"
    /\ UNCHANGED ir_wbuf_idx
    /\ poll' = Idle
    /\ UNCHANGED <<sender, line, recorder, buffer, ir_wbuf_cnt, host>>

SetIndex ==
    /\ poll.op = "index"
    /\ ir_wbuf_idx' = 0
    /\ poll' = Idle
    /\ UNCHANGED <<sender, line, recorder, buffer, ir_wbuf_cnt, host>>

-----------------------------------------------------------------------------
(* The host: capsts_ir_cmd_commit *)

\* A key is pressed after the pause, or over one that was not released.
Press(c) ==
    /\ ~held /\ (key = NoCode => ticks = Pause)
    /\ WriteLow(c)
    /\ key' = c /\ held' = TRUE /\ ticks' = 0
    /\ received' = {}
    /\ may' = IF BufferCode \in {c, key} THEN Code
              ELSE IF key = NoCode THEN {c}
              ELSE may \union {c, LowByte(c, key)}
    /\ UNCHANGED <<ir_state, ir_bits, us20_wait, PD4, since, seen, got, recorder, buffer,
                   player>>

Release ==
    /\ held /\ ticks = Hold
    /\ WriteLow(NoCode)
    /\ key' = NoCode /\ held' = FALSE /\ ticks' = 0
    /\ UNCHANGED <<ir_state, ir_bits, us20_wait, line, recorder, buffer, player, may>>

\* The process is killed, or the transfer that releases the key fails.
GiveUp ==
    /\ held /\ poll.op # "code"
    /\ held' = FALSE
    /\ ticks' = 0
    /\ UNCHANGED <<sender, line, recorder, buffer, player, poll, key, may>>

Poll ==
    \/ WriteHigh \/ CopyEntry \/ SetLength \/ SetIndex
    \/ \E w \in Waves : Load(w)

Host == GiveUp \/ Release \/ \E c \in Keys \union {BufferCode} : Press(c)

Next == timer0 \/ Poll \/ Host

Spec == Init /\ [][Next]_vars

-----------------------------------------------------------------------------
(* Properties *)

TypeOK ==
    /\ ir_code \in Code /\ ir_state \in 0 .. States - 1
    /\ ir_bits \in Seq({0, 1}) /\ Len(ir_bits) <= Bits
    /\ us20_wait \in 0 .. Interval + HeaderLow + HeaderHigh + Low + One
    /\ PD4 \in Level /\ since \in 0 .. Interval + 1
    /\ seen \in 0 .. States - 2 /\ got \in Seq({0, 1})
    /\ ir_old \in Level /\ ir_cnt \in 0 .. Bytes - 2 /\ ir_rbuf \in Entry
    /\ ir_wbuf \in [0 .. Bytes - 1 -> Entry]
    /\ {ir_wbuf_len, ir_wbuf_idx, ir_wbuf_cnt} \subseteq 0 .. Bytes - 1
    /\ key \in Code /\ held \in BOOLEAN
    /\ received \subseteq Code

\* A key that was held for its 600 ms has been received whole, although the frames
\* go on where the key before stopped (timer.c:60, ir_state is never reset).
KeyReceived ==
    held /\ ticks = Hold /\ key # BufferCode => key \in received

\* The receiver gets the key that is pressed and no other, however the bytes of
\* ir_code are stored between the ticks (main.c:185); when a key is pressed over one
\* that was not released, it may get that or the two mixed.  With no key pressed the
\* line is at rest once the last level is over.
SendsOnlyWhatIsAsked ==
    /\ received \subseteq may
    /\ key = NoCode /\ ticks >= HeaderLow + 1 => PD4 = 1

\* No entry behind the end is played: the player never runs on through the rest of
\* the buffer, even if a shorter wave is loaded while it plays and a tick comes when
\* the length is the new one and the index not yet 0 (main.c:170-171); such a tick may
\* take an entry from before the old end.  Of entries before the end nothing is said:
\* those below the offset of a wave are played whether they were ever loaded or not.
PlaysWithinLength ==
    [][ir_wbuf_cnt = 1 /\ ir_wbuf_cnt' # 1 =>
          \/ ir_wbuf_idx < Extent(ir_wbuf_len)
          \/ poll.op = "index" /\ ir_wbuf_idx < Extent(poll.len)]_vars

\* A level of PD3 is recorded with its duration less at most two ticks, and one for
\* each time the counter was full (timer.c:43-54).
RecordsRuns ==
    [][run' <= run /\ run # 0 /\ ir_code = NoCode /\ ir_old' # ir_old =>
          run - noted - ir_rbuf'.len \in 0 .. 2 + run \div (Bytes - 1)]_vars
=============================================================================
