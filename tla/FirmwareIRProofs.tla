--------------------------- MODULE FirmwareIRProofs ---------------------------
(***************************************************************************)
(* Proofs about FirmwareIR, for codes and buffers of any size and every    *)
(* choice of the durations.  Each of the parts that share the interrupt    *)
(* has an invariant of its own, and only the actions that touch its        *)
(* variables have to be looked at.                                         *)
(***************************************************************************)
EXTENDS FirmwareIR, TLAPS

\* What TD_Poll can be in the middle of.
PollOK ==
    \/ poll = Idle
    \/ poll \in [op : {"code"}, code : Code, ticked : BOOLEAN]
    \/ poll \in [op : {"data"}, i : 0 .. Bytes - 1, data : Seq(Entry)]
    \/ poll \in [op : {"index"}, len : 0 .. Bytes - 1, ticked : BOOLEAN]

\* The player stays before the end; when the length is new and the index is not, before
\* the old end, until it may have played an entry.
PlayerOK ==
    /\ {ir_wbuf_len, ir_wbuf_idx, ir_wbuf_cnt} \subseteq 0 .. Bytes - 1
    /\ ir_wbuf \in [0 .. Bytes - 1 -> Entry]
    /\ poll.op # "index" => ir_wbuf_idx < Extent(ir_wbuf_len)
    /\ poll.op = "index" /\ ~poll.ticked => ir_wbuf_idx < Extent(poll.len)

\* The level of PD3 has lasted for the rounds of the counter, each of them one tick
\* longer than what it notes, for what the counter shows, and for the tick at which it
\* began.
RecorderOK ==
    /\ ir_old \in Level /\ ir_cnt \in 0 .. Bytes - 2
    /\ ir_rbuf \in Entry
    /\ run \in Nat /\ noted \in Nat
    /\ \E rounds \in Nat :
          /\ noted = rounds * (Bytes - 2)
          /\ run - ir_cnt - rounds * (Bytes - 1) \in {0, 1}

\* The bits of the code that are not sent yet.
SenderOK ==
    /\ ir_code \in Code /\ ir_state \in 0 .. States - 1
    /\ ir_bits \in Seq({0, 1})
    /\ Len(ir_bits) <= Bits
    /\ ir_state > 3 => 2 * Len(ir_bits) = 2 * Bits - ir_state + 3 + ((ir_state + 1) % 2)
    /\ us20_wait \in 0 .. Interval + HeaderLow + HeaderHigh + Low + One

\* The bits of a frame that were received so far.
ReceiverOK ==
    /\ PD4 \in Level /\ since \in 0 .. Interval + 1
    /\ seen \in 0 .. States - 2 /\ got \in Seq({0, 1})
    /\ 2 * Len(got) = IF seen <= 3 THEN 0 ELSE seen - 2 - (seen % 2)
    /\ received \subseteq Code

HostOK == key \in Code /\ held \in BOOLEAN

IInv == PollOK /\ PlayerOK /\ RecorderOK /\ SenderOK /\ ReceiverOK /\ HostOK

-----------------------------------------------------------------------------
(* Bits and codes *)

LEMMA Sizes ==
  /\ Bits \in Nat \ {0} /\ States \in Nat /\ States = 4 + 2 * Bits
  /\ Bytes \in Nat /\ Bytes > 2
  /\ Interval \in Nat \ {0} /\ HeaderLow \in Nat \ {0} /\ HeaderHigh \in Nat \ {0}
  /\ Low \in Nat \ {0} /\ One \in Nat \ {0} /\ Zero \in Nat \ {0}
  BY CodeAssumption, BufferAssumption, TimesAssumption DEF Bits, States

LEMMA Codes == NoCode \in Code /\ BufferCode \in Code /\ Keys \subseteq Code
  BY CodeAssumption DEF NoCode, BufferCode, Code

\* A code is a sequence of its bits, and such a sequence is a code.
LEMMA CodeIsSeq ==
  ASSUME NEW c
  PROVE  c \in Code <=> c \in Seq({0, 1}) /\ Len(c) = Bits
  BY Sizes DEF Code

LEMMA NoBits == << >> \in Seq({0, 1}) /\ Len(<< >>) = 0
  OBVIOUS

LEMMA LowByteCode ==
  ASSUME NEW c \in Code, NEW rest \in Code
  PROVE  LowByte(c, rest) \in Code
  BY DEF LowByte, Code

-----------------------------------------------------------------------------

LEMMA InitIInv == Init => IInv
<1> SUFFICES ASSUME Init PROVE IInv
  OBVIOUS
<1>1. PollOK /\ PlayerOK
  BY Sizes, BufferAssumption DEF Init, PollOK, PlayerOK, Idle, Entry, Level, Extent
<1>2. RecorderOK
  <2>1. 0 = 0 * (Bytes - 2) /\ 0 - 0 - 0 * (Bytes - 1) \in {0, 1}
    BY Sizes
  <2> QED BY <2>1, Sizes, BufferAssumption DEF Init, RecorderOK, Entry, Level
<1>3. SenderOK /\ ReceiverOK /\ HostOK
  <2>1. SenderOK
    BY Sizes, Codes, NoBits DEF Init, SenderOK
  <2>2. ReceiverOK
    <3>1. got \in Seq({0, 1}) /\ Len(got) = 0
      BY NoBits DEF Init
    <3>2. /\ PD4 \in Level /\ since \in 0 .. Interval + 1
          /\ seen = 0 /\ seen \in 0 .. States - 2 /\ received \subseteq Code
      BY Sizes DEF Init, Level
    <3> QED BY <3>1, <3>2 DEF ReceiverOK
  <2> QED BY <2>1, <2>2, Codes DEF Init, HostOK
<1> QED BY <1>1, <1>2, <1>3 DEF IInv

LEMMA ReceiverStep ==
  ASSUME ReceiverOK, NEW level \in Level, SetPD4(level)
  PROVE  ReceiverOK'
<1> USE DEF ReceiverOK
<1>1. CASE level = PD4
  BY <1>1, Sizes DEF SetPD4
<1>2. CASE level # PD4
  <2> DEFINE k == IF Expected(seen, PD4, since) THEN seen + 1
                  ELSE IF Expected(0, PD4, since) THEN 1 ELSE 0
             bits == IF k <= 3 THEN << >>
                     ELSE IF PD4 = 0 THEN got
                     ELSE Append(got, IF since = One THEN 1 ELSE 0)
  <2>1. k \in 0 .. States - 1
    BY Sizes
  <2>2. ASSUME k > 3
        PROVE  /\ k = seen + 1 /\ seen \in Nat /\ seen >= 3
               /\ PD4 = 0 => seen % 2 = 0
               /\ PD4 = 1 => seen % 2 = 1
    <3>1. k = seen + 1 /\ seen \in Nat /\ seen >= 3 /\ Expected(seen, PD4, since)
      BY <2>2, Sizes
    <3>2. CASE seen % 2 = 0
      BY <3>1, <3>2 DEF Expected
    <3>3. CASE seen % 2 = 1
      BY <3>1, <3>3 DEF Expected
    <3> QED BY <3>1, <3>2, <3>3
  <2>3. /\ bits \in Seq({0, 1})
        /\ 2 * Len(bits) = IF k <= 3 THEN 0 ELSE k - 2 - (k % 2)
    <3>1. CASE k <= 3
      BY <3>1
    <3>2. CASE k > 3 /\ PD4 = 0
      BY <2>2, <3>2
    <3>3. CASE k > 3 /\ PD4 = 1
      <4>1. bits \in Seq({0, 1}) /\ Len(bits) = Len(got) + 1
        BY <3>3
      <4> QED BY <2>2, <3>3, <4>1
    <3> QED BY <2>1, <3>1, <3>2, <3>3, Sizes DEF Level
  <2>4. k = States - 1 => Len(bits) = Bits
    BY <2>3, Sizes
  <2>5. Hear(PD4, since) /\ since' = 1 /\ PD4' = level
    BY <1>2 DEF SetPD4
  <2>6. CASE k = States - 1
    <3>1. bits \in Code
      BY <2>3, <2>4, <2>6, CodeIsSeq
    <3>2. seen' = 0 /\ got' = << >> /\ received' = received \union {bits}
      BY <2>5, <2>6 DEF Hear
    <3>3. PD4' \in Level /\ since' \in 0 .. Interval + 1
      BY <2>5, Sizes
    <3>4. received' \subseteq Code
      <4> HIDE DEF bits
      <4> QED BY <3>1, <3>2
    <3>5. seen' \in 0 .. States - 2
      BY <3>2, Sizes
    <3>6. got' \in Seq({0, 1}) /\ Len(got') = 0
      BY <3>2, NoBits
    <3> QED BY <3>2, <3>3, <3>4, <3>5, <3>6
  <2>7. CASE k # States - 1
    <3>1. seen' = k /\ got' = bits /\ received' = received
      BY <2>5, <2>7 DEF Hear
    <3> QED BY <2>1, <2>3, <2>5, <2>7, <3>1, Sizes
  <2> QED BY <2>6, <2>7
<1> QED BY <1>1, <1>2

LEMMA RecorderStep ==
  ASSUME RecorderOK, NEW level \in Level, Record(level)
  PROVE  RecorderOK'
<1> USE DEF RecorderOK
<1>1. PICK rounds \in Nat : /\ noted = rounds * (Bytes - 2)
                            /\ run - ir_cnt - rounds * (Bytes - 1) \in {0, 1}
  OBVIOUS
<1>2. /\ (rounds + 1) * (Bytes - 2) = rounds * (Bytes - 2) + (Bytes - 2)
      /\ (rounds + 1) * (Bytes - 1) = rounds * (Bytes - 1) + (Bytes - 1)
      /\ 0 * (Bytes - 2) = 0 /\ 0 * (Bytes - 1) = 0
      /\ rounds * (Bytes - 2) \in Int /\ rounds * (Bytes - 1) \in Int
  BY Sizes
<1>3. CASE level = ir_old /\ ir_cnt + 1 = Bytes - 1
  <2>1. /\ ir_cnt' = 0 /\ noted' = noted + Bytes - 2 /\ run' = run + 1 /\ ir_old' = ir_old
        /\ ir_rbuf' = [len |-> Bytes - 2, level |-> ir_old]
    BY <1>3 DEF Record
  <2>2. ir_rbuf' \in Entry
    BY <2>1, Sizes, BufferAssumption DEF Entry
  <2>3. /\ noted' = (rounds + 1) * (Bytes - 2)
        /\ run' - ir_cnt' - (rounds + 1) * (Bytes - 1) \in {0, 1}
    BY <1>1, <1>2, <1>3, <2>1, Sizes
  <2>4. ir_cnt' \in 0 .. Bytes - 2 /\ run' \in Nat /\ noted' \in Nat /\ ir_old' \in Level
    BY <2>1, Sizes
  <2> QED BY <2>2, <2>3, <2>4
<1>4. CASE level = ir_old /\ ir_cnt + 1 # Bytes - 1
  <2>1. ir_cnt' = ir_cnt + 1 /\ run' = run + 1 /\ UNCHANGED <<noted, ir_rbuf, ir_old>>
    BY <1>4 DEF Record
  <2>2. ir_cnt' \in 0 .. Bytes - 2 /\ run' \in Nat
    BY <1>4, <2>1, Sizes
  <2>3. run' - ir_cnt' - rounds * (Bytes - 1) \in {0, 1}
    BY <1>1, <1>2, <2>1, Sizes
  <2> QED BY <1>1, <2>1, <2>2, <2>3
<1>5. CASE level # ir_old
  <2>1. /\ ir_cnt' = 0 /\ noted' = 0 /\ run' = 1 /\ ir_old' = level
        /\ ir_rbuf' = [len |-> ir_cnt - (ir_cnt % 2), level |-> ir_old]
    BY <1>5 DEF Record
  <2>2. ir_rbuf' \in Entry
    BY <2>1, Sizes DEF Entry
  <2>3. noted' = 0 * (Bytes - 2) /\ run' - ir_cnt' - 0 * (Bytes - 1) \in {0, 1}
    BY <1>2, <2>1
  <2> QED BY <2>1, <2>2, <2>3, Sizes
<1> QED BY <1>3, <1>4, <1>5

LEMMA SenderStep ==
  ASSUME SenderOK, ReceiverOK, Send, ir_code' = ir_code
  PROVE  SenderOK' /\ ReceiverOK'
<1>1. ir_state \in 0 .. States - 1 /\ ir_state' = (ir_state + 1) % States
  BY DEF SenderOK, Send
<1>2. ir_state' \in 0 .. States - 1 /\ (ir_state' > 3 => ir_state' = ir_state + 1)
  BY <1>1, Sizes
<1>3. ASSUME ir_bits' \in Seq({0, 1}), Len(ir_bits') <= Bits,
             ir_state >= 3 =>
                 2 * Len(ir_bits') = 2 * Bits - (ir_state + 1) + 3 + ((ir_state + 2) % 2),
             us20_wait' \in {Interval, HeaderLow, HeaderHigh, Low, One, Zero}
      PROVE  SenderOK'
  <2>1. us20_wait' \in 0 .. Interval + HeaderLow + HeaderHigh + Low + One
    BY <1>3, Sizes, TimesAssumption
  <2>2. ir_state' > 3 =>
            2 * Len(ir_bits') = 2 * Bits - ir_state' + 3 + ((ir_state' + 1) % 2)
    BY <1>1, <1>2, <1>3
  <2> QED BY <1>2, <1>3, <2>1, <2>2 DEF SenderOK
<1>4. CASE ir_state < 3
  <2>1. /\ UNCHANGED ir_bits
        /\ us20_wait' \in {Interval, HeaderLow, HeaderHigh}
        /\ SetPD4(0) \/ SetPD4(1)
    BY <1>1, <1>4 DEF Send, SendLevel
  <2> QED BY <1>1, <1>3, <1>4, <2>1, ReceiverStep DEF SenderOK, Level
<1>5. CASE ir_state = 3
  <2>1. ir_bits' = ir_code /\ us20_wait' = Low /\ SetPD4(0)
    BY <1>5 DEF Send, SendLevel
  <2>2. ir_bits' \in Seq({0, 1}) /\ Len(ir_bits') = Bits
    BY <2>1, CodeIsSeq DEF SenderOK
  <2> QED BY <1>3, <1>5, <2>1, <2>2, ReceiverStep, Sizes DEF Level
<1>6. CASE ir_state > 3 /\ ir_state % 2 = 0
  <2>1. ir_bits' = Tail(ir_bits) /\ us20_wait' \in {One, Zero} /\ SetPD4(1)
    BY <1>1, <1>6 DEF Send, SendLevel
  <2>2. /\ ir_bits \in Seq({0, 1}) /\ Len(ir_bits) <= Bits
        /\ 2 * Len(ir_bits) = 2 * Bits - ir_state + 4
    <3>1. (ir_state + 1) % 2 = 1
      BY <1>1, <1>6, Sizes
    <3> QED BY <1>1, <1>6, <3>1, Sizes DEF SenderOK
  <2>3. Len(ir_bits) > 0
    BY <1>1, <1>6, <2>2, Sizes
  <2>4. ir_bits' \in Seq({0, 1}) /\ Len(ir_bits') = Len(ir_bits) - 1
    BY <2>1, <2>2, <2>3
  <2>5. 2 * Len(ir_bits') = 2 * Bits - (ir_state + 1) + 3 + ((ir_state + 2) % 2)
    BY <1>1, <1>6, <2>2, <2>3, <2>4, Sizes
  <2> QED BY <1>3, <2>1, <2>2, <2>3, <2>4, <2>5, ReceiverStep, Sizes DEF Level
<1>7. CASE ir_state > 3 /\ ir_state % 2 = 1
  <2>1. ir_bits' = ir_bits /\ us20_wait' = Low /\ SetPD4(0)
    BY <1>1, <1>7 DEF Send, SendLevel
  <2>2. /\ ir_bits \in Seq({0, 1}) /\ Len(ir_bits) <= Bits
        /\ 2 * Len(ir_bits) = 2 * Bits - ir_state + 3
    <3>1. (ir_state + 1) % 2 = 0
      BY <1>1, <1>7, Sizes
    <3> QED BY <1>1, <1>7, <3>1, Sizes DEF SenderOK
  <2>3. 2 * Len(ir_bits') = 2 * Bits - (ir_state + 1) + 3 + ((ir_state + 2) % 2)
    BY <1>1, <1>7, <2>1, <2>2, Sizes
  <2> QED BY <1>3, <2>1, <2>2, <2>3, ReceiverStep DEF Level
<1> QED BY <1>1, <1>4, <1>5, <1>6, <1>7

-----------------------------------------------------------------------------
(* Steps *)

LEMMA TimerStep ==
  ASSUME IInv, timer0
  PROVE  IInv'
<1>1. PollOK' /\ poll'.op = poll.op /\ (poll.op = "index" => ~poll.ticked /\ poll'.ticked)
  <2>1. CASE poll.op \notin {"code", "index"} /\ UNCHANGED poll
    BY <2>1 DEF IInv, PollOK
  <2>2. CASE poll.op = "code" /\ poll' = [poll EXCEPT !.ticked = TRUE]
    <3>1. poll \in [op : {"code"}, code : Code, ticked : BOOLEAN]
      BY <2>2 DEF IInv, PollOK, Idle
    <3> QED BY <2>2, <3>1 DEF PollOK
  <2>3. CASE poll.op = "index" /\ ~poll.ticked /\ poll' = [poll EXCEPT !.ticked = TRUE]
    <3>1. poll \in [op : {"index"}, len : 0 .. Bytes - 1, ticked : BOOLEAN]
      BY <2>3 DEF IInv, PollOK, Idle
    <3> QED BY <2>3, <3>1 DEF PollOK
  <2> QED BY <2>1, <2>2, <2>3 DEF timer0, Elapse
<1>2. HostOK'
  BY DEF timer0, IInv, HostOK
<1>3. UNCHANGED <<ir_wbuf, ir_wbuf_len, ir_code>>
  BY DEF timer0, buffer
<1>4. CASE us20_wait > 1
  <2>1. /\ us20_wait' = us20_wait - 1 /\ SetPD4(PD4)
        /\ UNCHANGED <<ir_state, ir_bits, recorder, player>>
    BY <1>4 DEF timer0
  <2>2. ReceiverOK'
    BY <2>1, ReceiverStep DEF IInv, ReceiverOK
  <2>3. SenderOK'
    <3>1. us20_wait' \in 0 .. Interval + HeaderLow + HeaderHigh + Low + One
      BY <1>4, <2>1, Sizes DEF IInv, SenderOK
    <3> QED BY <1>3, <2>1, <3>1 DEF IInv, SenderOK
  <2>4. RecorderOK' /\ PlayerOK'
    BY <1>1, <1>3, <2>1 DEF IInv, recorder, player, RecorderOK, PlayerOK
  <2> QED BY <1>1, <1>2, <2>2, <2>3, <2>4 DEF IInv
<1>5. CASE Sample
  <2>1. ReceiverOK'
    BY <1>5, ReceiverStep DEF IInv, Sample, Level
  <2>2. RecorderOK'
    BY <1>5, RecorderStep DEF IInv, Sample
  <2>3. SenderOK'
    BY <1>3, <1>5, Sizes DEF IInv, Sample, SenderOK
  <2>4. PlayerOK'
    BY <1>1, <1>3, <1>5 DEF IInv, Sample, player, PlayerOK
  <2> QED BY <1>1, <1>2, <2>1, <2>2, <2>3, <2>4 DEF IInv
<1>6. CASE Play
  <2>1. RecorderOK'
    BY <1>6 DEF IInv, Play, recorder, RecorderOK
  <2>2. SenderOK'
    BY <1>3, <1>6, Sizes DEF IInv, Play, SenderOK
  <2>3. ReceiverOK' /\ PlayerOK'
    <3>1. CASE ir_wbuf_cnt = 1
      <4> DEFINE entry == ir_wbuf[ir_wbuf_idx]
                 next == (ir_wbuf_idx + 1) % Bytes
      <4>1. entry \in Entry /\ ir_wbuf_idx \in 0 .. Bytes - 1 /\ ir_wbuf_len \in 0 .. Bytes - 1
        BY DEF IInv, PlayerOK
      <4>2. /\ SetPD4(entry.level) /\ ir_wbuf_cnt' = entry.len
            /\ ir_wbuf_idx' = IF next = ir_wbuf_len THEN 0 ELSE next
        BY <1>6, <3>1 DEF Play
      <4>3. ReceiverOK'
        BY <4>1, <4>2, ReceiverStep DEF IInv, Entry
      <4>4. ir_wbuf_cnt' \in 0 .. Bytes - 1
        BY <4>1, <4>2 DEF Entry
      <4>5. /\ ir_wbuf_idx' \in 0 .. Bytes - 1
            /\ ir_wbuf_idx < Extent(ir_wbuf_len) => ir_wbuf_idx' < Extent(ir_wbuf_len)
        BY <4>1, <4>2, Sizes DEF Extent
      <4>6. PlayerOK'
        BY <1>1, <1>3, <4>4, <4>5 DEF IInv, PlayerOK, Extent
      <4> QED BY <4>3, <4>6
    <3>2. CASE ir_wbuf_cnt # 1
      <4>1. ir_wbuf_cnt' = (ir_wbuf_cnt - 1) % Bytes /\ SetPD4(PD4) /\ UNCHANGED ir_wbuf_idx
        BY <1>6, <3>2 DEF Play
      <4>2. ReceiverOK'
        BY <4>1, ReceiverStep DEF IInv, ReceiverOK
      <4>3. ir_wbuf_cnt' \in 0 .. Bytes - 1
        BY <4>1, Sizes DEF IInv, PlayerOK
      <4> QED BY <1>1, <1>3, <4>1, <4>2, <4>3 DEF IInv, PlayerOK, Extent
    <3> QED BY <3>1, <3>2
  <2> QED BY <1>1, <1>2, <2>1, <2>2, <2>3 DEF IInv
<1>7. CASE Send
  <2>1. SenderOK' /\ ReceiverOK'
    BY <1>3, <1>7, SenderStep DEF IInv
  <2>2. RecorderOK' /\ PlayerOK'
    BY <1>1, <1>3, <1>7 DEF IInv, Send, recorder, player, RecorderOK, PlayerOK
  <2> QED BY <1>1, <1>2, <2>1, <2>2 DEF IInv
<1> QED BY <1>4, <1>5, <1>6, <1>7 DEF timer0

LEMMA PollStep ==
  ASSUME IInv, Poll
  PROVE  IInv'
<1>1. CASE WriteHigh
  <2>1. poll \in [op : {"code"}, code : Code, ticked : BOOLEAN]
    BY <1>1 DEF IInv, PollOK, Idle, WriteHigh
  <2>2. ir_code' \in Code
    BY <1>1, <2>1, LowByteCode DEF IInv, SenderOK, WriteHigh
  <2>3. SenderOK' /\ PollOK'
    BY <1>1, <2>2 DEF IInv, SenderOK, PollOK, WriteHigh
  <2>4. RecorderOK' /\ ReceiverOK' /\ HostOK'
    BY <1>1 DEF IInv, WriteHigh, line, recorder, host, RecorderOK, ReceiverOK, HostOK
  <2>5. PlayerOK'
    BY <1>1, <2>1 DEF IInv, WriteHigh, buffer, player, PlayerOK, Idle
  <2> QED BY <2>3, <2>4, <2>5 DEF IInv
<1>2. ASSUME UNCHANGED <<sender, line, recorder, host>>
      PROVE  SenderOK' /\ RecorderOK' /\ ReceiverOK' /\ HostOK'
  BY <1>2 DEF IInv, sender, line, recorder, host, SenderOK, RecorderOK, ReceiverOK, HostOK
<1>3. CASE CopyEntry
  <2>1. poll \in [op : {"data"}, i : 0 .. Bytes - 1, data : Seq(Entry)]
    BY <1>3 DEF IInv, PollOK, Idle, CopyEntry
  <2>2. Head(poll.data) \in Entry /\ Tail(poll.data) \in Seq(Entry)
    BY <1>3, <2>1 DEF CopyEntry
  <2>3. (poll.i + 1) % Bytes \in 0 .. Bytes - 1
    BY <2>1, Sizes
  <2>4. poll' \in [op : {"data"}, i : 0 .. Bytes - 1, data : Seq(Entry)]
    BY <1>3, <2>1, <2>2, <2>3 DEF CopyEntry
  <2>5. PollOK'
    BY <2>4 DEF PollOK
  <2>6. PlayerOK'
    BY <1>3, <2>1, <2>2, <2>4 DEF IInv, CopyEntry, player, PlayerOK
  <2> QED BY <1>2, <1>3, <2>5, <2>6 DEF IInv, CopyEntry
<1>4. CASE SetLength
  <2>1. poll \in [op : {"data"}, i : 0 .. Bytes - 1, data : Seq(Entry)]
    BY <1>4 DEF IInv, PollOK, Idle, SetLength
  <2>2. poll' \in [op : {"index"}, len : 0 .. Bytes - 1, ticked : BOOLEAN]
    BY <1>4 DEF IInv, SetLength, PlayerOK
  <2>3. PollOK'
    BY <2>2 DEF PollOK
  <2>4. PlayerOK'
    BY <1>4, <2>1 DEF IInv, SetLength, player, PlayerOK, Extent
  <2> QED BY <1>2, <1>4, <2>3, <2>4 DEF IInv, SetLength
<1>5. CASE SetIndex
  <2>1. PollOK' /\ PlayerOK'
    BY <1>5, Sizes DEF IInv, SetIndex, buffer, PollOK, PlayerOK, Idle, Extent
  <2> QED BY <1>2, <1>5, <2>1 DEF IInv, SetIndex
<1>6. ASSUME NEW w \in Waves, Load(w)
      PROVE  IInv'
  <2>1. poll' \in [op : {"data"}, i : 0 .. Bytes - 1, data : Seq(Entry)]
    BY <1>6, BufferAssumption DEF Load
  <2>2. PollOK'
    BY <2>1 DEF PollOK
  <2>3. PlayerOK'
    BY <1>6 DEF IInv, Load, buffer, player, PlayerOK, Idle
  <2> QED BY <1>2, <1>6, <2>2, <2>3 DEF IInv, Load
<1> QED BY <1>1, <1>3, <1>4, <1>5, <1>6 DEF Poll

\* The host begins to store a code.
LEMMA WriteLowStep ==
  ASSUME IInv, NEW c \in Code, WriteLow(c),
         UNCHANGED <<ir_state, ir_bits, us20_wait, PD4, since, seen, got, recorder, buffer,
                     player>>,
         received' \subseteq Code, key' \in Code, held' \in BOOLEAN
  PROVE  IInv'
<1>1. ir_code' \in Code
  BY LowByteCode DEF IInv, SenderOK, WriteLow
<1>2. poll' \in [op : {"code"}, code : Code, ticked : BOOLEAN]
  BY DEF WriteLow
<1>3. SenderOK' /\ RecorderOK'
  BY <1>1 DEF IInv, recorder, SenderOK, RecorderOK
<1>4. PlayerOK' /\ PollOK'
  BY <1>2 DEF IInv, WriteLow, buffer, player, PlayerOK, PollOK, Idle
<1>5. ReceiverOK' /\ HostOK'
  BY DEF IInv, ReceiverOK, HostOK
<1> QED BY <1>3, <1>4, <1>5 DEF IInv

LEMMA HostStep ==
  ASSUME IInv, Host
  PROVE  IInv'
<1>1. CASE GiveUp
  BY <1>1 DEF IInv, GiveUp, sender, line, recorder, buffer, player, PollOK, PlayerOK,
     RecorderOK, SenderOK, ReceiverOK, HostOK
<1>2. CASE Release
  BY <1>2, WriteLowStep, Codes DEF IInv, ReceiverOK, Release, line
<1>3. ASSUME NEW c \in Keys \union {BufferCode}, Press(c)
      PROVE  IInv'
  BY <1>3, WriteLowStep, Codes DEF Press
<1> QED BY <1>1, <1>2, <1>3 DEF Host

LEMMA NextIInv ==
  ASSUME IInv, [Next]_vars
  PROVE  IInv'
<1>1. CASE UNCHANGED vars
  BY <1>1 DEF vars, sender, line, recorder, buffer, player, host, IInv, PollOK, PlayerOK,
     RecorderOK, SenderOK, ReceiverOK, HostOK
<1> QED BY <1>1, TimerStep, PollStep, HostStep DEF Next

\* However ticks, commands and keys are interleaved, the invariant holds.
THEOREM Invariance == Spec => []IInv
<1>1. Init => IInv
  BY InitIInv
<1>2. IInv /\ [Next]_vars => IInv'
  BY NextIInv
<1> QED BY <1>1, <1>2, PTL DEF Spec

\* The variables keep their types: no code is read past its last bit, and nothing but
\* codes is received.
THEOREM TypeCorrect == Spec => []TypeOK
<1>1. IInv => TypeOK
  BY DEF IInv, PlayerOK, RecorderOK, SenderOK, ReceiverOK, HostOK, TypeOK
<1> QED BY <1>1, Invariance, PTL

\* The player takes its entries from before the end, whatever is loaded while it plays
\* and at whichever instruction of CMD_IR_WBUF the tick comes.
THEOREM PlaysBeforeEnd == Spec => PlaysWithinLength
<1>1. ASSUME IInv, Next, ir_wbuf_cnt = 1, ir_wbuf_cnt' # 1
      PROVE  \/ ir_wbuf_idx < Extent(ir_wbuf_len)
             \/ poll.op = "index" /\ ir_wbuf_idx < Extent(poll.len)
  <2>1. timer0
    BY <1>1 DEF Next, Poll, WriteHigh, CopyEntry, SetLength, SetIndex, Load, Host, GiveUp,
       Release, Press, player
  <2>2. poll.op = "index" => ~poll.ticked
    BY <2>1 DEF timer0, Elapse
  <2> QED BY <1>1, <2>2 DEF IInv, PlayerOK
<1>2. IInv /\ [Next]_vars => [ir_wbuf_cnt = 1 /\ ir_wbuf_cnt' # 1 =>
                                 \/ ir_wbuf_idx < Extent(ir_wbuf_len)
                                 \/ poll.op = "index" /\ ir_wbuf_idx < Extent(poll.len)]_vars
  BY <1>1
<1> QED BY <1>2, Invariance, PTL DEF Spec, PlaysWithinLength

\* Full rounds of the counter fit into the level they are noted for.
LEMMA RoundsFit ==
  ASSUME NEW n \in Nat, NEW m \in Nat \ {0}, NEW k \in Nat, k * m <= n
  PROVE  k <= n \div m
  OBVIOUS

\* The durations of PD3's levels are recorded with a bounded error.
THEOREM RecordsDurations == Spec => RecordsRuns
<1>1. ASSUME IInv, Next
      PROVE  run' <= run /\ run # 0 /\ ir_code = NoCode /\ ir_old' # ir_old =>
                 run - noted - ir_rbuf'.len \in 0 .. 2 + run \div (Bytes - 1)
  <2> SUFFICES ASSUME ir_old' # ir_old
               PROVE  run - noted - ir_rbuf'.len \in 0 .. 2 + run \div (Bytes - 1)
    OBVIOUS
  <2>1. ir_rbuf' = [len |-> ir_cnt - (ir_cnt % 2), level |-> ir_old]
    <3>1. timer0 /\ Sample
      BY <1>1 DEF Next, timer0, Play, Send, recorder, Poll, WriteHigh, CopyEntry, SetLength,
         SetIndex, Load, Host, GiveUp, Release, Press
    <3> QED BY <3>1 DEF Sample, Record
  <2>2. PICK rounds \in Nat : /\ noted = rounds * (Bytes - 2)
                              /\ run - ir_cnt - rounds * (Bytes - 1) \in {0, 1}
    BY <1>1 DEF IInv, RecorderOK
  <2>3. ir_cnt \in Nat /\ run \in Nat
    BY <1>1, Sizes DEF IInv, RecorderOK
  <2>4. /\ rounds * (Bytes - 1) = rounds * (Bytes - 2) + rounds
        /\ rounds * (Bytes - 1) \in Int /\ rounds * (Bytes - 2) \in Int
    BY Sizes
  <2>5. rounds <= run \div (Bytes - 1)
    BY <2>2, <2>3, <2>4, RoundsFit, Sizes
  <2>6. run - noted - ir_rbuf'.len - rounds \in 0 .. 2
    BY <2>1, <2>2, <2>3, <2>4
  <2>7. run \div (Bytes - 1) \in Int
    BY <2>3, Sizes
  <2> HIDE DEF RecorderOK
  <2> QED BY <2>1, <2>2, <2>3, <2>4, <2>5, <2>6, <2>7
<1> QED BY <1>1, Invariance, PTL DEF Spec, RecordsRuns

-----------------------------------------------------------------------------
(* What the receiver hears.  It is in step with the sender within a frame, or it *)
(* waits for the header of the next; a level that has become longer than any high *)
(* one but the interval breaks a frame off.                                      *)

\* The level that was sent last, and is there until its time is over.
Current == IF ir_state = 0 THEN States - 1 ELSE ir_state - 1

\* The receiver has heard the levels before the current one, and this one will have
\* its duration.
InStep ==
    /\ us20_wait >= 1 /\ Current >= 1
    /\ seen = Current - 1
    /\ PD4 = IF Current % 2 = 0 THEN 1 ELSE 0
    /\ Current = 1 => since + us20_wait - 1 = HeaderLow
    /\ Current = 2 => since + us20_wait - 1 = HeaderHigh
    /\ Current >= 3 /\ Current % 2 = 1 => since + us20_wait - 1 = Low

\* The bits that were received, the one on the line and those left are a code's.
Carries(c) ==
    /\ \A i \in 1 .. Len(got) : got[i] = c[i]
    /\ \A i \in 1 .. Len(ir_bits) : ir_bits[i] = c[Bits - Len(ir_bits) + i]
    /\ Current > 3 /\ Current % 2 = 0 =>
          since + us20_wait - 1 = IF c[Len(got) + 1] = 1 THEN One ELSE Zero

Long == PD4 = 1 /\ since > HeaderHigh /\ since > One

\* Between frames, or in one whose header was not heard.
Lost ==
    /\ seen = 0
    /\ PD4 = 0 => /\ us20_wait >= 1 /\ Current % 2 = 1
                  /\ since + us20_wait - 1 = IF Current = 1 THEN HeaderLow ELSE Low

\* The timer counts on, and the level stays.
Wait ==
    /\ us20_wait > 1 /\ us20_wait' = us20_wait - 1
    /\ SetPD4(PD4)
    /\ UNCHANGED <<ir_state, ir_bits>>

LEMMA Durations ==
  /\ Low < HeaderLow /\ Zero < One /\ HeaderLow < Interval /\ HeaderHigh < Interval
  /\ One < Interval /\ HeaderLow + HeaderHigh < Pause /\ HeaderLow + One < Pause
  /\ Pause \in Nat /\ Hold \in Nat /\ States - 1 >= 5
  BY Sizes, TimesAssumption

LEMMA Stays ==
  ASSUME SetPD4(PD4)
  PROVE  /\ UNCHANGED <<PD4, seen, got, received>>
         /\ since' = IF since < Interval + 1 THEN since + 1 ELSE since
  BY DEF SetPD4

LEMMA Changes ==
  ASSUME NEW level, level # PD4, SetPD4(level)
  PROVE  PD4' = level /\ since' = 1 /\ Hear(PD4, since)
  BY DEF SetPD4

\* Whatever was heard before it, the header's low begins a frame.
LEMMA HearsHeader ==
  ASSUME ReceiverOK, since = HeaderLow, Hear(0, since)
  PROVE  seen' = 1 /\ received' = received
<1>1. seen \in 0 .. States - 2
  BY DEF ReceiverOK
<1>2. (IF Expected(seen, 0, since) THEN seen + 1 ELSE IF Expected(0, 0, since) THEN 1 ELSE 0) = 1
  BY <1>1, Durations, Sizes DEF Expected
<1> QED BY <1>2, Durations, Sizes DEF Hear

\* Nothing else does.
LEMMA HearsNoHeader ==
  ASSUME seen = 0, ~(PD4 = 0 /\ since = HeaderLow), Hear(PD4, since)
  PROVE  seen' = 0 /\ received' = received
<1>1. (IF Expected(seen, PD4, since) THEN seen + 1
          ELSE IF Expected(0, PD4, since) THEN 1 ELSE 0) = 0
  BY DEF Expected
<1> QED BY <1>1, Durations, Sizes DEF Hear

LEMMA HearsLong ==
  ASSUME ReceiverOK, Long, Hear(PD4, since)
  PROVE  seen' = 0 /\ received' = received
<1>1. seen \in 0 .. States - 2 /\ since \in Nat
  BY Sizes DEF ReceiverOK
<1>2. (IF Expected(seen, PD4, since) THEN seen + 1
          ELSE IF Expected(0, PD4, since) THEN 1 ELSE 0) = 0
  BY <1>1, Durations, Sizes DEF Expected, Long
<1> QED BY <1>2, Durations, Sizes DEF Hear

\* In step, a level is the one that is expected.
LEMMA HearsExpected ==
  ASSUME ReceiverOK, SenderOK, InStep, us20_wait = 1, NEW c \in Code,
         Current > 3 => Carries(c)
  PROVE  Expected(seen, PD4, since)
<1>1. /\ seen \in 0 .. States - 2 /\ Current = seen + 1
      /\ PD4 = IF Current % 2 = 0 THEN 1 ELSE 0
      /\ since \in Nat /\ since + us20_wait - 1 = since
  BY Sizes DEF ReceiverOK, InStep, SenderOK, Current
<1>2. CASE seen \in {0, 1}
  BY <1>1, <1>2 DEF InStep, Expected
<1>3. CASE seen > 1 /\ seen % 2 = 0
  BY <1>1, <1>3 DEF InStep, Expected
<1>4. CASE seen > 1 /\ seen % 2 = 1
  <2>1. since \in {One, Zero}
    BY <1>1, <1>4 DEF Carries
  <2> QED BY <1>1, <1>4, <2>1 DEF Expected
<1> QED BY <1>1, <1>2, <1>3, <1>4

LEMMA SameBits ==
  ASSUME NEW c \in Code, NEW d \in Code, \A i \in 1 .. Bits : c[i] = d[i]
  PROVE  c = d
<1>1. c = [i \in 1 .. Bits |-> c[i]] /\ d = [i \in 1 .. Bits |-> d[i]]
  BY DEF Code
<1> QED BY <1>1

\* So the bits that are received are those of the code, and with the last level the
\* code is.
LEMMA HearsCode ==
  ASSUME ReceiverOK, ReceiverOK', SenderOK, InStep, us20_wait = 1, NEW c \in Code,
         Current > 3 => Carries(c), Hear(PD4, since)
  PROVE  /\ Current # States - 1 =>
              /\ seen' = Current /\ received' = received
              /\ \A i \in 1 .. Len(got') : got'[i] = c[i]
         /\ Current = States - 1 => seen' = 0 /\ received' = received \union {c}
<1> DEFINE bits == IF Current <= 3 THEN << >>
                   ELSE IF PD4 = 0 THEN got
                   ELSE Append(got, IF since = One THEN 1 ELSE 0)
<1>1. Expected(seen, PD4, since) /\ seen + 1 = Current /\ seen \in 0 .. States - 2
  BY HearsExpected, Sizes DEF InStep, ReceiverOK, Current, SenderOK
<1>2. /\ Current # States - 1 => seen' = Current /\ got' = bits /\ received' = received
      /\ Current = States - 1 => seen' = 0 /\ received' = received \union {bits}
  BY <1>1 DEF Hear
<1>3. /\ bits \in Seq({0, 1}) /\ \A i \in 1 .. Len(bits) : bits[i] = c[i]
      /\ Current = States - 1 => Len(bits) = Bits
  <2>1. CASE Current <= 3
    <3>1. bits = << >>
      BY <2>1
    <3>2. Current # States - 1
      BY <2>1, <1>1, Durations, Sizes
    <3> HIDE DEF bits
    <3> QED BY <3>1, <3>2, NoBits
  <2>2. CASE Current > 3 /\ PD4 = 0
    BY <1>1, <2>2, Sizes DEF Carries, ReceiverOK
  <2>3. CASE Current > 3 /\ PD4 = 1
    <3>1. Current % 2 = 0 /\ seen % 2 = 1 /\ seen >= 3 /\ Current # States - 1
      BY <1>1, <2>3, Sizes DEF InStep
    <3>2. got \in Seq({0, 1}) /\ 2 * Len(got) = seen - 3
      <4>1. got \in Seq({0, 1}) /\ 2 * Len(got) = IF seen <= 3 THEN 0 ELSE seen - 2 - (seen % 2)
        BY DEF ReceiverOK
      <4>2. seen \in Nat
        BY <1>1, Sizes
      <4> QED BY <3>1, <4>1, <4>2
    <3>3. Len(got) + 1 \in 1 .. Bits
      BY <1>1, <3>1, <3>2, Sizes
    <3>4. since = IF c[Len(got) + 1] = 1 THEN One ELSE Zero
      <4>1. since + us20_wait - 1 = IF c[Len(got) + 1] = 1 THEN One ELSE Zero
        BY <1>1, <2>3, <3>1 DEF Carries
      <4> QED BY <4>1, Sizes DEF ReceiverOK
    <3>5. c[Len(got) + 1] \in {0, 1}
      BY <3>3 DEF Code
    <3>6. bits = Append(got, c[Len(got) + 1])
      <4>1. (IF since = One THEN 1 ELSE 0) = c[Len(got) + 1]
        BY <3>4, <3>5, Durations, Sizes
      <4> QED BY <1>1, <2>3, <4>1, Sizes
    <3>7. \A i \in 1 .. Len(got) : got[i] = c[i]
      BY <1>1, <2>3 DEF Carries
    <3> QED BY <3>1, <3>2, <3>5, <3>6, <3>7
  <2> QED BY <1>1, <2>1, <2>2, <2>3, Sizes DEF ReceiverOK, Level
<1>4. Current = States - 1 => bits = c
  <2> SUFFICES ASSUME Current = States - 1 PROVE bits = c
    OBVIOUS
  <2>1. bits \in Code
    <3> HIDE DEF bits
    <3> QED BY <1>3, CodeIsSeq
  <2>2. \A i \in 1 .. Bits : bits[i] = c[i]
    BY <1>3
  <2> HIDE DEF bits
  <2> QED BY <2>1, <2>2, SameBits
<1> QED BY <1>2, <1>3, <1>4

-----------------------------------------------------------------------------
(* What the sender does to the receiver *)

LEMMA CurrentState ==
  ASSUME SenderOK
  PROVE  /\ Current \in 0 .. States - 1
         /\ ir_state = (Current + 1) % States /\ (ir_state # 0 => ir_state = Current + 1)
         /\ ir_state = 0 <=> Current = States - 1
  BY Sizes DEF SenderOK, Current

LEMMA SendsLevel ==
  ASSUME SenderOK, SenderOK', Send
  PROVE  /\ Current' = ir_state
         /\ us20_wait' \in Nat \ {0}
         /\ SetPD4(IF ir_state % 2 = 0 THEN 1 ELSE 0)
         /\ ir_state = 0 => us20_wait' = Interval
         /\ ir_state = 1 => us20_wait' = HeaderLow
         /\ ir_state = 2 => us20_wait' = HeaderHigh
         /\ ir_state >= 3 /\ ir_state % 2 = 1 => us20_wait' = Low
         /\ ir_state = 3 => ir_bits' = ir_code
         /\ ir_state > 3 /\ ir_state % 2 = 0 =>
              /\ us20_wait' = IF Head(ir_bits) = 1 THEN One ELSE Zero
              /\ ir_bits' = Tail(ir_bits)
         /\ ir_state > 3 /\ ir_state % 2 = 1 => ir_bits' = ir_bits
<1>1. ir_state \in 0 .. States - 1 /\ ir_state' = (ir_state + 1) % States
  BY DEF SenderOK, Send
<1>2. Current' = ir_state
  BY <1>1, Sizes DEF Current
<1>3. CASE ir_state < 3
  BY <1>1, <1>2, <1>3, Sizes DEF Send, SendLevel
<1>4. CASE ir_state = 3
  BY <1>1, <1>2, <1>4, Sizes DEF Send, SendLevel
<1>5. CASE ir_state > 3 /\ ir_state % 2 = 0
  BY <1>1, <1>2, <1>5, Sizes DEF Send, SendLevel
<1>6. CASE ir_state > 3 /\ ir_state % 2 = 1
  BY <1>1, <1>2, <1>6, Sizes DEF Send, SendLevel
<1> QED BY <1>1, <1>3, <1>4, <1>5, <1>6

\* In the course of a level.
LEMMA WaitsInStep ==
  ASSUME ReceiverOK, SenderOK, InStep, Wait
  PROVE  /\ InStep' /\ Current' = Current /\ received' = received
         /\ \A c : Carries(c) => Carries(c)'
<1>1. /\ UNCHANGED <<PD4, seen, got, received, ir_state, ir_bits>>
      /\ since' = IF since < Interval + 1 THEN since + 1 ELSE since
      /\ us20_wait' = us20_wait - 1 /\ us20_wait > 1
  BY Stays DEF Wait
<1>2. Current' = Current /\ Current \in Nat
  BY <1>1, CurrentState, Sizes DEF Current
<1>3. since \in Nat /\ us20_wait \in Nat
  BY Sizes DEF ReceiverOK, SenderOK
<1>4. ASSUME since + us20_wait - 1 <= Interval
      PROVE  since' + us20_wait' - 1 = since + us20_wait - 1
  BY <1>1, <1>3, <1>4, Sizes
<1>5. InStep'
  BY <1>1, <1>2, <1>3, <1>4, Durations, Sizes DEF InStep
<1>6. ASSUME NEW c, Carries(c)
      PROVE  Carries(c)'
  BY <1>1, <1>2, <1>4, <1>6, Durations, Sizes DEF Carries
<1> QED BY <1>1, <1>2, <1>5, <1>6

\* From a level of a frame to the next.
LEMMA SendsInStep ==
  ASSUME ReceiverOK, ReceiverOK', SenderOK, SenderOK', InStep, us20_wait <= 1, Send,
         NEW c \in Code, Current >= 3 => Carries(c), Current = 2 => ir_code = c
  PROVE  /\ Current # States - 1 =>
              /\ InStep' /\ Current' = Current + 1 /\ received' = received
              /\ Current' >= 3 => Carries(c)'
         /\ Current = States - 1 =>
              /\ Current' = 0 /\ seen' = 0 /\ PD4' = 1 /\ us20_wait' = Interval
              /\ received' = received \union {c}
<1>1. us20_wait = 1 /\ Current \in 1 .. States - 1 /\ seen = Current - 1
  BY CurrentState DEF InStep, SenderOK
<1>2. /\ Current' = ir_state /\ ir_state \in 0 .. States - 1
      /\ Current # States - 1 => ir_state = Current + 1
      /\ Current = States - 1 => ir_state = 0
  BY <1>1, CurrentState, SendsLevel, Sizes
<1>3. (IF ir_state % 2 = 0 THEN 1 ELSE 0) # PD4
  BY <1>1, <1>2, Sizes DEF InStep
<1>4. /\ PD4' = (IF ir_state % 2 = 0 THEN 1 ELSE 0)
      /\ since' = 1 /\ Hear(PD4, since)
  BY <1>3, Changes, SendsLevel
<1>5. /\ Current # States - 1 =>
              /\ seen' = Current /\ received' = received
              /\ \A i \in 1 .. Len(got') : got'[i] = c[i]
      /\ Current = States - 1 => seen' = 0 /\ received' = received \union {c}
  BY <1>1, <1>4, HearsCode
<1>6. CASE Current = States - 1
  BY <1>2, <1>4, <1>5, <1>6, SendsLevel
<1>7. CASE Current # States - 1
  <2>1. ir_state = Current + 1 /\ ir_state >= 2 /\ Current' = ir_state /\ seen' = Current
    BY <1>1, <1>2, <1>5, <1>7
  <2>2. us20_wait' \in Nat \ {0} /\ since' + us20_wait' - 1 = us20_wait'
    BY <1>4, SendsLevel
  <2>3. InStep'
    <3>1. /\ ir_state = 2 => since' + us20_wait' - 1 = HeaderHigh
          /\ ir_state >= 3 /\ ir_state % 2 = 1 => since' + us20_wait' - 1 = Low
      BY <2>2, SendsLevel
    <3>2. us20_wait' >= 1 /\ ir_state # 1 /\ Current' - 1 = Current
      BY <1>1, <2>1, <2>2
    <3> QED BY <1>4, <2>1, <3>1, <3>2 DEF InStep
  <2>4. ASSUME ir_state >= 3
        PROVE  Carries(c)'
    <3>1. \A i \in 1 .. Len(got') : got'[i] = c[i]
      BY <1>5, <1>7
    <3>2. c \in Seq({0, 1}) /\ Len(c) = Bits /\ ir_bits \in Seq({0, 1})
      BY CodeIsSeq DEF SenderOK
    <3>3. CASE ir_state = 3
      <4>1. ir_bits' = c
        BY <1>1, <2>1, <3>3, SendsLevel
      <4>2. \A i \in 1 .. Len(ir_bits') : ir_bits'[i] = c[Bits - Len(ir_bits') + i]
        BY <3>2, <4>1, Sizes
      <4> QED BY <2>1, <3>1, <3>3, <4>2 DEF Carries
    <3>4. CASE ir_state > 3 /\ ir_state % 2 = 1
      <4>1. ir_bits' = ir_bits
        BY <3>4, SendsLevel
      <4>2. \A i \in 1 .. Len(ir_bits) : ir_bits[i] = c[Bits - Len(ir_bits) + i]
        BY <1>1, <2>1, <3>4 DEF Carries
      <4> QED BY <2>1, <3>1, <3>4, <4>1, <4>2 DEF Carries
    <3>5. CASE ir_state > 3 /\ ir_state % 2 = 0
      <4>1. /\ us20_wait' = IF Head(ir_bits) = 1 THEN One ELSE Zero
            /\ ir_bits' = Tail(ir_bits)
        BY <3>5, SendsLevel
      <4>2. \A i \in 1 .. Len(ir_bits) : ir_bits[i] = c[Bits - Len(ir_bits) + i]
        BY <1>1, <2>1, <3>5 DEF Carries
      <4>3. 2 * Len(ir_bits) = 2 * Bits - ir_state + 4 /\ Len(ir_bits) > 0
        <5>1. (ir_state + 1) % 2 = 1
          BY <1>2, <3>5, Sizes
        <5> QED BY <1>2, <3>2, <3>5, <5>1, Sizes DEF SenderOK
      <4>4. Len(ir_bits') = Len(ir_bits) - 1
            /\ \A i \in 1 .. Len(ir_bits') : ir_bits'[i] = ir_bits[i + 1]
        BY <3>2, <4>1, <4>3
      <4>5. \A i \in 1 .. Len(ir_bits') : ir_bits'[i] = c[Bits - Len(ir_bits') + i]
        <5> SUFFICES ASSUME NEW i \in 1 .. Len(ir_bits')
                     PROVE  ir_bits'[i] = c[Bits - Len(ir_bits') + i]
          OBVIOUS
        <5>1. i + 1 \in 1 .. Len(ir_bits) /\ ir_bits'[i] = ir_bits[i + 1]
          BY <3>2, <4>4
        <5>2. Bits - Len(ir_bits') + i = Bits - Len(ir_bits) + (i + 1)
          BY <3>2, <4>4, Sizes
        <5> QED BY <4>2, <5>1, <5>2
      <4>6. 2 * Len(got') = ir_state - 4
        <5>1. seen' = ir_state - 1 /\ seen' \in Nat
          BY <1>1, <1>2, <2>1, <3>5, Sizes
        <5>2. seen' % 2 = 1
          BY <1>2, <3>5, <5>1, Sizes
        <5>3. 2 * Len(got') = IF seen' <= 3 THEN 0 ELSE seen' - 2 - (seen' % 2)
          BY DEF ReceiverOK
        <5> QED BY <1>2, <3>5, <5>1, <5>2, <5>3
      <4>7. Len(got') + 1 = Bits - Len(ir_bits) + 1
        BY <1>2, <3>2, <4>3, <4>6, Sizes DEF ReceiverOK
      <4>8. Head(ir_bits) = c[Len(got') + 1]
        BY <3>2, <4>2, <4>3, <4>7
      <4> QED BY <2>2, <3>1, <4>1, <4>5, <4>8 DEF Carries
    <3> QED BY <1>2, <2>4, <3>3, <3>4, <3>5, Sizes
  <2> QED BY <1>5, <1>7, <2>1, <2>3, <2>4
<1> QED BY <1>6, <1>7

-----------------------------------------------------------------------------
(* What is sent: the key's code, but for one tick at most between its bytes *)

\* Half of a code is stored, and the tick that may come between is still to come.
Open == poll.op = "code" /\ ~poll.ticked

CodeOK ==
    /\ key \in Keys \union {NoCode, BufferCode}
    /\ held => key # NoCode
    /\ poll.op # "code" => ir_code = key
    /\ poll.op = "code" =>
          /\ poll.code = key
          /\ \A i \in 1 .. ByteBits : ir_code[i] = key[i]
          /\ ticks > 0 => poll.ticked
          /\ key = NoCode => ir_code # BufferCode

\* With no key pressed a low level ends, and the line stays high from then on.
Resting(time, level, duration, wait) ==
    /\ level = 0 => wait >= 1 /\ time + wait <= HeaderLow + 1
    /\ level = 1 => duration > Interval \/ duration + HeaderLow >= time

GapOK ==
    /\ ticks \in Nat
    /\ PD4 = 0 => us20_wait <= HeaderLow
    /\ since = 0 => key = NoCode /\ ticks = 0
    /\ key = NoCode /\ ticks > 0 => Resting(ticks, PD4, since, us20_wait)

\* Two keys mixed, one key and no key mixed.
LEMMA KeysDiffer ==
  /\ BufferCode # NoCode
  /\ \A c \in Keys : c \in Code /\ c # NoCode /\ c # BufferCode
  /\ \A c, k \in Keys : LowByte(c, k) \notin {NoCode, BufferCode}
  /\ \A c \in Code : LowByte(NoCode, c) # BufferCode /\ LowByte(c, NoCode) # BufferCode
<1>1. BufferCode[1] = 1 /\ NoCode[1] = 0 /\ BufferCode[Bits] = 1 /\ NoCode[Bits] = 0
  BY Sizes DEF BufferCode, NoCode
<1>2. ASSUME NEW c \in Keys
      PROVE  LowByte(c, c) = c
  <2>1. c \in Code /\ LowByte(c, c) \in Code
    BY <1>2, Codes, LowByteCode
  <2>2. \A i \in 1 .. Bits : LowByte(c, c)[i] = c[i]
    BY DEF LowByte
  <2> QED BY <2>1, <2>2, SameBits
<1>3. ASSUME NEW c \in Code
      PROVE  LowByte(NoCode, c)[1] = 0 /\ LowByte(c, NoCode)[Bits] = 0
  <2>1. 1 \in 1 .. Bits /\ Bits \in 1 .. Bits /\ 1 <= ByteBits /\ ~(Bits <= ByteBits)
    BY CodeAssumption DEF Bits
  <2> QED BY <1>1, <2>1 DEF LowByte
<1> QED BY <1>1, <1>2, <1>3, CodeAssumption

LEMMA CompletesCode ==
  ASSUME NEW c \in Code, NEW k \in Code, \A i \in 1 .. ByteBits : c[i] = k[i]
  PROVE  LowByte(c, k) = k
<1>1. \A i \in 1 .. Bits : LowByte(c, k)[i] = k[i]
  BY CodeAssumption, Sizes DEF LowByte
<1> QED BY <1>1, LowByteCode, SameBits

\* A tick: what it does, and when it may come.
LEMMA TickIs ==
  ASSUME IInv, timer0
  PROVE  /\ UNCHANGED <<ir_code, key, held, may>> /\ ~Open' /\ poll'.op = poll.op
         /\ poll.op = "code" => Open /\ poll'.code = poll.code /\ poll'.ticked
         /\ ticks' = IF ticks < (IF held THEN Hold ELSE Pause) THEN ticks + 1 ELSE ticks
         /\ \/ Wait
            \/ /\ ir_code = NoCode /\ us20_wait <= 1 /\ us20_wait' = 0 /\ SetPD4(1)
               /\ UNCHANGED <<ir_state, ir_bits>>
            \/ /\ ir_code = BufferCode /\ us20_wait <= 1 /\ us20_wait' = 0
               /\ \E level \in Level : SetPD4(level)
               /\ UNCHANGED <<ir_state, ir_bits>>
            \/ ir_code \notin {NoCode, BufferCode} /\ us20_wait <= 1 /\ Send
<1>1. poll.op = "code" => poll \in [op : {"code"}, code : Code, ticked : BOOLEAN]
  BY DEF IInv, PollOK, Idle
<1>2. /\ UNCHANGED <<ir_code, key, held, may>>
      /\ ticks' = IF ticks < (IF held THEN Hold ELSE Pause) THEN ticks + 1 ELSE ticks
  BY DEF timer0, Elapse
<1>3. /\ ~Open' /\ poll'.op = poll.op
      /\ poll.op = "code" => Open /\ poll'.code = poll.code /\ poll'.ticked
  <2>1. CASE poll.op \notin {"code", "index"}
    BY <2>1 DEF timer0, Elapse, Open
  <2>2. CASE poll.op = "code"
    BY <1>1, <2>2 DEF timer0, Elapse, Open
  <2>3. CASE poll.op = "index"
    <3>1. poll \in [op : {"index"}, len : 0 .. Bytes - 1, ticked : BOOLEAN]
      BY <2>3 DEF IInv, PollOK, Idle
    <3> QED BY <2>3, <3>1 DEF timer0, Elapse, Open
  <2> QED BY <2>1, <2>2, <2>3
<1>4. CASE us20_wait > 1
  BY <1>2, <1>3, <1>4 DEF timer0, Wait
<1>5. CASE ~(us20_wait > 1)
  <2>1. us20_wait <= 1
    BY <1>5, Sizes DEF IInv, SenderOK
  <2>2. CASE Sample
    BY <1>2, <1>3, <2>1, <2>2 DEF Sample
  <2>3. CASE Play
    <3>1. \E level \in Level : SetPD4(level)
      BY <2>3 DEF Play, IInv, PlayerOK, ReceiverOK, Entry
    <3> QED BY <1>2, <1>3, <2>1, <2>3, <3>1 DEF Play
  <2>4. CASE Send
    BY <1>2, <1>3, <2>1, <2>4 DEF Send
  <2> QED BY <1>5, <2>2, <2>3, <2>4 DEF timer0
<1> QED BY <1>4, <1>5

\* The commands for the player do not touch the code.
LEMMA PollIs ==
  ASSUME IInv, Poll
  PROVE  /\ UNCHANGED <<ir_state, ir_bits, us20_wait, PD4, since, seen, got, received, host>>
         /\ ~Open' /\ poll'.op # "code"
         /\ \/ WriteHigh
            \/ poll.op # "code" /\ UNCHANGED ir_code
<1>1. CASE WriteHigh
  BY <1>1 DEF WriteHigh, line, Idle, Open
<1>2. CASE CopyEntry
  <2>1. poll \in [op : {"data"}, i : 0 .. Bytes - 1, data : Seq(Entry)]
    BY <1>2 DEF IInv, PollOK, Idle, CopyEntry
  <2> QED BY <1>2, <2>1 DEF CopyEntry, sender, line, Open
<1>3. CASE SetLength \/ SetIndex \/ \E w \in Waves : Load(w)
  BY <1>3 DEF SetLength, SetIndex, Load, sender, line, Idle, Open
<1> QED BY <1>1, <1>2, <1>3 DEF Poll

LEMMA PressIs ==
  ASSUME CodeOK, NEW c \in Keys \union {BufferCode}, Press(c)
  PROVE  /\ UNCHANGED <<ir_state, ir_bits, us20_wait, PD4, since, seen, got>>
         /\ received' = {} /\ key' = c /\ held' /\ ticks' = 0
         /\ Open' /\ poll'.op = "code" /\ poll'.code = c
         /\ ir_code = key /\ ir_code' = LowByte(c, key)
  BY DEF Press, WriteLow, CodeOK, Idle, Open

LEMMA ReleaseIs ==
  ASSUME CodeOK, Release
  PROVE  /\ UNCHANGED <<ir_state, ir_bits, us20_wait, PD4, since, seen, got, received, may>>
         /\ held /\ key # NoCode /\ key' = NoCode /\ ~held' /\ ticks' = 0
         /\ Open' /\ poll'.op = "code" /\ poll'.code = NoCode
         /\ ir_code = key /\ ir_code' = LowByte(NoCode, key)
  BY DEF Release, WriteLow, CodeOK, Idle, Open, line

LEMMA GiveUpIs ==
  ASSUME CodeOK, GiveUp
  PROVE  /\ UNCHANGED <<ir_code, ir_state, ir_bits, us20_wait, PD4, since, seen, got, received,
                        may, key, poll>>
         /\ held /\ key # NoCode /\ ~held' /\ ticks' = 0 /\ poll.op # "code"
  BY DEF GiveUp, CodeOK, sender, line

LEMMA CodeStep ==
  ASSUME IInv, CodeOK, Next
  PROVE  CodeOK'
<1>0. ir_code \in Code /\ key \in Code
  BY DEF IInv, SenderOK, HostOK
<1>1. CASE timer0
  BY <1>1, TickIs DEF CodeOK, Open
<1>2. CASE Poll
  <2>1. CASE WriteHigh
    <3>1. ir_code' = key
      BY <1>0, <2>1, CompletesCode DEF CodeOK, WriteHigh
    <3> QED BY <1>2, <3>1, PollIs DEF CodeOK, host
  <2>2. CASE poll.op # "code" /\ UNCHANGED ir_code
    BY <1>2, <2>2, PollIs DEF CodeOK, host
  <2> QED BY <1>2, <2>1, <2>2, PollIs
<1>3. CASE GiveUp
  BY <1>3, GiveUpIs DEF CodeOK
<1>4. CASE Release
  <2>1. \A i \in 1 .. ByteBits : ir_code'[i] = NoCode[i]
    BY <1>4, ReleaseIs, CodeAssumption DEF LowByte, Bits
  <2>2. ir_code' # BufferCode
    BY <1>0, <1>4, ReleaseIs, KeysDiffer
  <2> QED BY <1>4, <2>1, <2>2, ReleaseIs DEF CodeOK
<1>5. ASSUME NEW c \in Keys \union {BufferCode}, Press(c)
      PROVE  CodeOK'
  <2>1. \A i \in 1 .. ByteBits : ir_code'[i] = c[i]
    BY <1>5, PressIs, CodeAssumption DEF LowByte, Bits
  <2>2. c # NoCode
    BY KeysDiffer
  <2> QED BY <1>5, <2>1, <2>2, PressIs DEF CodeOK
<1> QED BY <1>1, <1>2, <1>3, <1>4, <1>5 DEF Next, Host

\* The duration of a level that stays, and of one that begins.
LEMMA Lasts ==
  ASSUME ReceiverOK, NEW level \in Level, SetPD4(level)
  PROVE  /\ PD4' = level /\ since' # 0
         /\ level = PD4 => since' = since + 1 \/ (since' = since /\ since > Interval)
         /\ level # PD4 => since' = 1
  BY Sizes DEF SetPD4, ReceiverOK

LEMMA RestsOn ==
  ASSUME NEW t \in Nat, NEW u \in {t, t + 1}, NEW level \in Level, NEW d \in Nat,
         NEW w \in Nat, w > 1, level = 0 => w <= HeaderLow,
         t > 0 => Resting(t, level, d, w),
         NEW e \in Nat, e = d + 1 \/ (e = d /\ d > Interval)
  PROVE  Resting(u, level, e, w - 1)
  BY Sizes DEF Resting, Level

LEMMA ComesToRest ==
  ASSUME NEW t \in Nat, NEW u \in {t, t + 1}, NEW level \in Level, NEW d \in Nat,
         NEW w \in Nat, w <= 1, t > 0 => Resting(t, level, d, w),
         NEW e \in Nat, IF level = 1 THEN e = d + 1 \/ (e = d /\ d > Interval) ELSE e = 1
  PROVE  Resting(u, 1, e, 0)
  BY Sizes DEF Resting, Level

LEMMA StartsToRest ==
  ASSUME NEW u \in {0, 1}, NEW level \in Level, NEW e \in Nat, NEW w \in Nat \ {0},
         level = 0 => w <= HeaderLow, e # 0
  PROVE  Resting(u, level, e, w)
  BY Sizes DEF Resting, Level

LEMMA GapTick ==
  ASSUME IInv, IInv', CodeOK, GapOK, timer0
  PROVE  GapOK'
<1>1. /\ PD4 \in Level /\ PD4' \in Level /\ since \in Nat /\ since' \in Nat
      /\ us20_wait \in Nat /\ us20_wait' \in Nat
  BY Sizes DEF IInv, ReceiverOK, SenderOK
<1>2. ticks \in Nat /\ ticks' \in Nat /\ ticks' \in {ticks, ticks + 1} /\ key' = key
  BY TickIs DEF GapOK
<1>3. CASE Wait
  <2>1. PD4' = PD4 /\ since' # 0 /\ (since' = since + 1 \/ (since' = since /\ since > Interval))
    BY <1>1, <1>3, Lasts DEF Wait, IInv
  <2>2. us20_wait' = us20_wait - 1 /\ us20_wait > 1
    BY <1>3 DEF Wait
  <2>3. key = NoCode => Resting(ticks', PD4', since', us20_wait')
    BY <1>1, <1>2, <2>1, <2>2, RestsOn DEF GapOK
  <2> QED BY <1>1, <1>2, <2>1, <2>2, <2>3, Sizes DEF GapOK
<1>4. CASE ir_code = NoCode /\ us20_wait <= 1 /\ us20_wait' = 0 /\ SetPD4(1)
  <2>1. /\ PD4' = 1 /\ since' # 0
        /\ PD4 = 1 => since' = since + 1 \/ (since' = since /\ since > Interval)
        /\ PD4 # 1 => since' = 1
    BY <1>1, <1>4, Lasts DEF IInv, Level
  <2>2. key = NoCode => Resting(ticks', PD4', since', us20_wait')
    BY <1>1, <1>2, <1>4, <2>1, ComesToRest DEF GapOK
  <2> QED BY <1>1, <1>2, <1>4, <2>1, <2>2 DEF GapOK
<1>5. CASE /\ ir_code = BufferCode /\ us20_wait' = 0
           /\ \E level \in Level : SetPD4(level)
  <2>1. key # NoCode
    BY <1>5, TickIs, KeysDiffer DEF CodeOK
  <2>2. since' # 0
    BY <1>5, Lasts DEF IInv
  <2> QED BY <1>2, <1>5, <2>1, <2>2, TickIs, Sizes DEF GapOK
<1>6. CASE ir_code \notin {NoCode, BufferCode} /\ Send
  <2>1. key = NoCode => ticks' \in {0, 1}
    BY <1>2, <1>6, TickIs DEF CodeOK, Open
  <2>2. PD4' = (IF ir_state % 2 = 0 THEN 1 ELSE 0) /\ since' # 0
    BY <1>6, SendsLevel, Lasts DEF IInv, Level
  <2>3. us20_wait' # 0 /\ (PD4' = 0 => us20_wait' <= HeaderLow)
    <3>1. ir_state \in 0 .. States - 1
      BY DEF IInv, SenderOK
    <3> QED BY <1>6, <2>2, <3>1, SendsLevel, Durations, Sizes DEF IInv
  <2>4. key = NoCode => Resting(ticks', PD4', since', us20_wait')
    BY <1>1, <2>1, <2>2, <2>3, StartsToRest
  <2> QED BY <1>2, <2>2, <2>3, <2>4 DEF GapOK
<1> QED BY <1>3, <1>4, <1>5, <1>6, TickIs

LEMMA GapStep ==
  ASSUME IInv, IInv', CodeOK, GapOK, Next
  PROVE  GapOK'
<1>1. CASE timer0
  BY <1>1, GapTick
<1>2. CASE Poll
  BY <1>2, PollIs DEF GapOK, host
<1>3. CASE GiveUp
  BY <1>3, GiveUpIs DEF GapOK
<1>4. CASE Release
  BY <1>4, ReleaseIs DEF GapOK
<1>5. ASSUME NEW c \in Keys \union {BufferCode}, Press(c)
      PROVE  GapOK'
  <2>1. since # 0
    BY <1>5, TimesAssumption DEF GapOK, Press
  <2> QED BY <1>5, <2>1, PressIs DEF GapOK
<1> QED BY <1>1, <1>2, <1>3, <1>4, <1>5 DEF Next, Host

\* After a pause nothing that was heard before can go on.
LEMMA PauseBreaksOff ==
  ASSUME IInv, GapOK, key = NoCode, ticks = Pause
  PROVE  Long
<1>1. /\ PD4 \in {0, 1} /\ since \in Nat /\ us20_wait \in Nat /\ ticks > 0
  BY Sizes, TimesAssumption DEF IInv, ReceiverOK, SenderOK, Level
<1>2. PD4 = 1
  BY <1>1, Durations, Sizes DEF GapOK, Resting
<1> QED BY <1>1, <1>2, Durations, Sizes DEF GapOK, Resting, Long

-----------------------------------------------------------------------------
(* What is received *)

\* No key is pressed any more, and the line is at rest, from the start on or since the
\* last level was over.
Quiet ==
    /\ key = NoCode /\ ir_code = NoCode /\ us20_wait = 0
    /\ PD4 = 1 \/ (since = 0 /\ seen = 0)

\* A frame is on its way, of a code that may be received; or the key was released
\* when its header was out, and it ends with this level.
InFrame ==
    /\ InStep
    /\ Current >= 3 =>
          \/ \E c \in may : Carries(c)
          \/ key = NoCode /\ Current = 3 /\ ~Open

HeardOK ==
    /\ may \subseteq Code
    /\ received \subseteq may
    /\ may # Code =>
          /\ key # BufferCode
          /\ key # NoCode => key \in may
          /\ poll.op = "code" => ir_code # BufferCode
          /\ Open /\ key # NoCode => Long \/ ir_code \in may \ {NoCode, BufferCode}
          /\ Long \/ Quiet \/ Lost \/ InFrame

LEMMA WaitsLost ==
  ASSUME ReceiverOK, SenderOK, Lost, Wait
  PROVE  Lost' /\ received' = received
<1>1. /\ UNCHANGED <<PD4, seen, got, received, ir_state, ir_bits>>
      /\ since' = IF since < Interval + 1 THEN since + 1 ELSE since
      /\ us20_wait' = us20_wait - 1 /\ us20_wait > 1
  BY Stays DEF Wait
<1>2. Current' = Current /\ since \in Nat /\ us20_wait \in Nat
  BY <1>1, Sizes DEF Current, ReceiverOK, SenderOK
<1>3. PD4 = 0 => since < Interval + 1
  BY <1>1, <1>2, Durations, Sizes DEF Lost
<1>4. PD4 = 0 => since' + us20_wait' - 1 = since + us20_wait - 1 /\ us20_wait' >= 1
  BY <1>1, <1>2, <1>3, Sizes
<1> QED BY <1>1, <1>2, <1>4 DEF Lost

\* A low level begins: when no header is heard, this one may be it.
LEMMA SendsLow ==
  ASSUME SenderOK, SenderOK', Send, ir_state % 2 = 1, since' = 1, PD4' = 0, seen' = 0
  PROVE  Lost'
<1>1. ir_state \in 0 .. States - 1
  BY DEF SenderOK
<1>2. us20_wait' = (IF ir_state = 1 THEN HeaderLow ELSE Low) /\ Current' = ir_state
  BY <1>1, SendsLevel, Sizes
<1>3. us20_wait' \in Nat \ {0}
  BY SendsLevel
<1> QED BY <1>2, <1>3, Sizes DEF Lost

LEMMA SendsLong ==
  ASSUME ReceiverOK, SenderOK, SenderOK', Long, Send
  PROVE  received' = received /\ (Long' \/ Lost')
<1>1. CASE ir_state % 2 = 0
  <2>1. SetPD4(1) /\ PD4 = 1
    BY <1>1, SendsLevel DEF Long
  <2>2. UNCHANGED <<PD4, received>> /\ (since' = since + 1 \/ since' = since)
    BY <2>1, Stays
  <2> QED BY <2>2, Durations, Sizes DEF Long, ReceiverOK
<1>2. CASE ir_state % 2 = 1
  <2>1. SetPD4(0) /\ PD4 # 0
    BY <1>2, SendsLevel DEF Long
  <2>2. PD4' = 0 /\ since' = 1 /\ Hear(PD4, since)
    BY <2>1, Changes
  <2>3. seen' = 0 /\ received' = received
    BY <2>2, HearsLong
  <2> QED BY <1>2, <2>2, <2>3, SendsLow
<1> QED BY <1>1, <1>2, Sizes DEF SenderOK

LEMMA SendsLost ==
  ASSUME ReceiverOK, SenderOK, SenderOK', Lost, us20_wait <= 1, Send
  PROVE  /\ received' = received
         /\ Lost' \/ (InStep' /\ Current' = 2)
<1>1. PD4 \in {0, 1} /\ ir_state \in 0 .. States - 1 /\ since \in Nat
  BY Sizes DEF ReceiverOK, SenderOK, Level
<1>2. CASE PD4 = 0
  <2>1. /\ Current % 2 = 1 /\ us20_wait = 1
        /\ since = IF Current = 1 THEN HeaderLow ELSE Low
    BY <1>1, <1>2, Sizes DEF Lost, SenderOK
  <2>2. ir_state % 2 = 0 /\ (Current = 1 => ir_state = 2)
    BY <1>1, <2>1, CurrentState, Sizes
  <2>3. PD4' = 1 /\ since' = 1 /\ Hear(0, since)
    BY <1>2, <2>2, Changes, SendsLevel
  <2>4. CASE Current = 1
    <3>1. seen' = 1 /\ received' = received
      BY <2>1, <2>3, <2>4, HearsHeader
    <3>2. Current' = 2 /\ us20_wait' = HeaderHigh
      BY <2>2, <2>4, SendsLevel
    <3> QED BY <2>3, <3>1, <3>2, Sizes DEF InStep
  <2>5. CASE Current # 1
    <3>1. seen' = 0 /\ received' = received
      BY <1>2, <2>1, <2>3, <2>5, Durations, HearsNoHeader, Sizes DEF Lost
    <3> QED BY <2>3, <3>1 DEF Lost
  <2> QED BY <2>4, <2>5
<1>3. CASE PD4 = 1 /\ ir_state % 2 = 0
  BY <1>3, SendsLevel, Stays DEF Lost
<1>4. CASE PD4 = 1 /\ ir_state % 2 = 1
  <2>1. PD4' = 0 /\ since' = 1 /\ Hear(PD4, since)
    BY <1>4, Changes, SendsLevel
  <2>2. seen' = 0 /\ received' = received
    BY <1>4, <2>1, HearsNoHeader DEF Lost
  <2> QED BY <1>4, <2>1, <2>2, SendsLow
<1> QED BY <1>1, <1>2, <1>3, <1>4, Sizes

\* A tick with nothing to send ends the level.
LEMMA SamplesHeard ==
  ASSUME ReceiverOK, ReceiverOK', SenderOK, us20_wait <= 1, SetPD4(1),
         Quiet \/ Lost \/ InFrame, received \subseteq may, may \subseteq Code
  PROVE  PD4' = 1 /\ received' \subseteq may
<1>1. CASE PD4 = 1
  BY <1>1, Stays
<1>2. CASE PD4 # 1
  <2>1. PD4' = 1 /\ Hear(PD4, since) /\ PD4 = 0
    BY <1>2, Changes DEF ReceiverOK, Level
  <2>2. CASE Quiet
    <3>1. seen = 0 /\ since # HeaderLow
      BY <1>2, <2>2, Sizes DEF Quiet
    <3> QED BY <2>1, <3>1, HearsNoHeader
  <2>3. CASE Lost
    BY <2>1, <2>3, HearsHeader, HearsNoHeader DEF Lost
  <2>4. CASE InFrame
    <3>1. us20_wait = 1 /\ InStep /\ Current \in Nat
      BY <2>4, CurrentState, Sizes DEF InFrame, InStep, SenderOK
    <3>2. CASE Current > 3
      <4>1. PICK c \in may : Carries(c)
        BY <2>4, <3>1, <3>2 DEF InFrame
      <4>2. received' = received \/ received' = received \union {c}
        BY <2>1, <3>1, <4>1, HearsCode
      <4> QED BY <2>1, <4>1, <4>2
    <3>3. CASE Current <= 3
      BY <2>1, <3>1, <3>3, HearsCode, Codes, Durations
    <3> QED BY <3>1, <3>2, <3>3
  <2> QED BY <2>1, <2>2, <2>3, <2>4
<1> QED BY <1>1, <1>2

LEMMA HeardTick ==
  ASSUME IInv, IInv', CodeOK, HeardOK, timer0
  PROVE  HeardOK'
<1>1. /\ UNCHANGED <<ir_code, key, may>> /\ ~Open' /\ poll'.op = poll.op
      /\ poll.op = "code" => Open
  BY TickIs
<1>2. CASE may = Code
  BY <1>1, <1>2 DEF HeardOK, IInv, ReceiverOK
<1>3. CASE may # Code
  <2>1. /\ may \subseteq Code /\ received \subseteq may /\ key # BufferCode
        /\ key # NoCode => key \in may
        /\ poll.op = "code" => ir_code # BufferCode
        /\ Long \/ Quiet \/ Lost \/ InFrame
    BY <1>3 DEF HeardOK
  <2>2. key # NoCode /\ ~Long => ir_code \in may \ {NoCode, BufferCode}
    <3>1. CASE poll.op = "code"
      BY <1>1, <1>3, <3>1 DEF HeardOK
    <3>2. CASE poll.op # "code"
      BY <2>1, <3>2, KeysDiffer DEF CodeOK
    <3> QED BY <3>1, <3>2
  <2>3. ASSUME received' \subseteq may, Long' \/ Quiet' \/ Lost' \/ InFrame'
        PROVE  HeardOK'
    BY <1>1, <2>1, <2>3 DEF HeardOK
  <2>4. ReceiverOK /\ ReceiverOK' /\ SenderOK /\ SenderOK' /\ ir_code \in Code
    BY DEF IInv, SenderOK
  <2>5. CASE Wait
    <3>1. CASE Long
      <4>1. received' = received /\ PD4' = PD4 /\ (since' = since + 1 \/ since' = since)
        BY <2>5, Stays DEF Wait
      <4> QED BY <2>1, <2>3, <2>4, <3>1, <4>1, Durations, Sizes DEF Long, ReceiverOK
    <3>2. CASE Lost
      BY <2>1, <2>3, <2>4, <2>5, <3>2, WaitsLost
    <3>3. CASE InFrame
      <4>1. /\ InStep' /\ Current' = Current /\ received' = received
            /\ \A c : Carries(c) => Carries(c)'
        BY <2>4, <2>5, <3>3, WaitsInStep DEF InFrame
      <4> QED BY <1>1, <2>1, <2>3, <3>3, <4>1 DEF InFrame
    <3>4. CASE Quiet
      BY <2>5, <3>4 DEF Quiet, Wait
    <3> QED BY <2>1, <3>1, <3>2, <3>3, <3>4
  <2>6. CASE /\ ir_code = NoCode /\ us20_wait <= 1 /\ us20_wait' = 0 /\ SetPD4(1)
    <3>1. CASE Long
      <4>1. received' = received /\ PD4' = PD4 /\ (since' = since + 1 \/ since' = since)
        BY <2>6, <3>1, Stays DEF Long
      <4> QED BY <2>1, <2>3, <2>4, <3>1, <4>1, Durations, Sizes DEF Long, ReceiverOK
    <3>2. CASE ~Long
      <4>1. key = NoCode
        BY <2>2, <2>6, <3>2
      <4>2. PD4' = 1 /\ received' \subseteq may
        BY <2>1, <2>4, <2>6, <3>2, SamplesHeard
      <4> QED BY <1>1, <2>3, <2>6, <4>1, <4>2 DEF Quiet
    <3> QED BY <3>1, <3>2
  <2>7. CASE ir_code = BufferCode
    BY <2>1, <2>7, KeysDiffer DEF CodeOK
  <2>8. CASE ir_code \notin {NoCode, BufferCode} /\ us20_wait <= 1 /\ Send
    <3>1. CASE Long
      BY <2>1, <2>3, <2>4, <2>8, <3>1, SendsLong
    <3>2. CASE Quiet
      BY <2>8, <3>2 DEF Quiet
    <3>3. CASE Lost
      <4>1. received' = received /\ (Lost' \/ (InStep' /\ Current' = 2))
        BY <2>4, <2>8, <3>3, SendsLost
      <4>2. InStep' /\ Current' = 2 => InFrame'
        BY DEF InFrame
      <4> QED BY <2>1, <2>3, <4>1, <4>2
    <3>4. CASE InFrame /\ ~Long
      <4>1. InStep /\ Current \in 1 .. States - 1
        BY <2>4, <3>4, CurrentState, Sizes DEF InFrame, InStep
      <4>2. key = NoCode => Open
        BY <1>1, <2>8 DEF CodeOK
      <4>3. CASE Current >= 3
        <5>1. PICK c \in may : Carries(c)
          BY <3>4, <4>2, <4>3 DEF InFrame
        <5>2. CASE Current = States - 1
          <6>1. seen' = 0 /\ PD4' = 1 /\ received' = received \union {c}
            BY <2>1, <2>4, <2>8, <4>1, <4>3, <5>1, <5>2, SendsInStep, Durations
          <6>2. Lost'
            BY <6>1 DEF Lost
          <6> QED BY <2>1, <2>3, <5>1, <6>1, <6>2
        <5>3. CASE Current # States - 1
          <6>1. InStep' /\ Current' = Current + 1 /\ received' = received /\ Carries(c)'
            BY <2>1, <2>4, <2>8, <4>1, <4>3, <5>1, <5>3, SendsInStep
          <6>2. InFrame'
            BY <1>1, <5>1, <6>1 DEF InFrame
          <6> QED BY <2>1, <2>3, <6>1, <6>2
        <5> QED BY <5>2, <5>3
      <4>4. CASE Current = 2
        <5>1. InStep' /\ Current' = 3 /\ received' = received /\ Carries(ir_code)'
          <6>1. Current # States - 1 /\ ~(Current >= 3)
            BY <4>4, Durations, Sizes
          <6>2. PICK c \in Code : c = ir_code
            BY <2>4
          <6>3. /\ InStep' /\ Current' = Current + 1 /\ received' = received
                /\ Current' >= 3 => Carries(c)'
            BY <2>4, <2>8, <4>1, <6>1, <6>2, SendsInStep
          <6>4. Carries(ir_code)'
            BY <1>1, <4>4, <6>2, <6>3
          <6> QED BY <4>4, <6>3, <6>4
        <5>2. InFrame'
          BY <1>1, <2>2, <3>4, <5>1 DEF InFrame
        <5> QED BY <2>1, <2>3, <5>1, <5>2
      <4>5. CASE Current = 1
        <5>1. InStep' /\ Current' = 2 /\ received' = received
          BY <2>4, <2>8, <4>1, <4>5, SendsInStep, Durations
        <5>2. InFrame'
          BY <5>1 DEF InFrame
        <5> QED BY <2>1, <2>3, <5>1, <5>2
      <4> QED BY <4>1, <4>3, <4>4, <4>5
    <3> QED BY <2>1, <3>1, <3>2, <3>3, <3>4
  <2> QED BY <2>5, <2>6, <2>7, <2>8, TickIs
<1> QED BY <1>2, <1>3

\* The host's steps leave the line as it is.
LEMMA HeardPress ==
  ASSUME IInv, IInv', CodeOK, GapOK, HeardOK, NEW c \in Keys \union {BufferCode}, Press(c)
  PROVE  HeardOK'
<1>1. /\ UNCHANGED <<ir_state, ir_bits, us20_wait, PD4, since, seen, got>>
      /\ received' = {} /\ key' = c /\ Open' /\ poll'.op = "code"
      /\ ir_code' = LowByte(c, key)
      /\ Current' = Current /\ (Long => Long') /\ (Lost => Lost')
  BY PressIs DEF Current, Long, Lost
<1>2. may \subseteq Code /\ key \in Code /\ c \in Code /\ LowByte(c, key) \in Code
  BY Codes, LowByteCode DEF HeardOK, IInv, HostOK
<1>3. CASE BufferCode \in {c, key}
  <2>1. may' = Code
    BY <1>3 DEF Press
  <2> QED BY <1>1, <2>1 DEF HeardOK
<1>4. CASE BufferCode \notin {c, key} /\ key = NoCode
  <2>1. may' = {c} /\ ticks = Pause
    BY <1>4 DEF Press
  <2>2. Long'
    BY <1>1, <1>4, <2>1, PauseBreaksOff
  <2>3. ir_code' # BufferCode
    BY <1>1, <1>2, <1>4, KeysDiffer
  <2> QED BY <1>1, <1>2, <1>4, <2>1, <2>2, <2>3 DEF HeardOK
<1>5. CASE BufferCode \notin {c, key} /\ key # NoCode
  <2>1. may' = may \union {c, LowByte(c, key)}
    BY <1>5 DEF Press
  <2>2. c \in Keys /\ key \in Keys
    BY <1>5 DEF CodeOK
  <2>3. ir_code' \in may' \ {NoCode, BufferCode} /\ c \in may' /\ may' \subseteq Code
    BY <1>1, <1>2, <2>1, <2>2, KeysDiffer
  <2>4. may' # Code => Long' \/ Quiet' \/ Lost' \/ InFrame'
    <3> SUFFICES ASSUME may' # Code
                 PROVE  Long' \/ Quiet' \/ Lost' \/ InFrame'
      OBVIOUS
    <3>1. may # Code
      BY <1>2, <2>1, <2>3
    <3>2. Long \/ Lost \/ InFrame
      BY <1>5, <3>1 DEF HeardOK, Quiet
    <3>3. InFrame => InFrame'
      <4>1. InStep => InStep'
        BY <1>1 DEF InStep
      <4>2. \A d : Carries(d) => Carries(d)'
        BY <1>1 DEF Carries
      <4> QED BY <1>1, <1>5, <2>1, <4>1, <4>2 DEF InFrame
    <3> QED BY <1>1, <3>2, <3>3
  <2> QED BY <1>1, <1>5, <2>3, <2>4 DEF HeardOK
<1> QED BY <1>3, <1>4, <1>5

LEMMA HeardStep ==
  ASSUME IInv, IInv', CodeOK, CodeOK', GapOK, HeardOK, Next
  PROVE  HeardOK'
<1>1. ASSUME UNCHANGED <<ir_state, ir_bits, us20_wait, PD4, since, seen, got>>
      PROVE  /\ Current' = Current /\ (Long => Long') /\ (Lost => Lost') /\ (InStep => InStep')
             /\ \A c : Carries(c) => Carries(c)'
  BY <1>1 DEF Current, Long, Lost, InStep, Carries
<1>2. CASE Poll
  <2>1. /\ UNCHANGED <<ir_state, ir_bits, us20_wait, PD4, since, seen, got, received, key, may>>
        /\ ~Open' /\ poll'.op # "code"
    BY <1>2, PollIs DEF host
  <2>2. Quiet => Quiet'
    BY <2>1 DEF Quiet, CodeOK
  <2>3. InFrame => InFrame'
    BY <1>1, <2>1 DEF InFrame
  <2> QED BY <1>1, <2>1, <2>2, <2>3 DEF HeardOK
<1>3. CASE GiveUp
  <2>1. /\ UNCHANGED <<ir_code, ir_state, ir_bits, us20_wait, PD4, since, seen, got, received,
                       may, key, poll>>
        /\ Open' = Open
    BY <1>3, GiveUpIs DEF Open
  <2>2. InFrame => InFrame'
    BY <1>1, <2>1 DEF InFrame
  <2> QED BY <1>1, <2>1, <2>2 DEF HeardOK, Quiet
<1>4. CASE Release
  <2>1. /\ UNCHANGED <<ir_state, ir_bits, us20_wait, PD4, since, seen, got, received, may>>
        /\ key # NoCode /\ key' = NoCode /\ poll'.op = "code"
    BY <1>4, ReleaseIs
  <2>2. InFrame => InFrame'
    BY <1>1, <2>1 DEF InFrame
  <2>3. ~Quiet /\ ir_code' # BufferCode
    BY <2>1 DEF Quiet, CodeOK
  <2> QED BY <1>1, <2>1, <2>2, <2>3, KeysDiffer DEF HeardOK
<1> QED BY <1>2, <1>3, <1>4, HeardTick, HeardPress DEF Next, Host

-----------------------------------------------------------------------------
(* A key that is held is received *)

\* The levels of a frame from a state on, with so many bits left and each of them taken
\* for a one.
Later(state, bits) ==
    IF state = 0 THEN 0
    ELSE IF state = 1 THEN HeaderLow + HeaderHigh + Low + Bits * (One + Low)
    ELSE IF state = 2 THEN HeaderHigh + Low + Bits * (One + Low)
    ELSE IF state = 3 THEN Low + Bits * (One + Low)
    ELSE IF state % 2 = 0 THEN bits * (One + Low)
    ELSE bits * (One + Low) + Low

\* The ticks until the next frame begins.
Left == (IF us20_wait > 1 THEN us20_wait ELSE 1) + Later(ir_state, Len(ir_bits))

\* Time is left for the rest of this frame and the next one; or this one is heard
\* from its header on, and from then on is the key's.
Enough(time, left, more) == time + left + more <= Hold

HeardWhole ==
    /\ ~Open /\ us20_wait >= 1
    /\ \/ Current = 0 /\ PD4 = 1
       \/ Current = 1 /\ PD4 = 0 /\ since + us20_wait - 1 = HeaderLow
       \/ Current = 2 /\ InStep
       \/ Current >= 3 /\ InStep /\ Carries(key)

HoldOK ==
    /\ Left \in Nat \ {0} /\ Left <= Frame
    /\ held /\ key # BufferCode =>
          \/ key \in received
          \/ Enough(ticks, Left, IF Open THEN Frame + 1 ELSE Frame)
          \/ HeardWhole /\ Enough(ticks, Left, 0)

LEMMA FrameSize ==
  /\ Bits * (One + Low) \in Nat /\ Frame \in Nat \ {0}
  /\ Frame = Interval + HeaderLow + HeaderHigh + Low + Bits * (One + Low)
  /\ 2 * Frame < Hold /\ Hold \in Nat
  BY Sizes, TimesAssumption DEF Frame

LEMMA Products ==
  ASSUME NEW n \in Nat, NEW x \in Nat
  PROVE  n * x \in Nat /\ (n + 1) * x = n * x + x
  OBVIOUS

LEMMA LaterIs ==
  ASSUME NEW state \in Nat, NEW n \in Nat
  PROVE  Later(state, n) \in Nat
<1>1. n * (One + Low) \in Nat
  BY Products, Sizes
<1> QED BY <1>1, FrameSize, Sizes DEF Later

LEMMA LaterSends ==
  ASSUME SenderOK, SenderOK', Send, ir_code \in Code
  PROVE  LET later == Later(ir_state, Len(ir_bits))
             later1 == Later(ir_state', Len(ir_bits'))
         IN /\ ir_state # 0 => us20_wait' + later1 <= later
            /\ ir_state = 0 => us20_wait' + later1 = Frame
<1> DEFINE rest == Bits * (One + Low)
           later == Later(ir_state, Len(ir_bits))
           later1 == Later(ir_state', Len(ir_bits'))
<1> SUFFICES /\ ir_state # 0 => us20_wait' + later1 <= later
             /\ ir_state = 0 => us20_wait' + later1 = Frame
  OBVIOUS
<1>1. ir_state \in 0 .. States - 1 /\ ir_state' = (ir_state + 1) % States
  BY DEF SenderOK, Send
<1>2. /\ ir_state < States - 1 => ir_state' = ir_state + 1
      /\ ir_state = States - 1 => ir_state' = 0
  BY <1>1, Sizes
<1>3. rest \in Nat
  BY FrameSize
<1>4. CASE ir_state = 0
  <2>1. us20_wait' = Interval /\ ir_state' = 1
    BY <1>2, <1>4, SendsLevel, Durations, Sizes
  <2>2. later1 = HeaderLow + HeaderHigh + Low + rest
    BY <2>1 DEF Later
  <2> HIDE DEF later1, rest
  <2> QED BY <1>3, <1>4, <2>1, <2>2, FrameSize, Sizes DEF rest
<1>5. CASE ir_state = 1
  <2>1. us20_wait' = HeaderLow /\ ir_state' = 2
    BY <1>2, <1>5, SendsLevel, Durations, Sizes
  <2>2. later1 = HeaderHigh + Low + rest
    BY <2>1 DEF Later
  <2>3. later = HeaderLow + HeaderHigh + Low + rest
    BY <1>5 DEF Later
  <2> HIDE DEF later, later1, rest
  <2> QED BY <1>3, <1>5, <2>1, <2>2, <2>3, Sizes
<1>6. CASE ir_state = 2
  <2>1. us20_wait' = HeaderHigh /\ ir_state' = 3
    BY <1>2, <1>6, SendsLevel, Durations, Sizes
  <2>2. later1 = Low + rest
    BY <2>1 DEF Later
  <2>3. later = HeaderHigh + Low + rest
    BY <1>6 DEF Later
  <2> HIDE DEF later, later1, rest
  <2> QED BY <1>3, <1>6, <2>1, <2>2, <2>3, Sizes
<1>7. CASE ir_state = 3
  <2>1. us20_wait' = Low /\ Len(ir_bits') = Bits /\ ir_state' = 4
    BY <1>2, <1>7, SendsLevel, CodeIsSeq, Durations, Sizes
  <2>2. later1 = rest
    BY <2>1 DEF Later
  <2>3. later = Low + rest
    BY <1>7 DEF Later
  <2> HIDE DEF later, later1, rest
  <2> QED BY <1>3, <1>7, <2>1, <2>2, <2>3, Sizes
<1>8. CASE ir_state > 3 /\ ir_state % 2 = 0
  <2>1. us20_wait' \in {One, Zero} /\ ir_bits' = Tail(ir_bits)
    BY <1>8, SendsLevel
  <2>2. ir_state' = ir_state + 1 /\ (ir_state + 1) % 2 = 1 /\ ir_state \in Nat
    BY <1>1, <1>2, <1>8, Sizes
  <2>3. ir_bits \in Seq({0, 1}) /\ 2 * Len(ir_bits) = 2 * Bits - ir_state + 4
    BY <1>1, <1>8, <2>2, Sizes DEF SenderOK
  <2>4. Len(ir_bits') + 1 = Len(ir_bits) /\ Len(ir_bits') \in Nat
    BY <1>1, <2>1, <2>3, Sizes
  <2>5. PICK n \in Nat : n = Len(ir_bits')
    BY <2>4
  <2>6. later = (n + 1) * (One + Low)
    BY <1>8, <2>2, <2>4, <2>5 DEF Later
  <2>7. later1 = n * (One + Low) + Low
    BY <1>8, <2>2, <2>5 DEF Later
  <2>8. PICK m \in Nat : m = n * (One + Low)
    BY Products, Sizes
  <2>9. later = m + (One + Low) /\ later1 = m + Low
    BY <2>6, <2>7, <2>8, Products, Sizes
  <2> HIDE DEF later, later1
  <2>10. us20_wait' = One => us20_wait' + later1 <= later
    BY <2>9, Sizes
  <2>11. us20_wait' = Zero => us20_wait' + later1 <= later
    BY <2>9, Durations, Sizes
  <2> QED BY <1>8, <2>1, <2>10, <2>11
<1>9. CASE ir_state > 3 /\ ir_state % 2 = 1
  <2>1. us20_wait' = Low /\ ir_bits' = ir_bits
    BY <1>1, <1>9, SendsLevel, Sizes
  <2>2. PICK m \in Nat : m = Len(ir_bits) * (One + Low)
    BY Products, Sizes DEF SenderOK
  <2>3. later = m + Low
    BY <1>1, <1>9, <2>2, Sizes DEF Later
  <2>4. CASE ir_state = States - 1
    <3>1. later1 = 0
      BY <1>2, <2>4 DEF Later
    <3> HIDE DEF later, later1
    <3> QED BY <1>9, <2>1, <2>3, <3>1, Sizes
  <2>5. CASE ir_state # States - 1
    <3>1. ir_state' = ir_state + 1 /\ (ir_state + 1) % 2 = 0 /\ ir_state \in Nat
      BY <1>1, <1>2, <1>9, <2>5, Sizes
    <3>2. later1 = m
      BY <1>9, <2>1, <2>2, <3>1 DEF Later
    <3> HIDE DEF later, later1
    <3> QED BY <1>9, <2>1, <2>3, <3>2, Sizes
  <2> QED BY <2>4, <2>5
<1> QED BY <1>1, <1>4, <1>5, <1>6, <1>7, <1>8, <1>9, Sizes

\* Every tick brings the next frame nearer, until it begins.
LEMMA LeftTick ==
  ASSUME SenderOK, SenderOK', ir_code \in Code, Left <= Frame
  PROVE  /\ Wait => Left' \in Nat \ {0} /\ Left' <= Frame /\ Left' = Left - 1
         /\ us20_wait' = 0 /\ UNCHANGED <<ir_state, ir_bits>> =>
               Left' \in Nat \ {0} /\ Left' <= Frame /\ Left' <= Left
         /\ us20_wait <= 1 /\ Send =>
               /\ Left' \in Nat \ {0} /\ Left' <= Frame
               /\ ir_state # 0 => Left' <= Left - 1
               /\ ir_state = 0 => Left' = Frame /\ Left = 1
<1> DEFINE later == Later(ir_state, Len(ir_bits))
           later1 == Later(ir_state', Len(ir_bits'))
<1>1. PICK l \in Nat : l = later
  <2>1. ir_state \in Nat /\ Len(ir_bits) \in Nat
    BY Sizes DEF SenderOK
  <2>2. later \in Nat
    BY <2>1, LaterIs
  <2> HIDE DEF later
  <2> QED BY <2>2
<1>2. PICK w \in Nat : w = us20_wait
  BY DEF SenderOK
<1>3. Left = (IF w > 1 THEN w ELSE 1) + l
  BY <1>1, <1>2 DEF Left
<1>4. ASSUME Wait
      PROVE  Left' = (IF w > 1 THEN w ELSE 1) + l - 1 /\ w > 1
  <2>1. us20_wait' = w - 1 /\ w > 1 /\ later1 = l
    BY <1>1, <1>2, <1>4 DEF Wait
  <2> HIDE DEF later1
  <2>2. Left' = (IF w - 1 > 1 THEN w - 1 ELSE 1) + l
    BY <2>1 DEF Left, later1
  <2> QED BY <2>1, <2>2
<1>5. ASSUME us20_wait' = 0 /\ UNCHANGED <<ir_state, ir_bits>>
      PROVE  Left' = 1 + l
  BY <1>1, <1>5 DEF Left
<1>6. ASSUME us20_wait <= 1 /\ Send
      PROVE  /\ Left = 1 + l
             /\ \E x \in Nat \ {0} : Left' = x /\ (ir_state # 0 => x <= l)
                                               /\ (ir_state = 0 => x = Frame /\ l = 0)
  <2>1. PICK d \in Nat \ {0} : d = us20_wait'
    BY <1>6, SendsLevel
  <2>2. PICK m \in Nat : m = later1
    BY LaterIs, Sizes DEF SenderOK
  <2>3. /\ ir_state # 0 => d + m <= l
        /\ ir_state = 0 => d + m = Frame
    BY <1>1, <1>6, <2>1, <2>2, LaterSends
  <2>4. Left' = d + m
    <3>1. Left' = (IF d > 1 THEN d ELSE 1) + m
      BY <2>1, <2>2 DEF Left
    <3> QED BY <3>1
  <2>5. ir_state = 0 => l = 0
    BY <1>1 DEF Later
  <2>6. Left = 1 + l
    BY <1>2, <1>3, <1>6
  <2>7. d + m \in Nat \ {0}
    OBVIOUS
  <2> QED BY <2>3, <2>4, <2>5, <2>6, <2>7
<1>7. Wait => Left' \in Nat \ {0} /\ Left' <= Frame /\ Left' = Left - 1
  BY <1>3, <1>4, FrameSize
<1>8. us20_wait' = 0 /\ UNCHANGED <<ir_state, ir_bits>> =>
         Left' \in Nat \ {0} /\ Left' <= Frame /\ Left' <= Left
  BY <1>3, <1>5, FrameSize
<1>9. ASSUME us20_wait <= 1 /\ Send
      PROVE  /\ Left' \in Nat \ {0} /\ Left' <= Frame
             /\ ir_state # 0 => Left' <= Left - 1
             /\ ir_state = 0 => Left' = Frame /\ Left = 1
  <2>1. PICK x \in Nat \ {0} : Left' = x /\ (ir_state # 0 => x <= l)
                                         /\ (ir_state = 0 => x = Frame /\ l = 0)
    BY <1>6, <1>9
  <2>2. Left = 1 + l
    BY <1>6, <1>9
  <2> QED BY <2>1, <2>2, FrameSize
<1> QED BY <1>7, <1>8, <1>9

\* A tick is worth as much as it takes.
LEMMA EnoughOn ==
  ASSUME NEW t \in Nat, NEW u \in {t, t + 1}, NEW l \in Nat, NEW m \in Nat, NEW x \in Nat
  PROVE  /\ Enough(t, l, x) /\ m <= l - 1 => Enough(u, m, x)
         /\ Enough(t, l, x + 1) /\ m <= l => Enough(u, m, x)
         /\ Enough(t, 1, x) /\ m = x => Enough(u, m, 0)
  BY FrameSize DEF Enough

LEMMA ReceivesMore ==
  ASSUME NEW level, SetPD4(level)
  PROVE  received \subseteq received'
  BY DEF SetPD4, Hear

\* What was begun in time is received whole.
LEMMA WholeTick ==
  ASSUME ReceiverOK, ReceiverOK', SenderOK, SenderOK', key \in Code, UNCHANGED key,
         HeardWhole, ir_code = key, ~Open',
         Wait \/ (us20_wait <= 1 /\ Send)
  PROVE  \/ key \in received'
         \/ HeardWhole' /\ (Wait \/ ir_state # 0)
<1>1. Current \in 0 .. States - 1 /\ (Current # States - 1 => ir_state = Current + 1)
  BY CurrentState
<1>2. CASE Wait
  <2>1. /\ UNCHANGED <<PD4, seen, got, received, ir_state, ir_bits>>
        /\ since' = IF since < Interval + 1 THEN since + 1 ELSE since
        /\ us20_wait' = us20_wait - 1 /\ us20_wait > 1
    BY <1>2, Stays DEF Wait
  <2>2. /\ since \in Nat /\ us20_wait \in Nat /\ Current' = Current
    BY <2>1, Sizes DEF ReceiverOK, SenderOK, Current
  <2>3. us20_wait' >= 1
    BY <2>1, <2>2
  <2>4. CASE Current = 0 /\ PD4 = 1
    BY <2>1, <2>2, <2>3, <2>4 DEF HeardWhole
  <2>5. CASE Current = 1 /\ PD4 = 0 /\ since + us20_wait - 1 = HeaderLow
    <3>1. since' + us20_wait' - 1 = HeaderLow
      BY <2>1, <2>2, <2>5, Durations, Sizes
    <3> QED BY <1>2, <2>1, <2>2, <2>3, <2>5, <3>1 DEF HeardWhole
  <2>6. CASE Current >= 2 /\ InStep
    <3>1. InStep' /\ \A c : Carries(c) => Carries(c)'
      BY <1>2, <2>6, WaitsInStep
    <3> QED BY <1>2, <2>2, <2>3, <2>6, <3>1 DEF HeardWhole
  <2> QED BY <1>1, <2>4, <2>5, <2>6, Sizes DEF HeardWhole
<1>3. CASE us20_wait <= 1 /\ Send
  <2>1. us20_wait = 1 /\ since \in Nat /\ us20_wait' \in Nat \ {0} /\ Current' = ir_state
    BY <1>3, SendsLevel, Sizes DEF HeardWhole, SenderOK, ReceiverOK
  <2>2. CASE Current = 0 /\ PD4 = 1
    <3>1. ir_state = 1 /\ us20_wait' = HeaderLow /\ SetPD4(0)
      BY <1>1, <1>3, <2>2, SendsLevel, Durations, Sizes
    <3>2. PD4' = 0 /\ since' = 1
      BY <2>2, <3>1, Changes
    <3> QED BY <2>1, <3>1, <3>2, Sizes DEF HeardWhole
  <2>3. CASE Current = 1 /\ PD4 = 0 /\ since + us20_wait - 1 = HeaderLow
    <3>1. ir_state = 2 /\ us20_wait' = HeaderHigh /\ SetPD4(1)
      BY <1>1, <1>3, <2>3, SendsLevel, Durations, Sizes
    <3>2. PD4' = 1 /\ since' = 1 /\ Hear(0, since)
      BY <2>3, <3>1, Changes
    <3>3. seen' = 1
      BY <2>1, <2>3, <3>2, HearsHeader
    <3>4. InStep'
      BY <2>1, <3>1, <3>2, <3>3, Sizes DEF InStep
    <3> QED BY <2>1, <3>1, <3>4 DEF HeardWhole
  <2>4. CASE Current >= 2 /\ InStep
    <3>1. Current >= 3 => Carries(key)
      BY <2>4, <1>1, Sizes DEF HeardWhole
    <3>2. CASE Current = States - 1
      <4>1. received' = received \union {key}
        BY <1>3, <2>1, <2>4, <3>1, <3>2, SendsInStep
      <4> QED BY <4>1
    <3>3. CASE Current # States - 1
      <4>1. InStep' /\ Current' = Current + 1 /\ (Current' >= 3 => Carries(key)')
        BY <1>3, <2>1, <2>4, <3>1, <3>3, SendsInStep
      <4>2. ir_state = Current + 1 /\ Current' >= 3
        BY <1>1, <2>1, <2>4, <3>3, Sizes
      <4> QED BY <2>1, <2>4, <4>1, <4>2 DEF HeardWhole
    <3> QED BY <3>2, <3>3
  <2> QED BY <1>1, <2>2, <2>3, <2>4, Sizes DEF HeardWhole
<1> QED BY <1>2, <1>3

LEMMA HoldTick ==
  ASSUME IInv, IInv', CodeOK, GapOK, HoldOK, timer0
  PROVE  HoldOK'
<1>1. /\ UNCHANGED <<ir_code, key, held>> /\ ~Open'
      /\ ticks \in Nat /\ ticks' \in {ticks, ticks + 1}
      /\ poll.op = "code" => Open
  BY TickIs DEF GapOK
<1>2. /\ ReceiverOK /\ ReceiverOK' /\ SenderOK /\ SenderOK' /\ ir_code \in Code
      /\ Left \in Nat \ {0} /\ Left <= Frame /\ Frame \in Nat
  BY FrameSize DEF IInv, SenderOK, HoldOK
<1>3. /\ Left' \in Nat \ {0} /\ Left' <= Frame
      /\ \/ Wait /\ Left' = Left - 1
         \/ ir_code \in {NoCode, BufferCode} /\ Left' <= Left
         \/ /\ ir_code \notin {NoCode, BufferCode} /\ us20_wait <= 1 /\ Send
            /\ ir_state # 0 => Left' <= Left - 1
            /\ ir_state = 0 => Left' = Frame /\ Left = 1
  BY <1>2, LeftTick, TickIs
<1>4. ASSUME held, key # BufferCode
      PROVE  \/ key \in received'
             \/ Enough(ticks', Left', Frame)
             \/ HeardWhole' /\ Enough(ticks', Left', 0)
  <2>1. key \in Keys /\ key \in Code
    BY <1>4 DEF CodeOK, IInv, HostOK
  <2>2. ~Open => ir_code = key /\ ir_code \notin {NoCode, BufferCode}
    BY <1>1, <2>1, KeysDiffer DEF CodeOK
  <2>3. CASE key \in received
    <3>1. \E level : SetPD4(level)
      BY TickIs, SendsLevel, <1>2 DEF Wait
    <3> QED BY <2>3, <3>1, ReceivesMore
  <2>4. CASE Enough(ticks, Left, IF Open THEN Frame + 1 ELSE Frame)
    <3>1. CASE ~(us20_wait <= 1 /\ Send /\ ir_state = 0)
      <4>1. Left' <= Left - 1 \/ (Open /\ Left' <= Left)
        BY <1>2, <1>3, <2>2, <3>1
      <4> QED BY <1>1, <1>2, <1>3, <2>4, <4>1, EnoughOn
    <3>2. CASE us20_wait <= 1 /\ Send /\ ir_state = 0
      <4>1. Left' = Frame /\ Left = 1
        BY <1>2, <3>2, LeftTick
      <4>2. Current' = 0 /\ PD4' = 1 /\ us20_wait' = Interval
        <5>1. SetPD4(1)
          BY <1>2, <3>2, SendsLevel
        <5> QED BY <1>2, <3>2, <5>1, SendsLevel DEF SetPD4
      <4>3. HeardWhole'
        BY <1>1, <4>2, Sizes DEF HeardWhole
      <4>4. Enough(ticks, 1, Frame)
        <5>1. CASE Open
          BY <1>1, <1>2, <2>4, <4>1, <5>1, FrameSize DEF Enough
        <5>2. CASE ~Open
          BY <1>1, <1>2, <2>4, <4>1, <5>2, FrameSize DEF Enough
        <5> QED BY <5>1, <5>2
      <4> QED BY <1>1, <1>2, <4>1, <4>3, <4>4, EnoughOn
    <3> QED BY <3>1, <3>2
  <2>5. CASE HeardWhole /\ Enough(ticks, Left, 0)
    <3>1. ~Open /\ ir_code = key /\ (Wait \/ (us20_wait <= 1 /\ Send))
      BY <1>3, <2>2, <2>5 DEF HeardWhole
    <3>2. key \in received' \/ (HeardWhole' /\ (Wait \/ ir_state # 0))
      BY <1>1, <1>2, <2>1, <2>5, <3>1, WholeTick
    <3>3. Wait \/ ir_state # 0 => Left' <= Left - 1
      BY <1>2, <3>1, LeftTick
    <3> QED BY <1>1, <1>2, <1>3, <2>5, <3>2, <3>3, EnoughOn
  <2> QED BY <1>4, <2>3, <2>4, <2>5 DEF HoldOK
<1> QED BY <1>1, <1>3, <1>4 DEF HoldOK

LEMMA HoldStep ==
  ASSUME IInv, IInv', CodeOK, GapOK, HoldOK, Next
  PROVE  HoldOK'
<1>1. CASE timer0
  BY <1>1, HoldTick
<1>2. ASSUME UNCHANGED <<ir_state, ir_bits, us20_wait, PD4, since, seen, got>>
      PROVE  /\ Left' = Left /\ Current' = Current
             /\ HeardWhole /\ UNCHANGED key /\ ~Open' => HeardWhole'
  BY <1>2 DEF Left, Current, HeardWhole, InStep, Carries
<1>3. CASE Poll
  <2>1. /\ UNCHANGED <<ir_state, ir_bits, us20_wait, PD4, since, seen, got, received,
                       key, held, ticks>>
        /\ ~Open'
    BY <1>3, PollIs DEF host
  <2>2. Enough(ticks, Left, Frame + 1) => Enough(ticks, Left, Frame)
    BY FrameSize DEF Enough, GapOK, HoldOK
  <2> QED BY <1>2, <2>1, <2>2 DEF HoldOK
<1>4. CASE GiveUp
  BY <1>2, <1>4, GiveUpIs DEF HoldOK
<1>5. CASE Release
  BY <1>2, <1>5, ReleaseIs DEF HoldOK
<1>6. ASSUME NEW c \in Keys \union {BufferCode}, Press(c)
      PROVE  HoldOK'
  <2>1. Open' /\ ticks' = 0 /\ Left' = Left
    BY <1>2, <1>6, PressIs
  <2>2. Enough(0, Left, Frame + 1)
    BY FrameSize DEF Enough, HoldOK
  <2> QED BY <2>1, <2>2 DEF HoldOK
<1> QED BY <1>1, <1>3, <1>4, <1>5, <1>6 DEF Next, Host

-----------------------------------------------------------------------------

LineInv == CodeOK /\ GapOK /\ HeardOK /\ HoldOK

LEMMA InitLineInv == Init => LineInv
<1> SUFFICES ASSUME Init PROVE LineInv
  OBVIOUS
<1>1. CodeOK
  BY DEF Init, CodeOK, Idle
<1>2. GapOK
  BY Sizes DEF Init, GapOK
<1>3. HeardOK
  BY KeysDiffer DEF Init, HeardOK, Quiet, Idle
<1>4. HoldOK
  <2>1. Left = 1
    BY DEF Init, Left, Later
  <2> QED BY <2>1, FrameSize DEF Init, HoldOK
<1> QED BY <1>1, <1>2, <1>3, <1>4 DEF LineInv

LEMMA NextLineInv ==
  ASSUME IInv, IInv', LineInv, [Next]_vars
  PROVE  LineInv'
<1>1. CASE UNCHANGED vars
  BY <1>1 DEF vars, sender, line, host, LineInv, CodeOK, GapOK, HeardOK, HoldOK, Open, Long,
     Quiet, Lost, InFrame, InStep, Carries, Current, HeardWhole, Left
<1>2. CASE Next
  BY <1>2, CodeStep, GapStep, HeardStep, HoldStep DEF LineInv
<1> QED BY <1>1, <1>2

\* Whatever is pressed, released, given up and played between the ticks, the sender, the
\* line and the receiver stay in the relation that LineInv states.
THEOREM LineInvariance == Spec => []LineInv
<1>1. Init => LineInv
  BY InitLineInv
<1>2. IInv /\ IInv' /\ LineInv /\ [Next]_vars => LineInv'
  BY NextLineInv
<1> QED BY <1>1, <1>2, Invariance, PTL DEF Spec

\* A receiver gets the key that is pressed and no other, wherever the key before broke
\* its frame off and whichever halves of codes a tick finds; two keys mixed only if
\* one is pressed over another; and nothing once the line is at rest.
THEOREM NothingElseIsSent == Spec => []SendsOnlyWhatIsAsked
<1>1. IInv /\ LineInv => SendsOnlyWhatIsAsked
  <2> SUFFICES ASSUME IInv, LineInv PROVE SendsOnlyWhatIsAsked
    OBVIOUS
  <2>1. received \subseteq may
    BY DEF LineInv, HeardOK
  <2>2. ASSUME key = NoCode, ticks >= HeaderLow + 1
        PROVE  PD4 = 1
    <3>1. PD4 \in {0, 1} /\ ticks \in Nat /\ us20_wait \in Nat
      BY Sizes DEF IInv, LineInv, ReceiverOK, SenderOK, GapOK, Level
    <3> QED BY <2>2, <3>1, Sizes DEF LineInv, GapOK, Resting
  <2> QED BY <2>1, <2>2 DEF SendsOnlyWhatIsAsked
<1> QED BY <1>1, Invariance, LineInvariance, PTL

\* A key that is held for its 600 ms is received whole, in whatever state the sender
\* was when it was pressed.
THEOREM HeldKeyArrives == Spec => []KeyReceived
<1>1. IInv /\ LineInv => KeyReceived
  <2> SUFFICES ASSUME LineInv, held, ticks = Hold, key # BufferCode
               PROVE  key \in received
    BY DEF KeyReceived
  <2>1. /\ Left \in Nat \ {0} /\ Frame \in Nat \ {0} /\ Hold \in Nat
        /\ \/ key \in received
           \/ Enough(ticks, Left, IF Open THEN Frame + 1 ELSE Frame)
           \/ Enough(ticks, Left, 0)
    BY FrameSize DEF LineInv, HoldOK
  <2>2. ~Enough(ticks, Left, 0) /\ ~Enough(ticks, Left, Frame) /\ ~Enough(ticks, Left, Frame + 1)
    BY <2>1 DEF Enough
  <2> QED BY <2>1, <2>2
<1> QED BY <1>1, Invariance, LineInvariance, PTL
=============================================================================
