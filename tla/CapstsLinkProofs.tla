--------------------------- MODULE CapstsLinkProofs ---------------------------
(***************************************************************************)
(* Proofs about CapstsLink, for whatever the processes do one after the    *)
(* other with the functions of capsts.h, whatever an uninitialised byte    *)
(* holds, and every size of the packet up to 255.                          *)
(*                                                                         *)
(* First the parsing: the bytes of a packet are its commands end to end,   *)
(* and TD_Poll is always at the end of one of them, or astray within one   *)
(* that follows CMD_PORT_CFG, of which the firmware reads an argument that *)
(* was never pushed.  Then the runs of tsniff: which packets a run sends,  *)
(* where TD_Poll is between their commands, and what those that are        *)
(* decoded have done to the registers, which outlive the run.              *)
(***************************************************************************)
EXTENDS CapstsLink, TLAPS

-----------------------------------------------------------------------------
(* Commands and the calls of a run                                         *)

\* A byte that is a command, by its four lower bits.
CommandCode(cmd, b3, b2, b1, b0) ==
    /\ cmd \in Byte
    /\ 6 \in cmd /\ 4 \in cmd /\ 5 \notin cmd
    /\ (3 \in cmd) = b3 /\ (2 \in cmd) = b2 /\ (1 \in cmd) = b1 /\ (0 \in cmd) = b0

LEMMA CodeBits ==
    /\ CommandCode(CMD_EP6IN_START, FALSE, FALSE, FALSE, FALSE)
    /\ CommandCode(CMD_EP6IN_STOP, FALSE, FALSE, FALSE, TRUE)
    /\ CommandCode(CMD_EP2OUT_START, FALSE, FALSE, TRUE, FALSE)
    /\ CommandCode(CMD_EP2OUT_STOP, FALSE, FALSE, TRUE, TRUE)
    /\ CommandCode(CMD_PORT_CFG, FALSE, TRUE, FALSE, FALSE)
    /\ CommandCode(CMD_REG_READ, FALSE, TRUE, FALSE, TRUE)
    /\ CommandCode(CMD_REG_WRITE, FALSE, TRUE, TRUE, FALSE)
    /\ CommandCode(CMD_PORT_READ, FALSE, TRUE, TRUE, TRUE)
    /\ CommandCode(CMD_PORT_WRITE, TRUE, FALSE, FALSE, FALSE)
    /\ CommandCode(CMD_IFCONFIG, TRUE, FALSE, FALSE, TRUE)
    /\ CommandCode(CMD_MODE_IDLE, TRUE, FALSE, TRUE, FALSE)
    /\ CommandCode(CMD_EP4IN_START, TRUE, FALSE, TRUE, TRUE)
    /\ CommandCode(CMD_EP4IN_STOP, TRUE, TRUE, FALSE, FALSE)
    /\ CommandCode(CMD_IR_CODE, TRUE, TRUE, FALSE, TRUE)
    /\ CommandCode(CMD_IR_WBUF, TRUE, TRUE, TRUE, FALSE)
    /\ CommandCode(CMD_IR_RBUF, TRUE, TRUE, TRUE, TRUE)
BY DEF CommandCode, Byte, Bits, CMD_EP6IN_START, CMD_EP6IN_STOP, CMD_EP2OUT_START, CMD_EP2OUT_STOP,
   CMD_PORT_CFG, CMD_REG_READ, CMD_REG_WRITE, CMD_PORT_READ, CMD_PORT_WRITE, CMD_IFCONFIG,
   CMD_MODE_IDLE, CMD_EP4IN_START, CMD_EP4IN_STOP, CMD_IR_CODE, CMD_IR_WBUF, CMD_IR_RBUF

\* The command that the host cannot push is none of those that it can.
LEMMA OnlyDecoded ==
    /\ CMD_EP4AUTOINLEN \notin Codes
    /\ Codes \subseteq Decoded /\ CMD_EP4AUTOINLEN \in Decoded
<1>1. 5 \in CMD_EP4AUTOINLEN
  BY DEF CMD_EP4AUTOINLEN
<1>2. \A cmd \in Codes : 5 \notin cmd
  BY CodeBits DEF CommandCode, Codes
<1> QED BY <1>1, <1>2 DEF Decoded

\* The elements of a concatenation.
LEMMA Joined ==
  ASSUME NEW S, NEW s \in Seq(S), NEW t \in Seq(S)
  PROVE  /\ s \o t \in Seq(S) /\ Len(s \o t) = Len(s) + Len(t)
         /\ \A n \in 1 .. Len(s) : (s \o t)[n] = s[n]
         /\ \A n \in 1 .. Len(t) : (s \o t)[n + Len(s)] = t[n]
OBVIOUS

LEMMA Calls4 ==
  ASSUME NEW a \in Call, NEW b \in Call, NEW c \in Call, NEW d \in Call
  PROVE  <<a, b, c, d>> \in Seq(Call)
OBVIOUS

\* The commands are bytes, and so are the arguments that run gives.
LEMMA BytesAre ==
  /\ Codes \subseteq Byte /\ PIO_START \in Byte /\ {} \in Byte /\ {7, 6, 5, 1, 0} \in Byte
  /\ {CMD_PORT_CFG, CMD_MODE_IDLE, CMD_IFCONFIG, CMD_EP6IN_START, CMD_EP6IN_STOP, CMD_EP4IN_START,
      CMD_EP4IN_STOP, CMD_PORT_WRITE, CMD_IR_CODE} \subseteq Codes
<1>1. Codes \subseteq Byte
  BY DEF Byte, Bits, Codes, CMD_EP6IN_START, CMD_EP6IN_STOP, CMD_EP2OUT_START, CMD_EP2OUT_STOP,
   CMD_PORT_CFG, CMD_REG_READ, CMD_REG_WRITE, CMD_PORT_READ, CMD_PORT_WRITE, CMD_IFCONFIG,
   CMD_MODE_IDLE, CMD_EP4IN_START, CMD_EP4IN_STOP, CMD_IR_CODE, CMD_IR_WBUF, CMD_IR_RBUF
<1>2. PIO_START \in Byte /\ {} \in Byte /\ {7, 6, 5, 1, 0} \in Byte
  BY DEF PIO_START, Byte, Bits
<1> QED BY <1>1, <1>2 DEF Codes

LEMMA PushType ==
  ASSUME NEW cond \in BOOLEAN, NEW cmd \in Codes, NEW x \in Byte, NEW y \in Byte
  PROVE  /\ PushIf(cond, <<cmd>>) \in Call
         /\ PushIf(cond, <<cmd, x>>) \in Call
         /\ PushIf(cond, <<cmd, x, y>>) \in Call
<1>1. cmd \in Byte
  BY BytesAre
<1>2. <<cmd>> \in Seq(Byte) /\ <<cmd, x>> \in Seq(Byte) /\ <<cmd, x, y>> \in Seq(Byte)
  BY <1>1
<1>3. \A s \in Seq(Byte) : PushIf(cond, s) \in Call
  BY DEF PushIf, Call
<1> QED BY <1>2, <1>3

LEMMA CaptureType ==
  ASSUME NEW option \in Option
  PROVE  /\ Configure \in Seq(Call) /\ StartCapture(option) \in Seq(Call)
         /\ StopCapture(option) \in Seq(Call)
         /\ Configure \o <<IrCommit(option.keys)>> \in Seq(Call)
<1>1. option.ts \in BOOLEAN /\ option.bcas \in BOOLEAN /\ option.keys \in Seq(IrCode)
  BY DEF Option
<1>2. Commit \in Call /\ IrCommit(option.keys) \in Call
  BY <1>1 DEF Commit, IrCommit, Call
<1>3. /\ Push(<<CMD_PORT_CFG, {}, PIO_START>>) \in Call
      /\ Push(<<CMD_MODE_IDLE>>) \in Call
      /\ Push(<<CMD_IFCONFIG, {7, 6, 5, 1, 0}>>) \in Call
      /\ Push(<<CMD_PORT_WRITE, PIO_START>>) \in Call
  BY BytesAre, PushType DEF Push
<1>4. /\ PushIf(option.ts, <<CMD_EP6IN_START>>) \in Call
      /\ PushIf(option.ts, <<CMD_EP6IN_STOP>>) \in Call
      /\ PushIf(option.bcas, <<CMD_EP4IN_START>>) \in Call
      /\ PushIf(option.bcas, <<CMD_EP4IN_STOP>>) \in Call
  BY <1>1, BytesAre, PushType
<1>5. Configure \in Seq(Call)
  BY <1>2, <1>3, Calls4 DEF Configure
<1>6. StartCapture(option) \in Seq(Call)
  BY <1>2, <1>3, <1>4, Calls4 DEF StartCapture
<1>7. StopCapture(option) \in Seq(Call)
  BY <1>2, <1>3, <1>4, Calls4 DEF StopCapture
<1>8. <<IrCommit(option.keys)>> \in Seq(Call)
  BY <1>2
<1> QED BY <1>5, <1>6, <1>7, <1>8, Joined

\* The elements of the calls of a run, of which each part has its place.
LEMMA InOrder ==
  ASSUME NEW S, NEW a \in Seq(S), NEW b \in Seq(S), NEW c \in Seq(S), NEW x \in S
  PROVE  LET before == a \o <<x>>
             all    == before \o (b \o c)
         IN  /\ Len(before) = Len(a) + 1 /\ before[Len(a) + 1] = x
             /\ \A n \in 1 .. Len(a) : before[n] = a[n]
             /\ all \in Seq(S) /\ Len(all) = Len(a) + 1 + Len(b) + Len(c)
             /\ \A n \in 1 .. Len(a) : all[n] = a[n]
             /\ all[Len(a) + 1] = x
             /\ \A n \in 1 .. Len(b) : all[n + (Len(a) + 1)] = b[n]
             /\ \A n \in 1 .. Len(c) : all[(n + Len(b)) + (Len(a) + 1)] = c[n]
<1> DEFINE before == a \o <<x>>
           after  == b \o c
           all    == before \o after
<1>1. /\ before \in Seq(S) /\ Len(before) = Len(a) + 1 /\ before[Len(a) + 1] = x
      /\ \A n \in 1 .. Len(a) : before[n] = a[n]
  OBVIOUS
<1>2. /\ after \in Seq(S) /\ Len(after) = Len(b) + Len(c)
      /\ \A n \in 1 .. Len(b) : after[n] = b[n]
      /\ \A n \in 1 .. Len(c) : after[n + Len(b)] = c[n]
  BY Joined
<1> HIDE DEF before, after
<1>0. before \in Seq(S) /\ after \in Seq(S)
  BY <1>1, <1>2
<1>3. /\ all \in Seq(S) /\ Len(all) = Len(before) + Len(after)
      /\ \A n \in 1 .. Len(before) : all[n] = before[n]
      /\ \A n \in 1 .. Len(after) : all[n + Len(before)] = after[n]
  BY <1>0, Joined
<1>4. Len(a) \in Nat /\ Len(b) \in Nat /\ Len(c) \in Nat
  OBVIOUS
<1> HIDE DEF all
<1>5. /\ \A n \in 1 .. Len(a) : all[n] = a[n]
      /\ all[Len(a) + 1] = x
  BY <1>1, <1>3, <1>4
<1>6. \A n \in 1 .. Len(b) : all[n + (Len(a) + 1)] = b[n]
  BY <1>1, <1>2, <1>3, <1>4
<1>7. ASSUME NEW n \in 1 .. Len(c) PROVE all[(n + Len(b)) + (Len(a) + 1)] = c[n]
  <2>1. n + Len(b) \in 1 .. Len(after)
    BY <1>2, <1>4
  <2> QED BY <1>1, <1>2, <1>3, <2>1
<1>8. Len(all) = Len(a) + 1 + Len(b) + Len(c)
  BY <1>1, <1>2, <1>3, <1>4
<1> QED BY <1>1, <1>3, <1>5, <1>6, <1>7, <1>8 DEF all, after, before

\* What the calls of a run are, one by one.
LEMMA RunCalls ==
  ASSUME NEW option \in Option
  PROVE  LET calls == RunProgram(option).calls IN
         /\ calls \in Seq(Call)
         /\ Len(calls) = IF option.setup THEN 13 ELSE 5
         /\ calls[1] = Push(<<CMD_PORT_CFG, {}, PIO_START>>)
         /\ calls[2] = Push(<<CMD_MODE_IDLE>>)
         /\ calls[3] = Push(<<CMD_IFCONFIG, {7, 6, 5, 1, 0}>>)
         /\ calls[4] = Commit
         /\ calls[5] = IrCommit(option.keys)
         /\ option.setup =>
              /\ calls[6] = PushIf(option.ts, <<CMD_EP6IN_START>>)
              /\ calls[7] = PushIf(option.bcas, <<CMD_EP4IN_START>>)
              /\ calls[8] = Push(<<CMD_PORT_WRITE, PIO_START>>)
              /\ calls[9] = Commit
              /\ calls[10] = PushIf(option.ts, <<CMD_EP6IN_STOP>>)
              /\ calls[11] = PushIf(option.bcas, <<CMD_EP4IN_STOP>>)
              /\ calls[12] = Push(<<CMD_MODE_IDLE>>)
              /\ calls[13] = Commit
<1> DEFINE x == IrCommit(option.keys)
           calls == RunProgram(option).calls
<1>1. /\ Configure \in Seq(Call) /\ StartCapture(option) \in Seq(Call)
      /\ StopCapture(option) \in Seq(Call) /\ Configure \o <<x>> \in Seq(Call)
      /\ x \in Call
  <2>1. option.keys \in Seq(IrCode)
    BY DEF Option
  <2>2. x \in Call
    BY <2>1 DEF IrCommit, Call
  <2> QED BY <2>2, CaptureType
<1>2. Len(Configure) = 4 /\ Len(StartCapture(option)) = 4 /\ Len(StopCapture(option)) = 4
  BY DEF Configure, StartCapture, StopCapture
<1>3. CASE option.setup
  <2>1. calls = (Configure \o <<x>>) \o (StartCapture(option) \o StopCapture(option))
    BY <1>3 DEF RunProgram
  <2> HIDE DEF calls, x
  <2>2. /\ calls \in Seq(Call)
        /\ Len(calls) = Len(Configure) + 1 + Len(StartCapture(option)) + Len(StopCapture(option))
        /\ \A n \in 1 .. Len(Configure) : calls[n] = Configure[n]
        /\ calls[Len(Configure) + 1] = x
        /\ \A n \in 1 .. Len(StartCapture(option)) :
              calls[n + (Len(Configure) + 1)] = StartCapture(option)[n]
        /\ \A n \in 1 .. Len(StopCapture(option)) :
              calls[(n + Len(StartCapture(option))) + (Len(Configure) + 1)] = StopCapture(option)[n]
    BY <1>1, <2>1, InOrder
  <2>3. /\ Len(calls) = 13 /\ calls[5] = x
        /\ \A n \in 1 .. 4 : /\ calls[n] = Configure[n]
                             /\ calls[n + 5] = StartCapture(option)[n]
                             /\ calls[n + 9] = StopCapture(option)[n]
    BY <1>2, <2>2
  <2>5. /\ calls[1] = Configure[1] /\ calls[2] = Configure[2]
        /\ calls[3] = Configure[3] /\ calls[4] = Configure[4]
        /\ calls[1 + 5] = StartCapture(option)[1] /\ calls[2 + 5] = StartCapture(option)[2]
        /\ calls[3 + 5] = StartCapture(option)[3] /\ calls[4 + 5] = StartCapture(option)[4]
        /\ calls[1 + 9] = StopCapture(option)[1] /\ calls[2 + 9] = StopCapture(option)[2]
        /\ calls[3 + 9] = StopCapture(option)[3] /\ calls[4 + 9] = StopCapture(option)[4]
    BY <2>3
  <2>6. /\ calls[6] = StartCapture(option)[1] /\ calls[7] = StartCapture(option)[2]
        /\ calls[8] = StartCapture(option)[3] /\ calls[9] = StartCapture(option)[4]
        /\ calls[10] = StopCapture(option)[1] /\ calls[11] = StopCapture(option)[2]
        /\ calls[12] = StopCapture(option)[3] /\ calls[13] = StopCapture(option)[4]
    BY <2>5
  <2> QED BY <1>3, <2>2, <2>3, <2>5, <2>6 DEF calls, x, Configure, StartCapture, StopCapture
<1>4. CASE ~option.setup
  <2>1. calls = Configure \o <<x>>
    BY <1>1, <1>4 DEF RunProgram
  <2> HIDE DEF calls, x
  <2>2. /\ calls \in Seq(Call) /\ Len(calls) = Len(Configure) + 1 /\ calls[Len(Configure) + 1] = x
        /\ \A n \in 1 .. Len(Configure) : calls[n] = Configure[n]
    BY <1>1, <2>1, InOrder
  <2>3. /\ Len(calls) = 5 /\ calls[5] = x
        /\ calls[1] = Configure[1] /\ calls[2] = Configure[2]
        /\ calls[3] = Configure[3] /\ calls[4] = Configure[4]
    BY <1>2, <2>2
  <2> QED BY <1>4, <2>2, <2>3 DEF calls, x, Configure
<1> QED BY <1>3, <1>4 DEF Option

\* The commands of a run have the arguments they need.
LEMMA RunCommands ==
  /\ IsCommand(<<CMD_PORT_CFG, {}, PIO_START>>) /\ IsCommand(<<CMD_MODE_IDLE>>)
  /\ IsCommand(<<CMD_IFCONFIG, {7, 6, 5, 1, 0}>>) /\ IsCommand(<<CMD_PORT_WRITE, PIO_START>>)
  /\ IsCommand(<<CMD_EP6IN_START>>) /\ IsCommand(<<CMD_EP6IN_STOP>>)
  /\ IsCommand(<<CMD_EP4IN_START>>) /\ IsCommand(<<CMD_EP4IN_STOP>>)
  /\ Harmless(<<CMD_MODE_IDLE>>)
<1>1. \A cmd \in {CMD_MODE_IDLE, CMD_EP6IN_START, CMD_EP6IN_STOP, CMD_EP4IN_START, CMD_EP4IN_STOP} :
         IsCommand(<<cmd>>)
  BY BytesAre, CodeBits DEF IsCommand, CommandCode
<1>2. \A cmd \in {CMD_IFCONFIG, CMD_PORT_WRITE}, x \in Byte : IsCommand(<<cmd, x>>)
  BY BytesAre, CodeBits DEF IsCommand, CommandCode
<1>3. IsCommand(<<CMD_PORT_CFG, {}, PIO_START>>)
  BY BytesAre, CodeBits DEF IsCommand, CommandCode
<1>4. Harmless(<<CMD_MODE_IDLE>>)
  BY DEF Harmless
<1> QED BY <1>1, <1>2, <1>3, <1>4, BytesAre

LEMMA CallFields ==
  /\ \A cmd : Push(cmd).op = "push" /\ Push(cmd).cmd = cmd
  /\ \A cond, cmd : /\ PushIf(cond, cmd).cmd = cmd
                    /\ PushIf(cond, cmd).op = IF cond THEN "push" ELSE "skip"
  /\ Commit.op = "commit"
  /\ \A keys : IrCommit(keys).op = "ir_commit" /\ IrCommit(keys).keys = keys
BY DEF Push, PushIf, Commit, IrCommit

\* Every process keeps to what capsts.h documents.
LEMMA ProgramType ==
  ASSUME NEW p \in Programs
  PROVE  /\ IsProgram(p.calls) /\ p.api \in BOOLEAN
         /\ ~p.api => /\ p.option \in Option /\ (p.option.ts \/ p.option.bcas)
                      /\ p = RunProgram(p.option)
         /\ p.api => ~p.option.setup
<1>1. CASE p = ApiProgram(p.calls) /\ IsProgram(p.calls)
  <2>1. p.api = TRUE /\ p.option.setup = FALSE
    BY <1>1 DEF ApiProgram
  <2> QED BY <1>1, <2>1
<1>2. ASSUME p.option \in Option, p.option.ts \/ p.option.bcas, p = RunProgram(p.option)
      PROVE  /\ p.api = FALSE /\ IsProgram(p.calls)
  <2> DEFINE calls == RunProgram(p.option).calls
  <2>1. p.api = FALSE /\ p.calls = calls
    <3>1. RunProgram(p.option).api = FALSE
      BY DEF RunProgram
    <3> QED BY <1>2, <3>1
  <2>2. /\ calls \in Seq(Call) /\ DOMAIN calls = 1 .. (IF p.option.setup THEN 13 ELSE 5)
        /\ calls[1].op = "push" /\ calls[2].op = "push" /\ calls[3].op = "push"
        /\ calls[4].op = "commit" /\ calls[5].op = "ir_commit"
        /\ calls[1].cmd = <<CMD_PORT_CFG, {}, PIO_START>>
        /\ calls[2].cmd = <<CMD_MODE_IDLE>>
        /\ calls[3].cmd = <<CMD_IFCONFIG, {7, 6, 5, 1, 0}>>
    BY <1>2, RunCalls, CallFields
  <2>3. p.option.setup =>
           /\ calls[9].op = "commit" /\ calls[13].op = "commit"
           /\ calls[6].cmd = <<CMD_EP6IN_START>> /\ calls[7].cmd = <<CMD_EP4IN_START>>
           /\ calls[8].cmd = <<CMD_PORT_WRITE, PIO_START>>
           /\ calls[10].cmd = <<CMD_EP6IN_STOP>> /\ calls[11].cmd = <<CMD_EP4IN_STOP>>
           /\ calls[12].cmd = <<CMD_MODE_IDLE>>
    BY <1>2, RunCalls, CallFields
  <2> HIDE DEF calls
  <2>4. ASSUME NEW n \in DOMAIN calls, calls[n].op = "push"
        PROVE  IsCommand(calls[n].cmd) /\ (calls[n].cmd[1] = CMD_PORT_CFG => n = 1)
    <3>1. CASE n = 1
      BY <2>2, <3>1, RunCommands
    <3>2. CASE n \in {2, 3}
      <4>1. CMD_PORT_CFG \notin {CMD_MODE_IDLE, CMD_IFCONFIG}
        BY CodeBits DEF CommandCode
      <4>2. CASE n = 2
        <5>1. calls[n].cmd = <<CMD_MODE_IDLE>>
          BY <2>2, <4>2
        <5> QED BY <4>1, <5>1, RunCommands
      <4>3. CASE n = 3
        <5>1. calls[n].cmd = <<CMD_IFCONFIG, {7, 6, 5, 1, 0}>>
          BY <2>2, <4>3
        <5> QED BY <4>1, <5>1, RunCommands
      <4> QED BY <3>2, <4>2, <4>3
    <3>3. CASE n > 5
      <4>1. n \in {6, 7, 8, 10, 11, 12} /\ p.option.setup
        BY <1>2, <2>2, <2>3, <2>4, <3>3 DEF Option
      <4> QED BY <2>3, <4>1, RunCommands, CodeBits DEF CommandCode
    <3> QED BY <1>2, <2>2, <2>4, <3>1, <3>2, <3>3 DEF Option
  <2>5. 2 \in DOMAIN calls /\ calls[2].op = "push" /\ Harmless(calls[2].cmd)
    BY <1>2, <2>2, RunCommands DEF Option
  <2> QED BY <2>1, <2>2, <2>4, <2>5 DEF IsProgram
<1> QED BY <1>1, <1>2, ProgramsAssumption

-----------------------------------------------------------------------------
(* Types                                                                   *)

Packet == [cmds : Seq(Seq(Byte)), bytes : Seq(Byte)]

\* Of what the firmware changes.
Registers ==
    [IOD : Byte, OED : Byte, IFCONFIG : Byte, val_ifconfig : Byte, ep2 : BOOLEAN, ep4 : BOOLEAN,
     ep6 : BOOLEAN, ir_code : IrCode, ir_wbuf_len : 0 .. 255]

HostType ==
    /\ program \in Programs /\ n_calls \in 0 .. Len(program.calls) /\ n_edges \in Nat
    /\ n_edges # 0 => Calls("ir_commit") /\ n_edges <= 2 * Len(program.calls[n_calls + 1].keys)
    /\ st_cmd_queue \in Packet /\ Len(st_cmd_queue.bytes) <= PacketSize
    /\ runs \in Nat /\ lost \in BOOLEAN /\ tidy \in BOOLEAN

DeviceType ==
    /\ ep1 \in Packet /\ Len(ep1.bytes) <= 255
    /\ polling \in BOOLEAN /\ cmd_cnt \in 0 .. 255 /\ at \in Nat
    /\ addr_mask \in Byte /\ executed \in Seq(Seq(Byte))
    /\ reg \in Registers
    /\ polling => ep1 # None
    /\ ~polling => at = 0

\* Type invariant: the queue fits the packet that it will be, and the 8-bit values their width.
TypeOK == HostType /\ DeviceType

LEMMA ValueType ==
  ASSUME NEW byte
  PROVE  /\ Value(byte) \in Nat /\ Value(byte) \in 0 .. 255
         /\ byte \in Byte => (Value(byte) = 0 <=> byte = {})
<1>1. Value(byte) \in 0 .. 255
  BY DEF Value
<1>2. ASSUME byte \in Byte
      PROVE  Value(byte) = 0 <=> byte = {}
  BY <1>2 DEF Value, Byte, Bits
<1>3. \A n \in 0 .. 255 : n \in Nat
  OBVIOUS
<1> QED BY <1>1, <1>2, <1>3

\* Only of CMD_PORT_CFG an argument is not pushed.
LEMMA CommandFacts ==
  ASSUME NEW cmd, IsCommand(cmd)
  PROVE  /\ cmd \in Seq(Byte) /\ Len(cmd) \in Nat \ {0}
         /\ Pushed(cmd) \in Nat /\ Pushed(cmd) + 1 <= Len(cmd)
         /\ cmd[1] # CMD_PORT_CFG => Pushed(cmd) + 1 = Len(cmd)
         /\ cmd[1] = CMD_PORT_CFG => Pushed(cmd) = 1
         /\ cmd[1] = CMD_IR_WBUF => Value(cmd[3]) > 0 /\ Len(cmd) = 3 + Value(cmd[3])
<1>1. cmd \in Seq(Byte) /\ cmd # << >> /\ Len(cmd) \in Nat \ {0}
  BY DEF IsCommand
<1>2. CASE cmd[1] = CMD_IR_WBUF
  <2>1. Len(cmd) = 1 + (2 + Value(cmd[3])) /\ Len(cmd) > 3 /\ Pushed(cmd) = Len(cmd) - 1
    BY <1>2 DEF IsCommand, Pushed
  <2>2. CMD_IR_WBUF # CMD_PORT_CFG
    BY CodeBits DEF CommandCode
  <2>3. Value(cmd[3]) \in Nat
    BY ValueType
  <2> QED BY <1>1, <1>2, <2>1, <2>2, <2>3
<1>3. CASE cmd[1] = CMD_PORT_CFG
  BY <1>1, <1>3, CodeBits DEF IsCommand, Pushed, CommandCode
<1>4. CASE cmd[1] \notin {CMD_IR_WBUF, CMD_PORT_CFG}
  <2>1. Len(cmd) = 1 + Pushed(cmd)
    BY <1>4, CodeBits DEF IsCommand, Pushed, CommandCode
  <2>2. Pushed(cmd) \in Nat
    BY <1>4 DEF Pushed
  <2> QED BY <1>1, <1>4, <2>1, <2>2
<1> QED BY <1>1, <1>2, <1>3, <1>4

LEMMA ReadType ==
  ASSUME DeviceType, NEW n \in Nat \ {0}
  PROVE  Read(n) \in Byte
<1>1. ep1.bytes \in Seq(Byte) /\ at \in Nat
  BY DEF DeviceType, Packet
<1> QED BY <1>1, BytesAre DEF Read

\* The call that comes next is one of the process.
LEMMA NextCall ==
  ASSUME HostType, NEW op, Calls(op)
  PROVE  /\ program.calls \in Seq(Call) /\ n_calls + 1 \in 1 .. Len(program.calls)
         /\ program.calls[n_calls + 1] \in Call
         /\ op = "push" => IsCommand(program.calls[n_calls + 1].cmd)
<1>1. IsProgram(program.calls)
  BY ProgramType DEF HostType
<1>2. program.calls \in Seq(Call) /\ n_calls + 1 \in 1 .. Len(program.calls)
  BY <1>1 DEF IsProgram, HostType, Calls
<1> QED BY <1>1, <1>2 DEF IsProgram, Calls

LEMMA NoneType ==
  /\ None \in Packet /\ None.bytes = << >> /\ None.cmds = << >>
  /\ \A n \in Nat : Len(None.bytes) <= n
<1>1. None.bytes = << >> /\ None.cmds = << >>
  BY DEF None
<1>2. None \in Packet
  BY DEF None, Packet
<1> QED BY <1>1, <1>2

LEMMA ResetType == Reset \in Registers
  BY DEF Reset, Registers, Byte, Bits, IrCode

LEMMA InitType == Init => TypeOK
<1> SUFFICES ASSUME Init PROVE TypeOK
  OBVIOUS
<1>1. program.calls \in Seq(Call)
  BY ProgramType DEF Init, IsProgram
<1>2. HostType
  <2>1. Len(program.calls) \in Nat /\ PacketSize \in Nat
    BY <1>1, PacketAssumption
  <2>2. /\ program \in Programs /\ n_calls \in 0 .. Len(program.calls)
        /\ n_edges \in Nat /\ n_edges = 0
    BY <2>1 DEF Init
  <2>3. st_cmd_queue \in Packet /\ Len(st_cmd_queue.bytes) <= PacketSize
    BY <2>1, NoneType DEF Init
  <2>4. runs \in Nat /\ lost \in BOOLEAN /\ tidy \in BOOLEAN
    BY DEF Init
  <2> QED BY <2>2, <2>3, <2>4 DEF HostType
<1>4. DeviceType
  <2>1. << >> \in Seq(Seq(Byte)) /\ {} \in Byte
    BY BytesAre
  <2>2. ep1 \in Packet /\ Len(ep1.bytes) <= 255
    BY NoneType DEF Init
  <2>3. /\ polling \in BOOLEAN /\ cmd_cnt \in 0 .. 255 /\ at \in Nat
        /\ addr_mask \in Byte /\ executed \in Seq(Seq(Byte))
        /\ ~polling /\ at = 0
    <3>1. polling = FALSE /\ cmd_cnt = 0 /\ at = 0 /\ addr_mask = {} /\ executed = << >>
      BY DEF Init, Idle
    <3>2. executed \in Seq(Seq(Byte)) /\ addr_mask \in Byte
      BY <2>1, <3>1, Zenon
    <3>3. polling \in BOOLEAN /\ ~polling
      BY <3>1, Zenon
    <3> QED BY <3>1, <3>2, <3>3
  <2>4. reg \in Registers
    BY ResetType DEF Init
  <2> QED BY <2>2, <2>3, <2>4 DEF DeviceType
<1> QED BY <1>2, <1>4 DEF TypeOK

LEMMA HostTypeStep ==
  ASSUME TypeOK, Host
  PROVE  TypeOK'
<1> USE DEF TypeOK
<1> DEFINE call == program.calls[n_calls + 1]
<1>1. ASSUME Skip \/ capsts_cmd_push \/ capsts_cmd_commit \/ IrTransfer \/ IrReturn
      PROVE  /\ program.calls \in Seq(Call) /\ n_calls + 1 \in 1 .. Len(program.calls)
             /\ call \in Call /\ program \in Programs
  <2>1. PICK op : Calls(op)
    BY <1>1 DEF Skip, capsts_cmd_push, capsts_cmd_commit, IrTransfer, IrReturn
  <2> QED BY <2>1, NextCall DEF HostType
<1>8. ASSUME Skip \/ capsts_cmd_push \/ capsts_cmd_commit \/ IrTransfer \/ IrReturn
      PROVE  n_calls \in Nat /\ n_calls + 1 \in 0 .. Len(program.calls)
  BY <1>1, <1>8 DEF HostType
<1>9. /\ st_cmd_queue \in Packet /\ Len(st_cmd_queue.bytes) <= PacketSize /\ PacketSize \in 0 .. 255
      /\ Len(st_cmd_queue.bytes) \in Nat
  BY PacketAssumption DEF HostType, Packet
<1>2. CASE Skip
  <2>1. DeviceType'
    BY <1>2 DEF Skip, DeviceType, poll
  <2>2. n_edges = 0
    BY <1>2 DEF HostType, Skip, Calls
  <2> QED BY <1>1, <1>2, <2>1, <2>2 DEF Skip, Return, HostType
<1>3. CASE capsts_cmd_push
  <2>1. DeviceType'
    BY <1>3 DEF capsts_cmd_push, DeviceType, poll
  <2>2. n_edges = 0
    BY <1>3 DEF HostType, capsts_cmd_push, Calls
  <2>3. st_cmd_queue' \in Packet /\ Len(st_cmd_queue'.bytes) <= PacketSize
    <3>1. call.cmd \in Seq(Byte) /\ Pushed(call.cmd) + 1 \in 1 .. Len(call.cmd)
      BY <1>3, NextCall, CommandFacts DEF capsts_cmd_push
    <3>2. SubSeq(call.cmd, 1, Pushed(call.cmd) + 1) \in Seq(Byte)
      BY <3>1
    <3>3. Len(SubSeq(call.cmd, 1, Pushed(call.cmd) + 1)) = Pushed(call.cmd) + 1
      BY <3>1
    <3>4. st_cmd_queue \in Packet
      BY DEF HostType
    <3>5. Append(st_cmd_queue.cmds, call.cmd) \in Seq(Seq(Byte))
      BY <3>1, <3>4 DEF Packet
    <3>6. /\ st_cmd_queue.bytes \o SubSeq(call.cmd, 1, Pushed(call.cmd) + 1) \in Seq(Byte)
          /\ Len(st_cmd_queue.bytes \o SubSeq(call.cmd, 1, Pushed(call.cmd) + 1))
                = Len(st_cmd_queue.bytes) + Len(SubSeq(call.cmd, 1, Pushed(call.cmd) + 1))
      BY <3>2, <3>4, Joined DEF Packet
    <3>7. /\ st_cmd_queue' = [cmds  |-> Append(st_cmd_queue.cmds, call.cmd),
                              bytes |-> st_cmd_queue.bytes
                                            \o SubSeq(call.cmd, 1, Pushed(call.cmd) + 1)]
          /\ Len(st_cmd_queue.bytes) + Pushed(call.cmd) + 1 <= PacketSize
      BY <1>3 DEF capsts_cmd_push
    <3>8. Len(st_cmd_queue.bytes) \in Nat /\ Pushed(call.cmd) \in Nat /\ PacketSize \in Nat
      BY <1>3, <3>4, NextCall, CommandFacts, PacketAssumption DEF Packet, capsts_cmd_push
    <3>9. st_cmd_queue' \in Packet
      BY <3>5, <3>6, <3>7 DEF Packet
    <3>10. st_cmd_queue'.bytes = st_cmd_queue.bytes \o SubSeq(call.cmd, 1, Pushed(call.cmd) + 1)
      BY <3>7
    <3> QED BY <3>3, <3>6, <3>7, <3>8, <3>9, <3>10
  <2>4. /\ program' = program /\ n_calls' = n_calls + 1 /\ n_edges' = 0
        /\ runs' = runs /\ lost' = lost /\ tidy' = tidy
    BY <1>3, <2>2 DEF capsts_cmd_push, Return
  <2>5. n_calls' \in 0 .. Len(program.calls)
    BY <1>3, <1>8, <2>4
  <2> QED BY <2>1, <2>3, <2>4, <2>5 DEF HostType
<1>4. CASE capsts_cmd_commit
  <2>1. /\ program' = program /\ n_calls' = n_calls + 1 /\ n_edges' = n_edges
        /\ runs' = runs /\ tidy' = tidy /\ lost' \in BOOLEAN /\ st_cmd_queue' = None
    BY <1>4 DEF capsts_cmd_commit, Return, Transfer, TransferFails, HostType
  <2>2. n_edges = 0
    BY <1>4 DEF HostType, capsts_cmd_commit, Calls
  <2>3. HostType'
    <3>1. Len(st_cmd_queue'.bytes) <= PacketSize /\ st_cmd_queue' \in Packet
      BY <2>1, <1>9, NoneType
    <3>2. n_calls' \in 0 .. Len(program'.calls)
      BY <1>4, <1>8, <2>1
    <3> QED BY <2>1, <2>2, <3>1, <3>2 DEF HostType
  <2>4. /\ ep1' = ep1 \/ (ep1 = None /\ ep1' = st_cmd_queue /\ st_cmd_queue # None)
        /\ UNCHANGED <<poll, reg>>
    BY <1>4 DEF capsts_cmd_commit, Transfer, TransferFails
  <2>5. Len(st_cmd_queue.bytes) <= 255
    BY <1>9
  <2>6. DeviceType'
    BY <2>4, <2>5 DEF DeviceType, HostType, poll
  <2> QED BY <2>3, <2>6
<1>5. CASE IrTransfer
  <2>1. Calls("ir_commit") /\ n_edges < 2 * Len(call.keys) /\ n_edges \in Nat
    BY <1>5 DEF IrTransfer, HostType
  <2>2. call.keys \in Seq(IrCode) /\ Len(call.keys) \in Nat
    BY <1>1, <1>5 DEF Call
  <2>3. CASE Transfer(Edge(call.keys, n_edges)) /\ n_edges' = n_edges + 1 /\ UNCHANGED n_calls
    <3>1. /\ UNCHANGED <<program, st_cmd_queue, runs, tidy, lost, poll, reg, n_calls>>
          /\ ep1 = None /\ ep1' = Edge(call.keys, n_edges)
      BY <1>5, <2>3 DEF IrTransfer, Transfer
    <3>2. HostType'
      BY <2>1, <2>2, <2>3, <3>1 DEF HostType, Calls
    <3>3. ep1' \in Packet /\ Len(ep1'.bytes) = 3
      <4> DEFINE code == IF n_edges % 2 = 0 THEN call.keys[(n_edges \div 2) + 1] ELSE <<{}, {}>>
      <4>1. code \in IrCode
        <5>1. (n_edges \div 2) + 1 \in 1 .. Len(call.keys)
          BY <2>1, <2>2
        <5>2. <<{}, {}>> \in IrCode
          BY BytesAre DEF IrCode
        <5> QED BY <2>2, <5>1, <5>2
      <4>2. CMD_IR_CODE \in Byte /\ code[1] \in Byte /\ code[2] \in Byte
        BY <4>1, BytesAre DEF IrCode
      <4>3. <<CMD_IR_CODE, code[1], code[2]>> \in Seq(Byte)
        BY <4>2
      <4>4. Edge(call.keys, n_edges) = [cmds  |-> <<<<CMD_IR_CODE, code[1], code[2]>>>>,
                                        bytes |-> <<CMD_IR_CODE, code[1], code[2]>>]
        BY DEF Edge
      <4> HIDE DEF code
      <4>5. <<<<CMD_IR_CODE, code[1], code[2]>>>> \in Seq(Seq(Byte))
        BY <4>3
      <4> QED BY <3>1, <4>3, <4>4, <4>5 DEF Packet
    <3>4. ep1' # None
      BY <3>3, NoneType
    <3>5. DeviceType'
      BY <3>1, <3>3, <3>4 DEF DeviceType, poll
    <3> QED BY <3>2, <3>5
  <2>4. CASE TransferFails /\ n_edges' = 0 /\ Return
    <3>1. HostType'
      BY <1>1, <1>5, <2>4 DEF IrTransfer, TransferFails, Return, HostType
    <3>2. DeviceType'
      BY <1>5, <2>4 DEF IrTransfer, TransferFails, DeviceType, poll
    <3> QED BY <3>1, <3>2
  <2> QED BY <1>5, <2>3, <2>4 DEF IrTransfer
<1>6. CASE IrReturn
  <2>1. HostType'
    BY <1>1, <1>6 DEF IrReturn, Return, HostType
  <2>2. DeviceType'
    BY <1>6 DEF IrReturn, DeviceType, poll
  <2> QED BY <2>1, <2>2
<1>7. CASE NextRun
  <2>1. program' \in Programs /\ n_calls' = 0 /\ n_edges' = 0 /\ st_cmd_queue' = None
        /\ lost' = FALSE /\ runs' = runs + 1
    BY <1>7 DEF NextRun
  <2>2. tidy' \in BOOLEAN
    BY <1>7 DEF NextRun, HostType
  <2>3. Len(program'.calls) \in Nat
    BY <2>1, ProgramType DEF IsProgram
  <2>4. HostType'
    <3>1. Len(st_cmd_queue'.bytes) <= PacketSize /\ st_cmd_queue' \in Packet
      BY <2>1, <1>9, NoneType
    <3>2. n_calls' \in 0 .. Len(program'.calls)
      BY <2>1, <2>3
    <3>3. runs' \in Nat /\ lost' \in BOOLEAN
      <4>1. runs' \in Nat
        BY <2>1 DEF HostType
      <4> QED BY <2>1, <4>1, Zenon
    <3> QED BY <2>1, <2>2, <3>1, <3>2, <3>3 DEF HostType
  <2>5. CASE UNCHANGED <<ep1, poll, reg>>
    BY <2>4, <2>5 DEF DeviceType, poll
  <2>6. CASE ep1' = None /\ polling' = FALSE /\ cmd_cnt' = 0 /\ at' = 0 /\ addr_mask' = {}
             /\ executed' = << >> /\ reg' = Reset
    <3>1. executed' \in Seq(Seq(Byte)) /\ addr_mask' \in Byte /\ polling' \in BOOLEAN /\ ~polling'
      <4>1. << >> \in Seq(Seq(Byte))
        OBVIOUS
      <4> QED BY <2>6, <4>1, BytesAre, Zenon
    <3>2. reg' \in Registers
      BY <2>6, ResetType
    <3>3. ep1' \in Packet /\ Len(ep1'.bytes) <= 255 /\ at' = 0 /\ cmd_cnt' \in 0 .. 255
      BY <2>6, NoneType
    <3> QED BY <2>4, <3>1, <3>2, <3>3 DEF DeviceType
  <2> QED BY <1>7, <2>5, <2>6 DEF NextRun
<1> QED BY <1>2, <1>3, <1>4, <1>5, <1>6, <1>7 DEF Host

LEMMA CommandTypeStep ==
  ASSUME DeviceType, polling, Command
  PROVE  /\ UNCHANGED <<ep1, polling>>
         /\ cmd_cnt' \in 0 .. 255 /\ at' \in Nat /\ addr_mask' \in Byte
         /\ executed' \in Seq(Seq(Byte)) /\ reg' \in Registers
         /\ UNCHANGED host
<1>1. /\ reg \in Registers /\ addr_mask \in Byte /\ at \in Nat /\ cmd_cnt \in 0 .. 255
      /\ executed \in Seq(Seq(Byte))
      /\ \A n \in Nat \ {0} : Read(n) \in Byte
      /\ Read(2) \in Byte /\ Read(3) \in Byte
  <2>1. \A n \in Nat \ {0} : Read(n) \in Byte
    BY ReadType
  <2>2. Read(2) \in Byte /\ Read(3) \in Byte
    BY <2>1
  <2> QED BY <2>1, <2>2 DEF DeviceType
<1>2. ASSUME NEW n \in Nat, Takes(n)
      PROVE  /\ UNCHANGED <<ep1, polling, host>>
             /\ cmd_cnt' \in 0 .. 255 /\ at' \in Nat /\ executed' \in Seq(Seq(Byte))
  <2>1. [k \in 1 .. n + 1 |-> Read(k)] \in Seq(Byte)
    BY <1>1
  <2>2. executed' \in Seq(Seq(Byte))
    BY <1>1, <1>2, <2>1 DEF Takes
  <2>3. cmd_cnt' \in 0 .. 255 /\ at' \in Nat
    BY <1>1, <1>2 DEF Takes
  <2> QED BY <1>2, <2>2, <2>3 DEF Takes
<1>3. \A b, c \in Byte : b \cup c \in Byte /\ b \cap c \in Byte /\ b \ c \in Byte
  BY DEF Byte
<1>4. /\ \A b \in Byte : MODE_REGW \cup (b \cap addr_mask) \in Byte
                          /\ MODE_REGR \cup (b \cap addr_mask) \in Byte
      /\ {7, 6, 5} \in Byte /\ ModeBits \in Byte /\ Bits \in Byte
      /\ Mode(MODE_START) \in Byte /\ Mode(MODE_IDLE) \in Byte
  BY <1>1 DEF MODE_REGW, MODE_REGR, MODE_START, MODE_IDLE, Mode, ModeBits, Byte, Bits, Registers
<1>5. ASSUME NEW r, r \in Registers
      PROVE  /\ r.IOD \in Byte /\ r.val_ifconfig \in Byte
             /\ \A b \in BOOLEAN : /\ [r EXCEPT !.ep2 = b] \in Registers
                                   /\ [r EXCEPT !.ep4 = b] \in Registers
                                   /\ [r EXCEPT !.ep6 = b] \in Registers
             /\ \A x \in Byte : /\ [r EXCEPT !.IOD = x] \in Registers
                                /\ [r EXCEPT !.OED = x] \in Registers
                                /\ [r EXCEPT !.IFCONFIG = x] \in Registers
                                /\ [r EXCEPT !.val_ifconfig = x] \in Registers
  BY <1>5 DEF Registers
<1>6. CASE NoCase
  BY <1>1, <1>2, <1>6 DEF NoCase
<1>7. CASE SetIrCode
  <2>1. <<Read(2), Read(3)>> \in IrCode
    BY <1>1 DEF IrCode
  <2>2. reg' \in Registers /\ addr_mask' = addr_mask
    BY <1>1, <1>7, <2>1 DEF SetIrCode, Registers
  <2> QED BY <1>1, <1>2, <1>7, <2>2 DEF SetIrCode
<1>8. CASE IrWbuf
  <2> DEFINE len == IF Read(3) = {} THEN 256 ELSE Value(Read(3))
  <2>1. len \in Nat /\ Value(Read(2)) \in Nat /\ Value(Read(3)) \in Nat
    BY ValueType
  <2>2. [k \in 1 .. len + 3 |-> Read(k)] \in Seq(Byte)
    <3> HIDE DEF len
    <3>1. len + 3 \in Nat
      BY <2>1
    <3> QED BY <3>1, ReadType
  <2>3. /\ cmd_cnt' = (cmd_cnt - (3 + Value(Read(3)))) % 256
        /\ at' = at + 3 + len
        /\ executed' = Append(executed, [k \in 1 .. len + 3 |-> Read(k)])
        /\ reg' = [reg EXCEPT !.ir_wbuf_len = (Value(Read(2)) + len) % 256]
        /\ UNCHANGED <<host, ep1, polling, addr_mask>>
    BY <1>8 DEF IrWbuf
  <2> HIDE DEF len
  <2>4. cmd_cnt' \in 0 .. 255 /\ at' \in Nat
    <3>1. \A n \in Int : n % 256 \in 0 .. 255
      OBVIOUS
    <3>2. cmd_cnt - (3 + Value(Read(3))) \in Int /\ at + 3 + len \in Nat
      BY <1>1, <2>1
    <3> QED BY <2>3, <3>1, <3>2
  <2>5. executed' \in Seq(Seq(Byte))
    BY <1>1, <2>2, <2>3
  <2>6. reg' \in Registers
    <3>1. (Value(Read(2)) + len) % 256 \in 0 .. 255
      BY <2>1
    <3> QED BY <1>1, <2>3, <3>1 DEF Registers
  <2> QED BY <1>1, <2>3, <2>4, <2>5, <2>6
<1>9. CASE IrRbuf
  BY <1>1, <1>2, <1>9 DEF IrRbuf
<1>10. CASE RegWrite
  <2>1. reg' \in Registers /\ addr_mask' = addr_mask
    <3>1. reg.IOD \in Byte
      BY <1>1, <1>5
    <3>2. MODE_REGW \cup (reg.IOD \cap addr_mask) \cup Read(2) \in Byte
      BY <1>1, <1>3, <1>4, <3>1
    <3> QED BY <1>1, <1>4, <1>10, <3>2 DEF RegWrite, Registers
  <2> QED BY <1>1, <1>2, <1>10, <2>1 DEF RegWrite
<1>11. CASE RegRead
  <2>1. reg' \in Registers /\ addr_mask' = addr_mask
    <3>1. reg.IOD \in Byte
      BY <1>1, <1>5
    <3>2. MODE_REGR \cup (reg.IOD \cap addr_mask) \cup Read(2) \in Byte
      BY <1>1, <1>3, <1>4, <3>1
    <3> QED BY <1>1, <1>4, <1>11, <3>2 DEF RegRead, Registers
  <2> QED BY <1>1, <1>2, <1>11, <2>1 DEF RegRead
<1>12. CASE PortWrite
  <2>1. (reg.IOD \ addr_mask) \cup Read(2) \in Byte
    BY <1>1, <1>3, <1>5
  <2> QED BY <1>1, <1>2, <1>5, <1>12, <2>1 DEF PortWrite
<1>13. CASE PortRead
  BY <1>1, <1>2, <1>13 DEF PortRead
<1>14. CASE PortCfg
  <2>1. Read(2) \cup ModeBits \in Byte /\ Read(3) \cup (Read(2) \cup ModeBits) \in Byte
        /\ Bits \ (Read(2) \cup ModeBits) \in Byte
    BY <1>1, <1>3, <1>4
  <2> QED BY <1>1, <1>2, <1>5, <1>14, <2>1 DEF PortCfg
<1>15. CASE IfConfig
  BY <1>1, <1>2, <1>5, <1>15 DEF IfConfig
<1>16. CASE ModeIdle
  BY <1>1, <1>2, <1>4, <1>5, <1>16 DEF ModeIdle
<1>17. CASE Ep6InStart \/ Ep4InStart \/ Ep2OutStart
  <2>1. reg' \in Registers /\ addr_mask' = addr_mask
    BY <1>1, <1>4, <1>17 DEF Ep6InStart, Ep4InStart, Ep2OutStart, Registers
  <2> QED BY <1>1, <1>2, <1>17, <2>1 DEF Ep6InStart, Ep4InStart, Ep2OutStart
<1>18. CASE Ep6InStop \/ Ep4InStop \/ Ep2OutStop
  BY <1>1, <1>2, <1>5, <1>18 DEF Ep6InStop, Ep4InStop, Ep2OutStop
<1>19. CASE Ep4AutoInLen
  BY <1>1, <1>2, <1>5, <1>19 DEF Ep4AutoInLen
<1> QED BY <1>6, <1>7, <1>8, <1>9, <1>10, <1>11, <1>12, <1>13, <1>14, <1>15, <1>16, <1>17, <1>18,
           <1>19
        DEF Command

\* Commands are decoded in the loop of TD_Poll.
LEMMA CommandPolls == Command => polling /\ cmd_cnt # 0
BY DEF Command, NoCase, Case, SetIrCode, IrWbuf, IrRbuf, RegWrite, RegRead, PortWrite, PortRead,
   PortCfg, IfConfig, ModeIdle, Ep6InStart, Ep4InStart, Ep2OutStart, Ep6InStop, Ep4InStop,
   Ep2OutStop, Ep4AutoInLen

LEMMA TypeStep ==
  ASSUME TypeOK, [Next]_vars
  PROVE  TypeOK'
<1>1. CASE UNCHANGED vars
  BY <1>1 DEF vars, host, poll, TypeOK, HostType, DeviceType, Calls
<1>2. CASE Host
  BY <1>2, HostTypeStep
<1>3. ASSUME TD_Poll
      PROVE  HostType'
  <2>1. CASE PollBegins \/ PollEnds
    BY <2>1 DEF PollBegins, PollEnds, host, TypeOK, HostType, Calls
  <2>2. CASE Command
    <3>1. UNCHANGED host
      BY <2>2, CommandPolls, CommandTypeStep DEF TypeOK
    <3> QED BY <3>1 DEF host, TypeOK, HostType, Calls
  <2> QED BY <1>3, <2>1, <2>2 DEF TD_Poll
<1>4. CASE PollBegins
  <2>1. DeviceType'
    <3>1. Len(ep1.bytes) \in 0 .. 255
      <4>1. ep1.bytes \in Seq(Byte)
        BY DEF TypeOK, DeviceType, Packet
      <4>2. Len(ep1.bytes) \in Nat
        BY <4>1
      <4>3. Len(ep1.bytes) <= 255
        BY DEF TypeOK, DeviceType
      <4>4. \A n \in Nat : n <= 255 => n \in 0 .. 255
        OBVIOUS
      <4> QED BY <4>2, <4>3, <4>4
    <3>2. << >> \in Seq(Seq(Byte)) /\ addr_mask' \in Byte /\ polling' = TRUE
      BY <1>4, GarbageAssumption DEF PollBegins
    <3> QED BY <1>4, <3>1, <3>2 DEF PollBegins, TypeOK, DeviceType
  <2> QED BY <1>3, <1>4, <2>1 DEF TD_Poll, TypeOK
<1>5. CASE Command
  <2>1. polling
    BY <1>5, CommandPolls
  <2>2. DeviceType'
    BY <1>5, <2>1, CommandTypeStep DEF TypeOK, DeviceType
  <2> QED BY <1>3, <1>5, <2>2 DEF TD_Poll, TypeOK
<1>6. CASE PollEnds
  <2>1. DeviceType'
    <3>1. << >> \in Seq(Seq(Byte)) /\ {} \in Byte
      BY BytesAre
    <3>2. ep1' \in Packet /\ Len(ep1'.bytes) <= 255
      BY <1>6, NoneType DEF PollEnds, Rearm
    <3>3. polling' = FALSE /\ at' = 0 /\ addr_mask' = {} /\ executed' = << >>
          /\ cmd_cnt' = cmd_cnt /\ reg' = reg
      BY <1>6 DEF PollEnds
    <3>4. polling' \in BOOLEAN /\ ~polling' /\ addr_mask' \in Byte
          /\ executed' \in Seq(Seq(Byte))
      BY <3>1, <3>3, Zenon
    <3> QED BY <3>2, <3>3, <3>4 DEF TypeOK, DeviceType
  <2> QED BY <1>3, <1>6, <2>1 DEF TD_Poll, TypeOK
<1> QED BY <1>1, <1>2, <1>4, <1>5, <1>6 DEF Next, TD_Poll

-----------------------------------------------------------------------------
(* How commands are laid out in a queue and a packet                       *)

\* The commands of a packet lie one after the other in its bytes, the k-th from ofs[k - 1] to
\* ofs[k].
Laid(packet, ofs) ==
    /\ ofs \in [0 .. Len(packet.cmds) -> 0 .. Len(packet.bytes)]
    /\ ofs[0] = 0 /\ ofs[Len(packet.cmds)] = Len(packet.bytes)
    /\ \A k \in 1 .. Len(packet.cmds) :
          /\ IsCommand(packet.cmds[k])
          /\ ofs[k] = ofs[k - 1] + Pushed(packet.cmds[k]) + 1
          /\ \A j \in 1 .. Pushed(packet.cmds[k]) + 1 :
                packet.bytes[ofs[k - 1] + j] = packet.cmds[k][j]

\* What follows CMD_PORT_CFG has no arguments that are taken for a command with others.
Followed(packet) ==
    \A k \in 1 .. Len(packet.cmds) - 1 :
        packet.cmds[k][1] = CMD_PORT_CFG => Harmless(packet.cmds[k + 1])

\* The last command is CMD_PORT_CFG, so that it needs one to follow.
EndsOpen(packet) ==
    packet.cmds # << >> /\ packet.cmds[Len(packet.cmds)][1] = CMD_PORT_CFG

\* The queue is laid out; after CMD_PORT_CFG the call to come pushes a command that is harmless.
QueueOK ==
    /\ \E ofs : Laid(st_cmd_queue, ofs)
    /\ Followed(st_cmd_queue)
    /\ EndsOpen(st_cmd_queue) => Calls("push") /\ Harmless(program.calls[n_calls + 1].cmd)

\* TD_Poll is between two commands of the packet; unless it went astray before, it has
\* executed the k that come first.
Aligned(k, ofs) ==
    at = ofs[k] /\ (~Has(CMD_PORT_CFG) => executed = SubSeq(ep1.cmds, 1, k))

\* TD_Poll is within the k-th command, as an argument of it was taken for one of CMD_PORT_CFG.
\* The arguments that are left are passed over, three at once if one looks like
\* CMD_EP4AUTOINLEN, up to the next command.
Astray(k, ofs) ==
    /\ Has(CMD_PORT_CFG)
    /\ k > 0 /\ Harmless(ep1.cmds[k])
    /\ ofs[k - 1] < at /\ at < ofs[k]

\* The packet is laid out, and TD_Poll between two of its commands or astray in one of them.
PacketOK ==
    /\ Followed(ep1) /\ ~EndsOpen(ep1)
    /\ \E ofs :
          /\ Laid(ep1, ofs)
          /\ polling => \E k \in 0 .. Len(ep1.cmds) : Aligned(k, ofs) \/ Astray(k, ofs)
    /\ polling => at + cmd_cnt = Len(ep1.bytes)

\* Inductive: how the bytes of the queue and of the packet are parsed.
ParseInv == TypeOK /\ QueueOK /\ PacketOK

LEMMA LaidNone == Laid(None, [k \in {0} |-> 0]) /\ Followed(None) /\ ~EndsOpen(None)
<1>1. None.cmds = << >> /\ None.bytes = << >>
  BY NoneType
<1>2. Len(None.cmds) = 0 /\ Len(None.bytes) = 0
  BY <1>1
<1> QED BY <1>1, <1>2 DEF Laid, Followed, EndsOpen

\* A queue once a command is pushed.
Longer(packet, cmd) ==
    [cmds  |-> Append(packet.cmds, cmd),
     bytes |-> packet.bytes \o SubSeq(cmd, 1, Pushed(cmd) + 1)]

\* A queue stays laid out when a command is pushed.
LEMMA LaidAppend ==
  ASSUME NEW packet \in Packet, NEW ofs, Laid(packet, ofs), NEW cmd, IsCommand(cmd)
  PROVE  LET longer == Longer(packet, cmd) IN
         /\ \E o : Laid(longer, o)
         /\ Len(longer.cmds) = Len(packet.cmds) + 1
         /\ longer.cmds[Len(packet.cmds) + 1] = cmd
         /\ \A k \in 1 .. Len(packet.cmds) : longer.cmds[k] = packet.cmds[k]
         /\ longer.bytes # << >> /\ longer.cmds # << >>
<1> DEFINE longer == Longer(packet, cmd)
           n == Len(packet.cmds)
           m == Len(packet.bytes)
           p == Pushed(cmd) + 1
           sub == SubSeq(cmd, 1, Pushed(cmd) + 1)
<1>1. /\ packet.cmds \in Seq(Seq(Byte)) /\ packet.bytes \in Seq(Byte)
      /\ cmd \in Seq(Byte) /\ p \in 1 .. Len(cmd) /\ Len(cmd) \in Nat
  BY CommandFacts DEF Packet
<1>2. n \in Nat /\ m \in Nat /\ p \in Nat \ {0}
  BY <1>1
<1>3. sub \in Seq(Byte) /\ Len(sub) = p /\ \A j \in 1 .. p : sub[j] = cmd[j]
  BY <1>1
<1>4. longer.cmds = Append(packet.cmds, cmd) /\ longer.bytes = packet.bytes \o sub
  BY DEF Longer
<1> HIDE DEF longer
<1>5. /\ Len(longer.cmds) = n + 1 /\ longer.cmds[n + 1] = cmd
      /\ \A k \in 1 .. n : longer.cmds[k] = packet.cmds[k]
  BY <1>1, <1>4
<1> HIDE DEF sub
<1>6. /\ longer.bytes \in Seq(Byte) /\ Len(longer.bytes) = m + Len(sub)
      /\ \A j \in 1 .. m : longer.bytes[j] = packet.bytes[j]
      /\ \A j \in 1 .. Len(sub) : longer.bytes[j + m] = sub[j]
  BY <1>1, <1>3, <1>4, Joined
<1>7. /\ Len(longer.bytes) = m + p
      /\ \A j \in 1 .. p : longer.bytes[j + m] = cmd[j]
  BY <1>3, <1>6
<1> DEFINE o == [k \in 0 .. n + 1 |-> IF k = n + 1 THEN m + p ELSE ofs[k]]
<1>8. /\ ofs \in [0 .. n -> 0 .. m] /\ ofs[0] = 0 /\ ofs[n] = m
      /\ \A k \in 1 .. n :
            /\ IsCommand(packet.cmds[k])
            /\ ofs[k] = ofs[k - 1] + Pushed(packet.cmds[k]) + 1
            /\ \A j \in 1 .. Pushed(packet.cmds[k]) + 1 :
                  packet.bytes[ofs[k - 1] + j] = packet.cmds[k][j]
  BY DEF Laid
<1> HIDE DEF n, m, p
<1>9. o \in [0 .. n + 1 -> 0 .. m + p] /\ o[0] = 0 /\ o[n + 1] = m + p
  BY <1>2, <1>8
<1>10. ASSUME NEW k \in 1 .. n + 1
       PROVE  /\ IsCommand(longer.cmds[k])
              /\ o[k] = o[k - 1] + Pushed(longer.cmds[k]) + 1
              /\ \A j \in 1 .. Pushed(longer.cmds[k]) + 1 :
                    longer.bytes[o[k - 1] + j] = longer.cmds[k][j]
  <2>1. CASE k = n + 1
    <3>1. longer.cmds[k] = cmd /\ o[k] = m + p /\ o[k - 1] = m
      BY <1>2, <1>5, <1>8, <2>1
    <3>2. Pushed(cmd) \in Nat
      BY CommandFacts
    <3>3. \A j \in 1 .. p : longer.bytes[m + j] = cmd[j]
      <4>1. \A j \in 1 .. p : m + j = j + m
        BY <1>2
      <4> QED BY <1>7, <4>1
    <3>4. m + p = m + Pushed(cmd) + 1
      BY <1>2, <3>2 DEF p
    <3>5. 1 .. p = 1 .. Pushed(cmd) + 1
      BY DEF p
    <3> QED BY <3>1, <3>3, <3>4, <3>5
  <2>2. CASE k \in 1 .. n
    <3>1. longer.cmds[k] = packet.cmds[k] /\ o[k] = ofs[k] /\ o[k - 1] = ofs[k - 1]
      BY <1>2, <1>5, <2>2
    <3>2. /\ ofs[k] \in 0 .. m /\ ofs[k - 1] \in 0 .. m /\ Pushed(packet.cmds[k]) \in Nat
          /\ ofs[k] = ofs[k - 1] + Pushed(packet.cmds[k]) + 1
      <4>1. k \in 0 .. n /\ k - 1 \in 0 .. n
        BY <1>2, <2>2
      <4>2. Pushed(packet.cmds[k]) \in Nat
        BY <1>8, <2>2, CommandFacts
      <4> QED BY <1>8, <2>2, <4>1, <4>2
    <3>3. \A j \in 1 .. Pushed(packet.cmds[k]) + 1 : ofs[k - 1] + j \in 1 .. m
      BY <1>2, <3>2
    <3> HIDE DEF o
    <3>4. \A j \in 1 .. Pushed(packet.cmds[k]) + 1 :
             longer.bytes[ofs[k - 1] + j] = packet.cmds[k][j]
      BY <1>6, <1>8, <2>2, <3>3
    <3> QED BY <1>8, <2>2, <3>1, <3>2, <3>4
  <2>3. k = n + 1 \/ k \in 1 .. n
    BY <1>2
  <2> QED BY <2>1, <2>2, <2>3
<1>11. Laid(longer, o)
  <2> HIDE DEF o
  <2>1. /\ o \in [0 .. Len(longer.cmds) -> 0 .. Len(longer.bytes)]
        /\ o[0] = 0 /\ o[Len(longer.cmds)] = Len(longer.bytes)
    BY <1>5, <1>7, <1>9
  <2>2. \A k \in 1 .. Len(longer.cmds) :
          /\ IsCommand(longer.cmds[k])
          /\ o[k] = o[k - 1] + Pushed(longer.cmds[k]) + 1
          /\ \A j \in 1 .. Pushed(longer.cmds[k]) + 1 :
                longer.bytes[o[k - 1] + j] = longer.cmds[k][j]
    BY <1>5, <1>10
  <2> QED BY <2>1, <2>2 DEF Laid
<1>12. longer.cmds # << >> /\ longer.bytes # << >>
  <2>1. n + 1 # 0 /\ m + p # 0
    BY <1>2
  <2>2. Len(longer.cmds) # 0 /\ Len(longer.bytes) # 0
    BY <1>5, <1>7, <2>1
  <2> QED BY <2>2
<1> QED BY <1>5, <1>11, <1>12 DEF n, longer

LEMMA LaidSingle ==
  ASSUME NEW cmd, IsCommand(cmd), Pushed(cmd) + 1 = Len(cmd),
         NEW packet, packet = [cmds |-> <<cmd>>, bytes |-> cmd]
  PROVE  Laid(packet, [k \in 0 .. 1 |-> IF k = 0 THEN 0 ELSE Len(cmd)])
<1> DEFINE ofs == [k \in 0 .. 1 |-> IF k = 0 THEN 0 ELSE Len(cmd)]
<1>1. /\ packet.cmds = <<cmd>> /\ packet.bytes = cmd
      /\ Len(cmd) \in Nat /\ Pushed(cmd) \in Nat
  BY CommandFacts
<1>2. Len(packet.cmds) = 1 /\ packet.cmds[1] = cmd
  BY <1>1
<1>3. ofs \in [0 .. 1 -> 0 .. Len(cmd)] /\ ofs[0] = 0 /\ ofs[1] = Len(cmd)
  BY <1>1
<1> HIDE DEF ofs
<1>4. \A k \in 1 .. 1 : k = 1 /\ k - 1 = 0
  OBVIOUS
<1>5. \A j \in 1 .. Pushed(cmd) + 1 : 0 + j = j
  OBVIOUS
<1>6. Laid(packet, ofs)
  BY <1>1, <1>2, <1>3, <1>4, <1>5 DEF Laid
<1> QED BY <1>6 DEF ofs

LEMMA PacketStays ==
  ASSUME PacketOK, UNCHANGED <<ep1, poll>>
  PROVE  PacketOK'
BY DEF PacketOK, poll, Aligned, Astray, Has

LEMMA QueueStays ==
  ASSUME QueueOK, UNCHANGED st_cmd_queue, ~Calls("push")
  PROVE  QueueOK' /\ ~EndsOpen(st_cmd_queue)
BY DEF QueueOK

LEMMA NewPacket ==
  ASSUME NEW packet, NEW ofs, Laid(packet, ofs), Followed(packet), ~EndsOpen(packet),
         TypeOK, Transfer(packet), UNCHANGED poll
  PROVE  PacketOK'
<1>1. ~polling /\ ~polling' /\ ep1' = packet
  BY DEF TypeOK, DeviceType, Transfer, poll
<1> QED BY <1>1 DEF PacketOK

\* The calls keep the queue laid out.
LEMMA QueueParse ==
  ASSUME TypeOK, QueueOK, Host
  PROVE  QueueOK'
<1> DEFINE call == program.calls[n_calls + 1]
<1>1. CASE Skip \/ IrReturn \/ IrTransfer
  <2>1. ~Calls("push")
    BY <1>1 DEF Skip, IrReturn, IrTransfer, Calls
  <2> QED BY <1>1, <2>1, QueueStays DEF Skip, IrReturn, IrTransfer
<1>2. CASE capsts_cmd_commit \/ NextRun
  <2>1. st_cmd_queue' = None
    BY <1>2 DEF capsts_cmd_commit, NextRun
  <2> QED BY <2>1, LaidNone DEF QueueOK
<1>3. CASE capsts_cmd_push
  <2> DEFINE cmd == call.cmd
             n == Len(st_cmd_queue.cmds)
  <2>1. /\ st_cmd_queue' = [cmds  |-> Append(st_cmd_queue.cmds, cmd),
                            bytes |-> st_cmd_queue.bytes \o SubSeq(cmd, 1, Pushed(cmd) + 1)]
        /\ Calls("push") /\ n_calls' = n_calls + 1 /\ program' = program
    BY <1>3 DEF capsts_cmd_push, Return
  <2>2. /\ IsCommand(cmd) /\ n_calls + 1 \in 1 .. Len(program.calls)
        /\ program.calls \in Seq(Call) /\ n_calls \in Nat
    BY <2>1, NextCall DEF TypeOK, HostType
  <2>3. PICK ofs : Laid(st_cmd_queue, ofs)
    BY DEF QueueOK
  <2>4. st_cmd_queue \in Packet /\ n \in Nat
    BY DEF TypeOK, HostType, Packet
  <2> HIDE DEF cmd
  <2>5. /\ \E o : Laid(st_cmd_queue', o)
        /\ Len(st_cmd_queue'.cmds) = n + 1 /\ st_cmd_queue'.cmds[n + 1] = cmd
        /\ \A k \in 1 .. n : st_cmd_queue'.cmds[k] = st_cmd_queue.cmds[k]
        /\ st_cmd_queue'.cmds # << >>
    <3>1. st_cmd_queue' = Longer(st_cmd_queue, cmd)
      BY <2>1 DEF Longer
    <3> QED BY <2>2, <2>3, <2>4, <3>1, LaidAppend
  <2>6. Followed(st_cmd_queue')
    <3> SUFFICES ASSUME NEW k \in 1 .. Len(st_cmd_queue'.cmds) - 1,
                        st_cmd_queue'.cmds[k][1] = CMD_PORT_CFG
                 PROVE  Harmless(st_cmd_queue'.cmds[k + 1])
      BY DEF Followed
    <3>1. k \in 1 .. n /\ st_cmd_queue.cmds[k][1] = CMD_PORT_CFG
      BY <2>4, <2>5
    <3>2. CASE k = n
      <4>1. EndsOpen(st_cmd_queue)
        <5>1. n # 0
          BY <2>4, <3>1
        <5>2. st_cmd_queue.cmds # << >>
          BY <5>1
        <5> QED BY <3>1, <3>2, <5>2 DEF EndsOpen
      <4> QED BY <2>5, <3>2, <4>1 DEF QueueOK, cmd
    <3>3. CASE k # n
      <4>1. k \in 1 .. n - 1 /\ k + 1 \in 1 .. n
        BY <2>4, <3>1, <3>3
      <4> QED BY <2>5, <3>1, <4>1 DEF QueueOK, Followed
    <3> QED BY <3>2, <3>3
  <2>7. ASSUME EndsOpen(st_cmd_queue')
        PROVE  Calls("push")' /\ Harmless(program'.calls[n_calls' + 1].cmd)
    <3>1. cmd[1] = CMD_PORT_CFG
      BY <2>5, <2>7 DEF EndsOpen
    <3>2. IsProgram(program.calls)
      BY ProgramType DEF TypeOK, HostType
    <3>3. n_calls + 1 + 1 \in DOMAIN program.calls /\ program.calls[n_calls + 1 + 1].op = "push"
          /\ Harmless(program.calls[n_calls + 1 + 1].cmd)
      <4>1. n_calls + 1 \in DOMAIN program.calls /\ program.calls[n_calls + 1].op = "push"
        BY <2>1, <2>2 DEF Calls
      <4> QED BY <3>1, <3>2, <4>1 DEF IsProgram, cmd
    <3>4. n_calls' < Len(program.calls)
      BY <2>1, <2>2, <3>3
    <3> QED BY <2>1, <3>3, <3>4 DEF Calls
  <2> QED BY <2>5, <2>6, <2>7 DEF QueueOK
<1> QED BY <1>1, <1>2, <1>3 DEF Host

\* The packet of capsts_ir_cmd_commit for a key that is pressed or released.
LEMMA EdgePacket ==
  ASSUME NEW keys, NEW n, keys \in Seq(IrCode), n \in Nat, n < 2 * Len(keys)
  PROVE  LET edge == Edge(keys, n) IN
         /\ \E ofs : Laid(edge, ofs)
         /\ Followed(edge) /\ ~EndsOpen(edge)
         /\ Len(edge.bytes) = 3 /\ edge.bytes[1] = CMD_IR_CODE
         /\ n % 2 = 1 => edge.bytes = <<CMD_IR_CODE, {}, {}>>
<1> DEFINE code == IF n % 2 = 0 THEN keys[(n \div 2) + 1] ELSE <<{}, {}>>
           cmd == <<CMD_IR_CODE, code[1], code[2]>>
           edge == Edge(keys, n)
<1>1. code \in IrCode
  <2>1. (n \div 2) + 1 \in 1 .. Len(keys)
    OBVIOUS
  <2>2. <<{}, {}>> \in IrCode
    BY BytesAre DEF IrCode
  <2> QED BY <2>1, <2>2
<1>2. edge = [cmds |-> <<cmd>>, bytes |-> cmd]
  BY DEF Edge
<1>3. n % 2 = 1 => cmd = <<CMD_IR_CODE, {}, {}>>
  OBVIOUS
<1> HIDE DEF code, edge
<1>4. code[1] \in Byte /\ code[2] \in Byte
  BY <1>1 DEF IrCode
<1>5. cmd \in Seq(Byte) /\ Len(cmd) = 3 /\ cmd[1] = CMD_IR_CODE
  BY <1>4, BytesAre
<1>6. CMD_IR_CODE \in Codes /\ CMD_IR_CODE # CMD_IR_WBUF /\ CMD_IR_CODE # CMD_PORT_CFG
  BY BytesAre, CodeBits DEF CommandCode
<1> HIDE DEF cmd
<1>7. cmd # << >>
  <2>1. Len(cmd) # 0
    BY <1>5
  <2> QED BY <2>1
<1>8. IsCommand(cmd) /\ Pushed(cmd) + 1 = Len(cmd)
  BY <1>5, <1>6, <1>7 DEF IsCommand, Pushed
<1>9. \E ofs : Laid(edge, ofs)
  BY <1>2, <1>8, LaidSingle
<1>10. edge.cmds = <<cmd>> /\ edge.bytes = cmd
  BY <1>2
<1>11. Len(edge.cmds) = 1 /\ edge.cmds[1] = cmd
  BY <1>10
<1>12. Followed(edge)
  BY <1>11 DEF Followed
<1>13. ~EndsOpen(edge)
  BY <1>5, <1>6, <1>11 DEF EndsOpen
<1> QED BY <1>3, <1>5, <1>9, <1>10, <1>12, <1>13 DEF edge, cmd

\* A packet that is sent was a queue that is laid out, or is for a key.
LEMMA PacketSent ==
  ASSUME TypeOK, QueueOK, PacketOK, Host
  PROVE  PacketOK'
<1>1. CASE Skip \/ capsts_cmd_push \/ IrReturn
  BY <1>1, PacketStays DEF Skip, capsts_cmd_push, IrReturn
<1>2. CASE capsts_cmd_commit
  <2>1. ~EndsOpen(st_cmd_queue) /\ UNCHANGED poll
    BY <1>2 DEF capsts_cmd_commit, QueueOK, Calls
  <2>2. CASE Transfer(st_cmd_queue)
    <3>1. \E ofs : Laid(st_cmd_queue, ofs) /\ Followed(st_cmd_queue)
      BY DEF QueueOK
    <3> QED BY <2>1, <2>2, <3>1, NewPacket
  <2>3. CASE TransferFails
    BY <2>1, <2>3, PacketStays DEF TransferFails
  <2> QED BY <1>2, <2>2, <2>3 DEF capsts_cmd_commit
<1>3. CASE IrTransfer
  <2> DEFINE keys == program.calls[n_calls + 1].keys
  <2>1. UNCHANGED poll /\ Calls("ir_commit") /\ n_edges < 2 * Len(keys)
    BY <1>3 DEF IrTransfer
  <2>2. CASE Transfer(Edge(keys, n_edges))
    <3>1. program.calls[n_calls + 1] \in Call /\ n_edges \in Nat
      BY <2>1, NextCall DEF TypeOK, HostType
    <3>2. keys \in Seq(IrCode)
      BY <3>1 DEF Call
    <3> HIDE DEF keys
    <3>3. \E ofs : Laid(Edge(keys, n_edges), ofs)
      BY <2>1, <3>1, <3>2, EdgePacket
    <3>4. Followed(Edge(keys, n_edges)) /\ ~EndsOpen(Edge(keys, n_edges))
      BY <2>1, <3>1, <3>2, EdgePacket
    <3> QED BY <2>1, <2>2, <3>3, <3>4, NewPacket
  <2>3. CASE TransferFails
    BY <2>1, <2>3, PacketStays DEF TransferFails
  <2> QED BY <1>3, <2>2, <2>3 DEF IrTransfer
<1>4. CASE NextRun
  <2>1. CASE UNCHANGED <<ep1, poll>>
    BY <2>1, PacketStays
  <2>2. CASE ep1' = None /\ polling' = FALSE
    BY <2>2, LaidNone DEF PacketOK
  <2> QED BY <1>4, <2>1, <2>2 DEF NextRun
<1> QED BY <1>1, <1>2, <1>3, <1>4 DEF Host

-----------------------------------------------------------------------------
(* What the firmware takes for a command and its arguments                 *)

\* The number of bytes that follow a command, the third of all being data.
Arguments(cmd, data) ==
    IF cmd = CMD_IR_WBUF THEN 2 + Value(data)
    ELSE IF cmd \in {CMD_PORT_CFG, CMD_REG_WRITE, CMD_IR_CODE, CMD_EP4AUTOINLEN} THEN 2
    ELSE IF cmd \in {CMD_REG_READ, CMD_PORT_WRITE, CMD_IFCONFIG, CMD_IR_RBUF} THEN 1
    ELSE 0

LEMMA ArgumentsType ==
  ASSUME NEW cmd, NEW data
  PROVE  Arguments(cmd, data) \in Nat
BY ValueType DEF Arguments

LEMMA ArgumentsAre ==
  ASSUME NEW data
  PROVE  /\ Arguments(CMD_IR_CODE, data) = 2 /\ Arguments(CMD_IR_WBUF, data) = 2 + Value(data)
         /\ Arguments(CMD_IR_RBUF, data) = 1 /\ Arguments(CMD_REG_WRITE, data) = 2
         /\ Arguments(CMD_REG_READ, data) = 1 /\ Arguments(CMD_PORT_WRITE, data) = 1
         /\ Arguments(CMD_PORT_READ, data) = 0 /\ Arguments(CMD_PORT_CFG, data) = 2
         /\ Arguments(CMD_IFCONFIG, data) = 1 /\ Arguments(CMD_MODE_IDLE, data) = 0
         /\ Arguments(CMD_EP6IN_START, data) = 0 /\ Arguments(CMD_EP6IN_STOP, data) = 0
         /\ Arguments(CMD_EP4IN_START, data) = 0 /\ Arguments(CMD_EP4IN_STOP, data) = 0
         /\ Arguments(CMD_EP2OUT_START, data) = 0 /\ Arguments(CMD_EP2OUT_STOP, data) = 0
         /\ Arguments(CMD_EP4AUTOINLEN, data) = 2
         /\ \A cmd : cmd \notin Decoded => Arguments(cmd, data) = 0
<1> DEFINE two == {CMD_PORT_CFG, CMD_REG_WRITE, CMD_IR_CODE, CMD_EP4AUTOINLEN}
           one == {CMD_REG_READ, CMD_PORT_WRITE, CMD_IFCONFIG, CMD_IR_RBUF}
<1>0. \A cmd \in {CMD_PORT_READ, CMD_MODE_IDLE, CMD_EP6IN_START, CMD_EP6IN_STOP, CMD_EP4IN_START,
                  CMD_EP4IN_STOP, CMD_EP2OUT_START, CMD_EP2OUT_STOP, CMD_IR_WBUF} \cup one :
          cmd # CMD_EP4AUTOINLEN
  BY OnlyDecoded DEF Codes
<1>1. CMD_IR_WBUF \notin two \cup one /\ two \cap one = {}
  BY <1>0, CodeBits DEF CommandCode
<1>2. {CMD_PORT_READ, CMD_MODE_IDLE, CMD_EP6IN_START, CMD_EP6IN_STOP, CMD_EP4IN_START,
       CMD_EP4IN_STOP, CMD_EP2OUT_START, CMD_EP2OUT_STOP}
        \cap (two \cup one \cup {CMD_IR_WBUF}) = {}
  BY <1>0, CodeBits DEF CommandCode
<1>3. two \cup one \cup {CMD_IR_WBUF} \subseteq Decoded
  BY DEF Codes, Decoded
<1>4. /\ \A cmd \in two : Arguments(cmd, data) = 2
      /\ \A cmd \in one : Arguments(cmd, data) = 1
      /\ \A cmd : cmd \notin two \cup one \cup {CMD_IR_WBUF} => Arguments(cmd, data) = 0
  BY <1>1 DEF Arguments
<1>5. /\ Arguments(CMD_IR_CODE, data) = 2 /\ Arguments(CMD_REG_WRITE, data) = 2
      /\ Arguments(CMD_PORT_CFG, data) = 2 /\ Arguments(CMD_IR_RBUF, data) = 1
      /\ Arguments(CMD_REG_READ, data) = 1 /\ Arguments(CMD_PORT_WRITE, data) = 1
      /\ Arguments(CMD_IFCONFIG, data) = 1 /\ Arguments(CMD_EP4AUTOINLEN, data) = 2
  BY <1>4
<1>6. Arguments(CMD_IR_WBUF, data) = 2 + Value(data)
  BY DEF Arguments
<1>7. \A cmd : cmd \notin Decoded => Arguments(cmd, data) = 0
  BY <1>3, <1>4
<1>8. \A cmd \in {CMD_PORT_READ, CMD_MODE_IDLE, CMD_EP6IN_START, CMD_EP6IN_STOP, CMD_EP4IN_START,
                  CMD_EP4IN_STOP, CMD_EP2OUT_START, CMD_EP2OUT_STOP} : Arguments(cmd, data) = 0
  BY <1>2, <1>4
<1> QED BY <1>5, <1>6, <1>7, <1>8

\* Every turn of the loop takes a command and its arguments.
LEMMA Taken ==
  ASSUME Command, DeviceType
  PROVE  LET n == Arguments(Read(1), Read(3)) IN
         /\ cmd_cnt' = (cmd_cnt - (n + 1)) % 256
         /\ (Read(1) = CMD_IR_WBUF => Read(3) # {})
               => /\ at' = at + n + 1
                  /\ executed' = Append(executed, [k \in 1 .. n + 1 |-> Read(k)])
<1> DEFINE n == Arguments(Read(1), Read(3))
<1>1. n \in Nat
  BY ArgumentsType
<1>2. CASE Takes(n)
  BY <1>2 DEF Takes
<1>3. CASE IrWbuf
  <2>0. Read(1) = CMD_IR_WBUF
    BY <1>3 DEF IrWbuf, Case
  <2>1. n = 2 + Value(Read(3)) /\ Value(Read(3)) \in Nat
    <3>1. Value(Read(3)) \in Nat
      BY ValueType
    <3> QED BY <2>0, <3>1, ArgumentsAre
  <2>2. cmd_cnt' = (cmd_cnt - (3 + Value(Read(3)))) % 256
    BY <1>3 DEF IrWbuf
  <2>3. ASSUME Read(3) # {}
        PROVE  /\ at' = at + 3 + Value(Read(3))
               /\ executed' = Append(executed, [k \in 1 .. Value(Read(3)) + 3 |-> Read(k)])
    BY <1>3, <2>3 DEF IrWbuf
  <2> HIDE DEF n
  <2>4. n + 1 = 3 + Value(Read(3)) /\ n + 1 = Value(Read(3)) + 3
    BY <2>1
  <2>5. at + n + 1 = at + 3 + Value(Read(3))
    BY <2>1 DEF DeviceType
  <2>6. /\ cmd_cnt' = (cmd_cnt - (n + 1)) % 256
        /\ Read(3) # {} => /\ at' = at + n + 1
                           /\ executed' = Append(executed, [k \in 1 .. n + 1 |-> Read(k)])
    BY <2>2, <2>3, <2>4, <2>5
  <2> QED BY <2>0, <2>6 DEF n
<1>4. CASE Takes(n) \/ IrWbuf
  BY <1>2, <1>3, <1>4
<1> QED BY <1>4, ArgumentsAre DEF Command, NoCase, Case, SetIrCode, IrRbuf, RegWrite, RegRead,
        PortWrite, PortRead, PortCfg, IfConfig, ModeIdle, Ep6InStart, Ep4InStart, Ep2OutStart,
        Ep6InStop, Ep4InStop, Ep2OutStop, Ep4AutoInLen

\* The 8-bit counter does not wrap as long as what is taken is left.
LEMMA Counted ==
  ASSUME NEW a \in 0 .. 255, NEW n \in Nat, n <= a
  PROVE  (a - n) % 256 = a - n
OBVIOUS

LEMMA OneMore ==
  ASSUME NEW S, NEW s \in Seq(S), NEW k \in 0 .. Len(s) - 1
  PROVE  Append(SubSeq(s, 1, k), s[k + 1]) = SubSeq(s, 1, k + 1)
OBVIOUS

LEMMA Itself ==
  ASSUME NEW S, NEW s \in Seq(S)
  PROVE  [j \in 1 .. Len(s) |-> s[j]] = s
OBVIOUS

\* What the arguments of a command are, when it was pushed with those that it takes.
LEMMA TakesItsOwn ==
  ASSUME NEW cmd, IsCommand(cmd), cmd[1] # CMD_PORT_CFG,
         NEW third, Len(cmd) > 2 => third = cmd[3]
  PROVE  /\ Arguments(cmd[1], third) + 1 = Len(cmd)
         /\ cmd[1] = CMD_IR_WBUF => third # {}
<1>1. /\ cmd \in Seq(Byte) /\ Len(cmd) \in Nat
      /\ cmd[1] = CMD_IR_WBUF => Value(cmd[3]) > 0 /\ Len(cmd) = 3 + Value(cmd[3])
  BY CommandFacts
<1>2. CASE cmd[1] = CMD_IR_WBUF
  <2>1. Value(cmd[3]) \in Nat
    BY ValueType
  <2>2. Len(cmd) > 2
    BY <1>1, <1>2, <2>1
  <2>3. third = cmd[3] /\ cmd[3] \in Byte
    BY <1>1, <2>2
  <2>4. Arguments(cmd[1], third) = 2 + Value(cmd[3])
    BY <1>2, <2>3, ArgumentsAre
  <2>5. third # {}
    BY <1>1, <1>2, <2>1, <2>3, ValueType
  <2> QED BY <1>1, <1>2, <2>1, <2>4, <2>5
<1>3. CASE cmd[1] # CMD_IR_WBUF
  <2>1. cmd[1] # CMD_EP4AUTOINLEN
    BY OnlyDecoded DEF IsCommand
  <2> QED BY <1>1, <1>3, <2>1 DEF IsCommand, Arguments
<1> QED BY <1>2, <1>3

\* A turn of the loop ends between two commands or astray in one.
LEMMA ParseStep ==
  ASSUME TypeOK, PacketOK, Command
  PROVE  PacketOK'
<1> DEFINE n == Len(ep1.cmds)
           m == Len(ep1.bytes)
           a == Arguments(Read(1), Read(3)) + 1
<1>1. /\ polling /\ cmd_cnt # 0 /\ cmd_cnt \in 0 .. 255 /\ at \in Nat /\ at + cmd_cnt = m
      /\ UNCHANGED <<ep1, polling>> /\ polling'
  BY CommandPolls, CommandTypeStep DEF TypeOK, DeviceType, PacketOK
<1>2. ep1.cmds \in Seq(Seq(Byte)) /\ ep1.bytes \in Seq(Byte) /\ n \in Nat /\ m \in Nat
  BY DEF TypeOK, DeviceType, Packet
<1>3. PICK ofs : Laid(ep1, ofs) /\ \E k \in 0 .. n : Aligned(k, ofs) \/ Astray(k, ofs)
  BY <1>1 DEF PacketOK
<1>4. PICK k \in 0 .. n : Aligned(k, ofs) \/ Astray(k, ofs)
  BY <1>3
<1>5. /\ a \in Nat \ {0}
      /\ cmd_cnt' = (cmd_cnt - a) % 256
      /\ (Read(1) = CMD_IR_WBUF => Read(3) # {})
            => /\ at' = at + a
               /\ executed' = Append(executed, [j \in 1 .. a |-> Read(j)])
  <2>1. Arguments(Read(1), Read(3)) \in Nat
    BY ArgumentsType
  <2>2. DeviceType
    BY DEF TypeOK
  <2>3. at + Arguments(Read(1), Read(3)) + 1 = at + a
    BY <1>1, <2>1
  <2> QED BY <2>1, <2>2, <2>3, Taken
<1>6. Followed(ep1) /\ ~EndsOpen(ep1)
  BY DEF PacketOK
<1>7. /\ ofs \in [0 .. n -> 0 .. m] /\ ofs[n] = m
      /\ \A c \in 1 .. n :
            /\ IsCommand(ep1.cmds[c])
            /\ ofs[c] = ofs[c - 1] + Pushed(ep1.cmds[c]) + 1
            /\ \A j \in 1 .. Pushed(ep1.cmds[c]) + 1 :
                  ep1.bytes[ofs[c - 1] + j] = ep1.cmds[c][j]
  BY <1>3 DEF Laid
<1>8. \A j \in Nat : at + j <= m => Read(j) = ep1.bytes[at + j]
  BY DEF Read
<1> HIDE DEF a
<1>9. ASSUME NEW c \in 0 .. n, a <= cmd_cnt, Aligned(c, ofs)' \/ Astray(c, ofs)',
             at' = at + a
      PROVE  PacketOK'
  <2>1. at' + cmd_cnt' = Len(ep1.bytes)
    <3>1. at' = at + a
      BY <1>9
    <3>2. cmd_cnt' = cmd_cnt - a
      BY <1>1, <1>5, <1>9, Counted
    <3> HIDE DEF a, m
    <3>3. at' + cmd_cnt' = m
      BY <1>1, <1>5, <3>1, <3>2
    <3> QED BY <3>3 DEF m
  <2> QED BY <1>1, <1>3, <1>6, <1>9, <2>1 DEF PacketOK
<1>10. CASE Aligned(k, ofs)
  <2> DEFINE cmd == ep1.cmds[k + 1]
             p == Pushed(cmd) + 1
  <2>1. at = ofs[k] /\ k # n /\ k + 1 \in 1 .. n /\ k + 1 \in 0 .. n
    <3>1. at = ofs[k]
      BY <1>10 DEF Aligned
    <3>2. at # m
      BY <1>1, <1>2
    <3> HIDE DEF n, m
    <3>3. k # n
      BY <1>7, <3>1, <3>2
    <3> QED BY <1>2, <3>1, <3>3
  <2>2. /\ IsCommand(cmd) /\ ofs[k + 1] = ofs[k] + p /\ ofs[k + 1] \in 0 .. m
        /\ \A j \in 1 .. p : ep1.bytes[at + j] = cmd[j]
    <3>1. (k + 1) - 1 = k
      BY <1>2
    <3>2. /\ ofs[k + 1] = ofs[k] + Pushed(cmd) + 1
          /\ \A j \in 1 .. p : ep1.bytes[ofs[k] + j] = cmd[j]
      BY <1>7, <2>1, <3>1
    <3>3. Pushed(cmd) \in Nat /\ ofs[k] \in Nat
      BY <1>7, <2>1, CommandFacts
    <3>4. ofs[k + 1] \in 0 .. m /\ IsCommand(cmd)
      BY <1>7, <2>1
    <3>5. ofs[k] + Pushed(cmd) + 1 = ofs[k] + p
      BY <3>3
    <3>6. \A j \in 1 .. p : ep1.bytes[at + j] = cmd[j]
      BY <2>1, <3>2
    <3> QED BY <3>2, <3>4, <3>5, <3>6
  <2>3. /\ cmd \in Seq(Byte) /\ Len(cmd) \in Nat /\ p \in Nat \ {0} /\ p <= Len(cmd)
        /\ cmd[1] # CMD_PORT_CFG => p = Len(cmd)
        /\ cmd[1] = CMD_PORT_CFG => p = 2
    BY <2>2, CommandFacts
  <2> HIDE DEF cmd, p, m, n
  <2>4. p <= cmd_cnt /\ at + p <= m
    BY <1>1, <1>2, <2>1, <2>2, <2>3
  <2>5. \A j \in 1 .. p : Read(j) = cmd[j]
    <3> SUFFICES ASSUME NEW j \in 1 .. p PROVE Read(j) = cmd[j]
      OBVIOUS
    <3>1. j \in Nat /\ at + j <= m
      BY <1>1, <1>2, <2>3, <2>4
    <3> QED BY <1>8, <2>2, <3>1
  <2>6. Read(1) = cmd[1]
    BY <2>3, <2>5
  <2>7. CASE cmd[1] # CMD_PORT_CFG
    <3>1. a = p /\ (Read(1) = CMD_IR_WBUF => Read(3) # {})
      <4>1. Len(cmd) > 2 => Read(3) = cmd[3]
        BY <2>3, <2>5, <2>7
      <4> QED BY <2>2, <2>3, <2>6, <2>7, <4>1, TakesItsOwn DEF a
    <3>2. at' = at + p /\ executed' = Append(executed, cmd)
      <4>1. [j \in 1 .. p |-> Read(j)] = [j \in 1 .. Len(cmd) |-> cmd[j]]
        BY <2>3, <2>5, <2>7
      <4> QED BY <1>5, <2>3, <3>1, <4>1, Itself
    <3>3. Aligned(k + 1, ofs)'
      <4>1. at' = ofs[k + 1]
        BY <2>1, <2>2, <3>2
      <4>2. ASSUME ~Has(CMD_PORT_CFG)
            PROVE  executed' = SubSeq(ep1.cmds, 1, k + 1)
        <5>1. executed = SubSeq(ep1.cmds, 1, k)
          BY <1>10, <4>2 DEF Aligned
        <5>2. k \in 0 .. Len(ep1.cmds) - 1
          BY <1>2, <2>1 DEF n
        <5> QED BY <1>2, <3>2, <5>1, <5>2, OneMore DEF cmd
      <4> QED BY <1>1, <4>1, <4>2 DEF Aligned, Has
    <3> QED BY <1>9, <2>1, <2>4, <3>1, <3>2, <3>3
  <2>8. CASE cmd[1] = CMD_PORT_CFG
    <3>1. p = 2 /\ a = 3 /\ Read(1) # CMD_IR_WBUF
      <4>1. Read(1) = CMD_PORT_CFG /\ CMD_PORT_CFG # CMD_IR_WBUF
        BY <2>6, <2>8, CodeBits DEF CommandCode
      <4>2. a = Arguments(CMD_PORT_CFG, Read(3)) + 1
        BY <4>1 DEF a
      <4> QED BY <2>3, <2>8, <4>1, <4>2, ArgumentsAre
    <3>2. at' = at + 3
      BY <1>5, <3>1
    <3>3. Has(CMD_PORT_CFG) /\ k + 1 # n
      <4>1. k + 1 \in DOMAIN ep1.cmds
        BY <1>2, <2>1 DEF n
      <4>2. k + 1 # n
        <5>1. ep1.cmds # << >>
          BY <4>1
        <5> QED BY <1>6, <2>8, <5>1 DEF EndsOpen, cmd, n
      <4> QED BY <2>8, <4>1, <4>2 DEF Has, cmd
    <3> DEFINE next == ep1.cmds[k + 2]
    <3>4. k + 2 \in 1 .. n /\ k + 2 \in 0 .. n /\ k + 1 \in 1 .. n - 1 /\ (k + 2) - 1 = k + 1
          /\ (k + 1) + 1 = k + 2
      BY <1>2, <2>1, <3>3
    <3>5. Harmless(next)
      <4>1. k + 1 \in 1 .. Len(ep1.cmds) - 1
        BY <3>4 DEF n
      <4>2. Harmless(ep1.cmds[(k + 1) + 1])
        BY <1>6, <2>8, <4>1 DEF Followed, cmd
      <4> QED BY <3>4, <4>2
    <3>6. /\ ofs[k + 2] = ofs[k + 1] + Pushed(next) + 1 /\ ofs[k + 2] \in 0 .. m
          /\ Pushed(next) \in Nat
      <4>1. IsCommand(next) /\ ofs[k + 2] = ofs[k + 1] + Pushed(next) + 1
        BY <1>7, <3>4
      <4>2. ofs[k + 2] \in 0 .. m
        BY <1>7, <3>4
      <4> QED BY <4>1, <4>2, CommandFacts
    <3> HIDE DEF next
    <3>7. at' = ofs[k + 1] + 1 /\ at' <= ofs[k + 2] /\ ofs[k + 1] \in Nat
      <4>1. at \in Nat /\ ofs[k + 1] = at + 2 /\ at' = at + 3
        BY <1>1, <2>1, <2>2, <3>1, <3>2
      <4>2. ofs[k + 1] \in Nat /\ at' = ofs[k + 1] + 1
        BY <4>1
      <4> QED BY <3>6, <4>2
    <3>8. a <= cmd_cnt
      BY <1>1, <1>2, <3>1, <3>2, <3>6, <3>7
    <3>9. CASE at' = ofs[k + 2]
      <4>1. Aligned(k + 2, ofs)'
        BY <1>1, <3>3, <3>9 DEF Aligned, Has
      <4> QED BY <1>9, <3>1, <3>2, <3>4, <3>8, <4>1
    <3>10. CASE at' # ofs[k + 2]
      <4>1. Astray(k + 2, ofs)'
        <5>1. k + 2 > 0 /\ ofs[k + 1] < at' /\ at' < ofs[k + 2]
          BY <3>4, <3>6, <3>7, <3>10
        <5> QED BY <1>1, <3>3, <3>4, <3>5, <5>1 DEF Astray, Has, next
      <4> QED BY <1>9, <3>1, <3>2, <3>4, <3>8, <4>1
    <3> QED BY <3>9, <3>10
  <2> QED BY <2>7, <2>8
<1>11. CASE Astray(k, ofs)
  <2> DEFINE cmd == ep1.cmds[k]
             j == at + 1 - ofs[k - 1]
  <2>1. /\ Has(CMD_PORT_CFG) /\ Harmless(cmd) /\ ofs[k - 1] < at /\ at < ofs[k]
        /\ k \in 1 .. n /\ k - 1 \in 0 .. n
    BY <1>2, <1>11 DEF Astray
  <2>2. /\ IsCommand(cmd) /\ ofs[k] = ofs[k - 1] + Pushed(cmd) + 1
        /\ ofs[k - 1] \in 0 .. m /\ ofs[k] \in 0 .. m
        /\ \A i \in 1 .. Pushed(cmd) + 1 : ep1.bytes[ofs[k - 1] + i] = cmd[i]
    BY <1>7, <2>1
  <2>3. Pushed(cmd) \in Nat /\ Pushed(cmd) + 1 <= Len(cmd) /\ Len(cmd) \in Nat
    BY <2>2, CommandFacts
  <2> HIDE DEF cmd, n, m
  <2>4. j \in 2 .. Len(cmd) /\ j \in 1 .. Pushed(cmd) + 1 /\ ofs[k - 1] + j = at + 1 /\ at + 1 <= m
    <3>1. /\ ofs[k - 1] \in Nat /\ ofs[k] \in Nat /\ ofs[k] <= m
      BY <1>2, <2>2
    <3> HIDE DEF j
    <3>2. j = at + 1 - ofs[k - 1]
      BY DEF j
    <3>3. j \in 2 .. Pushed(cmd) + 1 /\ ofs[k - 1] + j = at + 1 /\ at + 1 <= m
      <4>1. \A b, x, y, z, e \in Nat :
                b < x /\ x < y /\ y = b + z + 1 /\ y <= e =>
                    x + 1 - b \in 2 .. z + 1 /\ b + (x + 1 - b) = x + 1 /\ x + 1 <= e
        OBVIOUS
      <4>2. ofs[k] = ofs[k - 1] + Pushed(cmd) + 1
        BY <2>2
      <4>3. /\ ofs[k - 1] < at /\ at < ofs[k] /\ ofs[k] <= m
            /\ at \in Nat /\ m \in Nat /\ Pushed(cmd) \in Nat
            /\ ofs[k - 1] \in Nat /\ ofs[k] \in Nat
        BY <1>1, <1>2, <2>1, <2>3, <3>1
      <4>4. /\ at + 1 - ofs[k - 1] \in 2 .. Pushed(cmd) + 1
            /\ ofs[k - 1] + (at + 1 - ofs[k - 1]) = at + 1 /\ at + 1 <= m
        BY <4>1, <4>2, <4>3
      <4> QED BY <3>2, <4>4
    <3> QED BY <2>3, <3>3
  <2> HIDE DEF j
  <2>5. Read(1) = cmd[j]
    <3>1. Read(1) = ep1.bytes[at + 1]
      BY <1>8, <2>4
    <3>2. ep1.bytes[ofs[k - 1] + j] = cmd[j]
      BY <2>2, <2>4
    <3> QED BY <2>4, <3>1, <3>2
  <2>6. Read(1) \notin Decoded \/ (Read(1) = CMD_EP4AUTOINLEN /\ j + 2 <= Len(cmd))
    BY <2>1, <2>4, <2>5 DEF Harmless
  <2>7. /\ a = 1 \/ (a = 3 /\ j + 2 <= Len(cmd))
        /\ Read(1) # CMD_IR_WBUF
    <3>1. CASE Read(1) \notin Decoded
      <4>1. Arguments(Read(1), Read(3)) = 0
        BY <3>1, ArgumentsAre
      <4> QED BY <3>1, <4>1 DEF a, Decoded, Codes
    <3>2. CASE Read(1) = CMD_EP4AUTOINLEN /\ j + 2 <= Len(cmd)
      <4>1. Arguments(Read(1), Read(3)) = 2
        BY <3>2, ArgumentsAre
      <4>2. CMD_EP4AUTOINLEN # CMD_IR_WBUF
        BY OnlyDecoded DEF Codes
      <4> QED BY <3>2, <4>1, <4>2 DEF a
    <3> QED BY <2>6, <3>1, <3>2
  <2>8. at' = at + a /\ at < at' /\ at' <= ofs[k] /\ a <= cmd_cnt
    <3>1. at' = at + a /\ at < at'
      BY <1>1, <1>5, <2>7
    <3>2. CASE a = 1
      BY <1>1, <1>2, <2>1, <2>2, <3>1, <3>2
    <3>3. CASE a = 3 /\ j + 2 <= Len(cmd)
      <4>0. Len(cmd) > 3
        BY <2>3, <2>4, <3>3
      <4>1. Len(cmd) = Pushed(cmd) + 1
        <5>1. cmd[1] # CMD_PORT_CFG
          <6> SUFFICES ASSUME cmd[1] = CMD_PORT_CFG PROVE FALSE
            OBVIOUS
          <6>1. CMD_PORT_CFG # CMD_IR_WBUF
            BY CodeBits DEF CommandCode
          <6>2. Len(cmd) = 1 + 2
            BY <2>2, <6>1 DEF IsCommand
          <6> QED BY <4>0, <6>2
        <5> QED BY <2>2, <5>1, CommandFacts
      <4>2. ofs[k] = ofs[k - 1] + Len(cmd) /\ ofs[k - 1] \in Nat /\ ofs[k] \in Nat
        <5>1. ofs[k - 1] \in Nat /\ ofs[k] \in Nat
          BY <1>2, <2>2
        <5>2. ofs[k] = ofs[k - 1] + Pushed(cmd) + 1
          BY <2>2
        <5> QED BY <2>3, <4>1, <5>1, <5>2
      <4>3. at' <= ofs[k]
        BY <1>1, <2>3, <2>4, <3>1, <3>3, <4>2
      <4> QED BY <1>1, <1>2, <2>2, <3>1, <3>3, <4>2, <4>3
    <3> QED BY <2>7, <3>1, <3>2, <3>3
  <2>9. CASE at' = ofs[k]
    <3>1. Aligned(k, ofs)'
      BY <1>1, <2>1, <2>9 DEF Aligned, Has
    <3> QED BY <1>9, <2>8, <3>1
  <2>10. CASE at' # ofs[k]
    <3>1. Astray(k, ofs)'
      <4>1. k > 0 /\ ofs[k - 1] < at' /\ at' < ofs[k]
        BY <1>1, <1>2, <2>1, <2>2, <2>8, <2>10
      <4> QED BY <1>1, <2>1, <4>1 DEF Astray, Has, cmd
    <3> QED BY <1>9, <2>8, <3>1
  <2> QED BY <2>9, <2>10
<1> QED BY <1>4, <1>10, <1>11

LEMMA ParseInit == Init => ParseInv
<1> SUFFICES ASSUME Init PROVE ParseInv
  OBVIOUS
<1>1. st_cmd_queue = None /\ ep1 = None /\ polling = FALSE
  BY DEF Init, Idle
<1> QED BY <1>1, InitType, LaidNone DEF ParseInv, QueueOK, PacketOK

LEMMA ParseNext == ParseInv /\ [Next]_vars => ParseInv'
<1> SUFFICES ASSUME ParseInv, [Next]_vars PROVE ParseInv'
  OBVIOUS
<1> USE DEF ParseInv
<1>1. TypeOK'
  BY TypeStep
<1>2. CASE UNCHANGED vars
  BY <1>1, <1>2, PacketStays DEF vars, host, QueueOK, Calls
<1>3. CASE Host
  BY <1>1, <1>3, QueueParse, PacketSent
<1>4. ASSUME UNCHANGED host
      PROVE  QueueOK'
  BY <1>4 DEF host, QueueOK, Calls
<1>5. CASE PollBegins
  <2>1. /\ UNCHANGED host /\ ep1' = ep1 /\ polling' /\ at' = 0 /\ executed' = << >>
        /\ cmd_cnt' = Len(ep1.bytes)
    BY <1>5 DEF PollBegins
  <2>2. PICK ofs : Laid(ep1, ofs)
    BY DEF PacketOK
  <2>3. ofs[0] = 0 /\ SubSeq(ep1.cmds, 1, 0) = << >> /\ 0 \in 0 .. Len(ep1.cmds)
    <3>1. ep1.cmds \in Seq(Seq(Byte))
      BY DEF TypeOK, DeviceType, Packet
    <3> QED BY <2>2, <3>1 DEF Laid
  <2>4. Aligned(0, ofs)'
    BY <2>1, <2>3 DEF Aligned
  <2>5. at' + cmd_cnt' = Len(ep1.bytes)
    <3>1. ep1.bytes \in Seq(Byte)
      BY DEF TypeOK, DeviceType, Packet
    <3>2. Len(ep1.bytes) \in Nat
      BY <3>1
    <3>3. \A l \in Nat : 0 + l = l
      OBVIOUS
    <3> QED BY <2>1, <3>2, <3>3
  <2>6. Followed(ep1) /\ ~EndsOpen(ep1)
    BY DEF PacketOK
  <2>7. PacketOK'
    BY <2>1, <2>2, <2>3, <2>4, <2>5, <2>6 DEF PacketOK
  <2> QED BY <1>1, <1>4, <2>1, <2>7
<1>6. CASE Command
  <2>1. UNCHANGED host
    BY <1>6, CommandPolls, CommandTypeStep DEF TypeOK
  <2> QED BY <1>1, <1>4, <1>6, <2>1, ParseStep
<1>7. CASE PollEnds
  <2>1. UNCHANGED host /\ ep1' = None /\ polling' = FALSE
    BY <1>7 DEF PollEnds, Rearm
  <2>2. PacketOK'
    BY <2>1, LaidNone DEF PacketOK
  <2> QED BY <1>1, <1>4, <2>1, <2>2
<1> QED BY <1>2, <1>3, <1>5, <1>6, <1>7 DEF Next, TD_Poll

LEMMA Parsing == Spec => []ParseInv
<1> QED BY ParseInit, ParseNext, PTL DEF Spec

\* The queue never exceeds a packet, nor a value of the firmware its byte.
THEOREM TypeCorrect == Spec => []TypeOK
<1>1. ParseInv => TypeOK
  BY DEF ParseInv
<1> QED BY <1>1, Parsing, PTL

\* TD_Poll counts down just the bytes of the packet and reads none beyond, although
\* it takes three bytes for CMD_PORT_CFG of which two were pushed.
THEOREM CountedBytes == Spec => []WithinPacket
<1>1. ParseInv => WithinPacket
  BY DEF ParseInv, PacketOK, WithinPacket
<1> QED BY <1>1, Parsing, PTL

\* A packet that is parsed without going astray has been executed so far.
LEMMA WholePacket ==
  ASSUME ParseInv, polling, ~Has(CMD_PORT_CFG)
  PROVE  /\ IsPrefix(executed, ep1.cmds)
         /\ cmd_cnt = 0 => executed = ep1.cmds
<1> DEFINE n == Len(ep1.cmds)
           m == Len(ep1.bytes)
<1>1. PICK ofs : Laid(ep1, ofs) /\ \E k \in 0 .. n : Aligned(k, ofs) \/ Astray(k, ofs)
  BY DEF ParseInv, PacketOK
<1>2. PICK k \in 0 .. n : at = ofs[k] /\ executed = SubSeq(ep1.cmds, 1, k)
  BY <1>1 DEF Aligned, Astray
<1>3. ep1.cmds \in Seq(Seq(Byte)) /\ n \in Nat /\ ep1.bytes \in Seq(Byte) /\ m \in Nat
  BY DEF ParseInv, TypeOK, DeviceType, Packet
<1>4. IsPrefix(executed, ep1.cmds)
  <2>1. \A S : \A s \in Seq(S) : \A l \in 0 .. Len(s) :
           /\ Len(SubSeq(s, 1, l)) = l
           /\ SubSeq(SubSeq(s, 1, l), 1, l) = SubSeq(s, 1, l)
    OBVIOUS
  <2>2. Len(executed) = k /\ SubSeq(executed, 1, k) = SubSeq(ep1.cmds, 1, k) /\ k <= n
    BY <1>2, <1>3, <2>1
  <2> QED BY <2>2 DEF IsPrefix
<1>5. ASSUME cmd_cnt = 0
      PROVE  executed = ep1.cmds
  <2>1. at = m
    <3>1. at \in Nat /\ at + cmd_cnt = m
      BY DEF ParseInv, TypeOK, DeviceType, PacketOK
    <3> HIDE DEF m
    <3> QED BY <1>5, <3>1
  <2>2. k = n
    <3> SUFFICES ASSUME k # n PROVE FALSE
      OBVIOUS
    <3>1. k + 1 \in 1 .. n /\ k + 1 \in 0 .. n /\ (k + 1) - 1 = k
      BY <1>3
    <3>2. IsCommand(ep1.cmds[k + 1]) /\ ofs[k + 1] = ofs[k] + Pushed(ep1.cmds[k + 1]) + 1
          /\ ofs[k + 1] \in 0 .. m
      BY <1>1, <3>1 DEF Laid
    <3>3. Pushed(ep1.cmds[k + 1]) \in Nat
      BY <3>2, CommandFacts
    <3>4. ofs[k + 1] = m + Pushed(ep1.cmds[k + 1]) + 1 /\ ofs[k + 1] \in 0 .. m /\ m \in Nat
      BY <1>2, <1>3, <2>1, <3>2
    <3> HIDE DEF m
    <3> QED BY <3>3, <3>4
  <2>3. \A S : \A s \in Seq(S) : SubSeq(s, 1, Len(s)) = s
    OBVIOUS
  <2> QED BY <1>2, <1>3, <2>2, <2>3
<1> QED BY <1>4, <1>5

\* Without CMD_PORT_CFG in it a packet is executed as it was pushed.
THEOREM ExecutedInOrder == Spec => []ExecutesWhatIsPushed
<1>1. ParseInv => ExecutesWhatIsPushed
  BY WholePacket DEF ExecutesWhatIsPushed
<1> QED BY <1>1, Parsing, PTL

-----------------------------------------------------------------------------
(* What the commands do                                                    *)

\* A command is decoded by its own branch of the switch.
LEMMA DecodedAs ==
  ASSUME Command
  PROVE  /\ Read(1) = CMD_PORT_CFG => PortCfg
         /\ Read(1) = CMD_IFCONFIG => IfConfig
         /\ Read(1) = CMD_IR_CODE => SetIrCode
         /\ Read(1) = CMD_PORT_WRITE => PortWrite
         /\ Read(1) = CMD_MODE_IDLE => ModeIdle
         /\ Read(1) = CMD_EP6IN_START => Ep6InStart
         /\ Read(1) = CMD_EP6IN_STOP => Ep6InStop
         /\ Read(1) = CMD_EP4IN_START => Ep4InStart
         /\ Read(1) = CMD_EP4IN_STOP => Ep4InStop
<1>1. /\ NoCase => Read(1) \notin Decoded
      /\ SetIrCode => Read(1) = CMD_IR_CODE
      /\ IrWbuf => Read(1) = CMD_IR_WBUF
      /\ IrRbuf => Read(1) = CMD_IR_RBUF
      /\ RegWrite => Read(1) = CMD_REG_WRITE
      /\ RegRead => Read(1) = CMD_REG_READ
      /\ PortWrite => Read(1) = CMD_PORT_WRITE
      /\ PortRead => Read(1) = CMD_PORT_READ
      /\ PortCfg => Read(1) = CMD_PORT_CFG
      /\ IfConfig => Read(1) = CMD_IFCONFIG
      /\ ModeIdle => Read(1) = CMD_MODE_IDLE
      /\ Ep6InStart => Read(1) = CMD_EP6IN_START
      /\ Ep6InStop => Read(1) = CMD_EP6IN_STOP
      /\ Ep4InStart => Read(1) = CMD_EP4IN_START
      /\ Ep4InStop => Read(1) = CMD_EP4IN_STOP
      /\ Ep2OutStart => Read(1) = CMD_EP2OUT_START
      /\ Ep2OutStop => Read(1) = CMD_EP2OUT_STOP
      /\ Ep4AutoInLen => Read(1) = CMD_EP4AUTOINLEN
  BY DEF NoCase, Case, SetIrCode, IrWbuf, IrRbuf, RegWrite, RegRead, PortWrite, PortRead, PortCfg,
     IfConfig, ModeIdle, Ep6InStart, Ep4InStart, Ep2OutStart, Ep6InStop, Ep4InStop, Ep2OutStop,
     Ep4AutoInLen
<1>2. /\ Read(1) = CMD_PORT_CFG => PortCfg
      /\ Read(1) = CMD_IFCONFIG => IfConfig
      /\ Read(1) = CMD_IR_CODE => SetIrCode
  BY <1>1, OnlyDecoded, BytesAre, CodeBits DEF Command, CommandCode
<1>3. /\ Read(1) = CMD_PORT_WRITE => PortWrite
      /\ Read(1) = CMD_MODE_IDLE => ModeIdle
  BY <1>1, OnlyDecoded, BytesAre, CodeBits DEF Command, CommandCode
<1>4. /\ Read(1) = CMD_EP6IN_START => Ep6InStart
      /\ Read(1) = CMD_EP6IN_STOP => Ep6InStop
  BY <1>1, OnlyDecoded, BytesAre, CodeBits DEF Command, CommandCode
<1>5. /\ Read(1) = CMD_EP4IN_START => Ep4InStart
      /\ Read(1) = CMD_EP4IN_STOP => Ep4InStop
  BY <1>1, OnlyDecoded, BytesAre, CodeBits DEF Command, CommandCode
<1> QED BY <1>2, <1>3, <1>4, <1>5

\* The registers that make a capture.
Outputs(r) == <<r.ep6, r.ep4, r.IOD, r.IFCONFIG>>

\* The commands that set up the pins, the clock and the remote control's code do not touch the
\* outputs.
LEMMA ConfigEffects ==
  ASSUME DeviceType
  PROVE  /\ PortCfg => /\ at' = at + 3
                       /\ Outputs(reg') = Outputs(reg) /\ reg'.val_ifconfig = reg.val_ifconfig
                       /\ reg'.ir_code = reg.ir_code
         /\ IfConfig => /\ at' = at + 2
                        /\ Outputs(reg') = Outputs(reg) /\ reg'.val_ifconfig = Read(2)
                        /\ reg'.ir_code = reg.ir_code
         /\ SetIrCode => /\ at' = at + 3
                         /\ Outputs(reg') = Outputs(reg) /\ reg'.val_ifconfig = reg.val_ifconfig
                         /\ reg'.ir_code = <<Read(2), Read(3)>>
<1>1. reg \in Registers /\ at \in Nat
  BY DEF DeviceType
<1> QED BY <1>1 DEF PortCfg, IfConfig, SetIrCode, Takes, Outputs, Registers

\* The commands of a start, which do not change the clock that is set up, nor the code.
LEMMA StartEffects ==
  ASSUME DeviceType
  PROVE  /\ Ep6InStart => /\ at' = at + 1
                          /\ reg'.ep6 = TRUE /\ reg'.ep4 = reg.ep4
                          /\ reg'.IFCONFIG = reg.val_ifconfig
                          /\ reg'.IOD \cap ModeBits = MODE_START
                          /\ reg'.val_ifconfig = reg.val_ifconfig /\ reg'.ir_code = reg.ir_code
         /\ Ep4InStart => /\ at' = at + 1
                          /\ reg'.ep4 = TRUE /\ reg'.ep6 = reg.ep6
                          /\ reg'.IFCONFIG = reg.val_ifconfig
                          /\ reg'.IOD \cap ModeBits = MODE_START
                          /\ reg'.val_ifconfig = reg.val_ifconfig /\ reg'.ir_code = reg.ir_code
         /\ PortWrite => /\ at' = at + 2 /\ addr_mask' = addr_mask
                         /\ reg'.ep6 = reg.ep6 /\ reg'.ep4 = reg.ep4
                         /\ reg'.IFCONFIG = reg.IFCONFIG
                         /\ Read(2) = PIO_START /\ addr_mask \cap ModeBits = {} =>
                               reg'.IOD \cap ModeBits = reg.IOD \cap ModeBits
                         /\ reg'.val_ifconfig = reg.val_ifconfig /\ reg'.ir_code = reg.ir_code
<1>1. reg \in Registers /\ at \in Nat
  BY DEF DeviceType
<1>2. Mode(MODE_START) \cap ModeBits = MODE_START
  BY DEF Mode, ModeBits, MODE_START
<1>3. ASSUME NEW b, NEW m, m \cap ModeBits = {}
      PROVE  ((b \ m) \cup PIO_START) \cap ModeBits = b \cap ModeBits
  BY <1>3 DEF ModeBits, PIO_START
<1>4. PortWrite => reg'.IOD = (reg.IOD \ addr_mask) \cup Read(2)
  BY <1>1 DEF PortWrite, Registers
<1>5. PortWrite /\ Read(2) = PIO_START /\ addr_mask \cap ModeBits = {} =>
         reg'.IOD \cap ModeBits = reg.IOD \cap ModeBits
  BY <1>3, <1>4
<1>6. /\ Ep6InStart => reg'.IOD = Mode(MODE_START)
      /\ Ep4InStart => reg'.IOD = Mode(MODE_START)
  BY <1>1 DEF Ep6InStart, Ep4InStart, Registers
<1>7. ASSUME Ep6InStart
      PROVE  /\ at' = at + 1
             /\ reg'.ep6 = TRUE /\ reg'.ep4 = reg.ep4
             /\ reg'.IFCONFIG = reg.val_ifconfig
             /\ reg'.val_ifconfig = reg.val_ifconfig /\ reg'.ir_code = reg.ir_code
  BY <1>1, <1>7 DEF Ep6InStart, Takes, Registers
<1>8. ASSUME Ep4InStart
      PROVE  /\ at' = at + 1
             /\ reg'.ep4 = TRUE /\ reg'.ep6 = reg.ep6
             /\ reg'.IFCONFIG = reg.val_ifconfig
             /\ reg'.val_ifconfig = reg.val_ifconfig /\ reg'.ir_code = reg.ir_code
  BY <1>1, <1>8 DEF Ep4InStart, Takes, Registers
<1>9. ASSUME PortWrite
      PROVE  /\ at' = at + 2 /\ addr_mask' = addr_mask
             /\ reg'.ep6 = reg.ep6 /\ reg'.ep4 = reg.ep4
             /\ reg'.IFCONFIG = reg.IFCONFIG
             /\ reg'.val_ifconfig = reg.val_ifconfig /\ reg'.ir_code = reg.ir_code
  BY <1>1, <1>9 DEF PortWrite, Takes, Registers
<1> QED BY <1>2, <1>5, <1>6, <1>7, <1>8, <1>9

\* The commands of a stop.
LEMMA StopEffects ==
  ASSUME DeviceType
  PROVE  /\ Ep6InStop => /\ at' = at + 1
                         /\ reg'.ep6 = FALSE /\ reg'.ep4 = reg.ep4 /\ reg'.IOD = reg.IOD
                         /\ reg'.val_ifconfig = reg.val_ifconfig /\ reg'.ir_code = reg.ir_code
         /\ Ep4InStop => /\ at' = at + 1
                         /\ reg'.ep4 = FALSE /\ reg'.ep6 = reg.ep6 /\ reg'.IOD = reg.IOD
                         /\ reg'.val_ifconfig = reg.val_ifconfig /\ reg'.ir_code = reg.ir_code
         /\ ModeIdle => /\ at' = at + 1
                        /\ reg'.ep6 = reg.ep6 /\ reg'.ep4 = reg.ep4
                        /\ reg'.IOD \cap ModeBits = MODE_IDLE
                        /\ reg'.val_ifconfig = reg.val_ifconfig /\ reg'.ir_code = reg.ir_code
<1>1. reg \in Registers /\ at \in Nat
  BY DEF DeviceType
<1>2. Mode(MODE_IDLE) \cap ModeBits = MODE_IDLE
  BY DEF Mode, ModeBits, MODE_IDLE
<1> QED BY <1>1, <1>2 DEF Ep6InStop, Ep4InStop, ModeIdle, Takes, Registers

-----------------------------------------------------------------------------
(* The packets of a run                                                    *)

\* The packets of a run.
ConfigBytes  ==
    (<<CMD_PORT_CFG, {}>> \o <<CMD_MODE_IDLE>>) \o <<CMD_IFCONFIG, {7, 6, 5, 1, 0}>>
ReleaseBytes == <<CMD_IR_CODE, {}, {}>>

Only(cond, cmd) == IF cond THEN <<cmd>> ELSE << >>

Both(ts, bcas, ep6, ep4) == Only(ts, ep6) \o Only(bcas, ep4)

Started(ts, bcas)    == Both(ts, bcas, CMD_EP6IN_START, CMD_EP4IN_START)
StartBytes(ts, bcas) == Started(ts, bcas) \o <<CMD_PORT_WRITE, PIO_START>>
Stopped(ts, bcas)    == Both(ts, bcas, CMD_EP6IN_STOP, CMD_EP4IN_STOP)
StopBytes(ts, bcas)  == Stopped(ts, bcas) \o <<CMD_MODE_IDLE>>

LEMMA ConfigPacket ==
  /\ ConfigBytes \in Seq(Byte)
  /\ Len(ConfigBytes) = 5 /\ ConfigBytes[1] = CMD_PORT_CFG
  /\ ConfigBytes[4] = CMD_IFCONFIG /\ ConfigBytes[5] = {7, 6, 5, 1, 0}
<1> DEFINE a == <<CMD_PORT_CFG, {}>>
           b == <<CMD_MODE_IDLE>>
           c == <<CMD_IFCONFIG, {7, 6, 5, 1, 0}>>
<1>1. a \in Seq(Byte) /\ b \in Seq(Byte) /\ c \in Seq(Byte)
  BY BytesAre
<1>2. /\ Len(a) = 2 /\ Len(b) = 1 /\ Len(c) = 2
      /\ a[1] = CMD_PORT_CFG /\ c[1] = CMD_IFCONFIG /\ c[2] = {7, 6, 5, 1, 0}
  OBVIOUS
<1>3. ConfigBytes = (a \o b) \o c
  BY DEF ConfigBytes
<1> HIDE DEF a, b, c
<1> DEFINE d == a \o b
<1>4. /\ d \in Seq(Byte) /\ Len(d) = Len(a) + Len(b)
      /\ \A n \in 1 .. Len(a) : d[n] = a[n]
  BY <1>1, Joined
<1> HIDE DEF d
<1>5. d \in Seq(Byte) /\ Len(d) = 3 /\ d[1] = CMD_PORT_CFG
  BY <1>2, <1>4
<1>6. /\ d \o c \in Seq(Byte) /\ Len(d \o c) = Len(d) + Len(c)
      /\ \A n \in 1 .. Len(d) : (d \o c)[n] = d[n]
      /\ \A n \in 1 .. Len(c) : (d \o c)[n + Len(d)] = c[n]
  <2>1. d \in Seq(Byte)
    BY <1>4
  <2> QED BY <1>1, <2>1, Joined
<1> DEFINE e == d \o c
<1> HIDE DEF e
<1>7. /\ Len(e) = 3 + 2 /\ \A n \in 1 .. 3 : e[n] = d[n]
      /\ \A n \in 1 .. 2 : e[n + 3] = c[n]
  BY <1>2, <1>5, <1>6 DEF e
<1>8. e[1] = d[1] /\ e[1 + 3] = c[1] /\ e[2 + 3] = c[2] /\ Len(e) = 5
  BY <1>7
<1> QED BY <1>2, <1>3, <1>5, <1>6, <1>8 DEF d, e

LEMMA ReleasePacket ==
  /\ Len(ReleaseBytes) = 3 /\ ReleaseBytes[1] = CMD_IR_CODE
  /\ ReleaseBytes[2] = {} /\ ReleaseBytes[3] = {}
BY DEF ReleaseBytes

\* How many of the commands are for the two endpoints, and where the one for endpoint 4 is.
Endpoints(ts, bcas) == IF ts THEN IF bcas THEN 2 ELSE 1 ELSE IF bcas THEN 1 ELSE 0
Ep4At(ts) == IF ts THEN 1 ELSE 0

LEMMA EndpointsAre ==
  ASSUME NEW ts \in BOOLEAN, NEW bcas \in BOOLEAN
  PROVE  /\ Endpoints(ts, bcas) \in Nat /\ Ep4At(ts) \in Nat
         /\ ts => 0 < Endpoints(ts, bcas)
         /\ bcas => Ep4At(ts) < Endpoints(ts, bcas)
         /\ \A a \in 0 .. Endpoints(ts, bcas) :
               a = Endpoints(ts, bcas) \/ (ts /\ a = 0) \/ (bcas /\ a = Ep4At(ts))
BY DEF Endpoints, Ep4At

\* Where the commands for the endpoints are in a packet.
LEMMA ForEndpoints ==
  ASSUME NEW ts \in BOOLEAN, NEW bcas \in BOOLEAN, NEW c6 \in Byte, NEW c4 \in Byte
  PROVE  LET b == Both(ts, bcas, c6, c4) IN
         /\ b \in Seq(Byte) /\ Len(b) = Endpoints(ts, bcas)
         /\ ts => b[1] = c6
         /\ bcas => b[Ep4At(ts) + 1] = c4
<1> DEFINE s == Only(ts, c6)
           t == Only(bcas, c4)
<1>1. s \in Seq(Byte) /\ t \in Seq(Byte)
  BY DEF Only
<1>2. /\ Len(s) = Ep4At(ts) /\ Len(t) = Ep4At(bcas)
      /\ ts => s[1] = c6
      /\ bcas => t[1] = c4
  BY DEF Only, Ep4At
<1> HIDE DEF s, t
<1> DEFINE b == s \o t
<1>3. /\ b \in Seq(Byte) /\ Len(b) = Len(s) + Len(t)
      /\ \A n \in 1 .. Len(s) : b[n] = s[n]
      /\ \A n \in 1 .. Len(t) : b[n + Len(s)] = t[n]
  BY <1>1, Joined
<1> HIDE DEF b
<1>4. Ep4At(ts) + Ep4At(bcas) = Endpoints(ts, bcas)
  BY DEF Ep4At, Endpoints
<1>5. ASSUME ts
      PROVE  b[1] = c6
  <2>1. 1 \in 1 .. Ep4At(ts)
    BY <1>5 DEF Ep4At
  <2> QED BY <1>2, <1>3, <1>5, <2>1
<1>6. ASSUME bcas
      PROVE  b[Ep4At(ts) + 1] = c4
  <2>1. 1 \in 1 .. Ep4At(bcas) /\ 1 + Ep4At(ts) = Ep4At(ts) + 1
    BY <1>6 DEF Ep4At
  <2>2. b[1 + Ep4At(ts)] = t[1]
    BY <1>2, <1>3, <2>1
  <2> QED BY <1>2, <1>6, <2>1, <2>2
<1> QED BY <1>2, <1>3, <1>4, <1>5, <1>6 DEF b, s, t, Both

LEMMA StartPacket ==
  ASSUME NEW ts \in BOOLEAN, NEW bcas \in BOOLEAN
  PROVE  LET b == StartBytes(ts, bcas)
             n == Endpoints(ts, bcas)
         IN  /\ Len(b) = n + 2
             /\ ts => b[1] = CMD_EP6IN_START
             /\ bcas => b[Ep4At(ts) + 1] = CMD_EP4IN_START
             /\ b[n + 1] = CMD_PORT_WRITE /\ b[n + 2] = PIO_START
<1> DEFINE n == Endpoints(ts, bcas)
           s == Started(ts, bcas)
           t == <<CMD_PORT_WRITE, PIO_START>>
<1>1. s \in Seq(Byte) /\ t \in Seq(Byte)
  BY BytesAre, ForEndpoints DEF Started
<1>2. /\ Len(s) = n
      /\ ts => s[1] = CMD_EP6IN_START
      /\ bcas => s[Ep4At(ts) + 1] = CMD_EP4IN_START
  <2>1. CMD_EP6IN_START \in Byte /\ CMD_EP4IN_START \in Byte
    BY BytesAre
  <2> DEFINE b == Both(ts, bcas, CMD_EP6IN_START, CMD_EP4IN_START)
  <2>2. /\ Len(b) = Endpoints(ts, bcas)
        /\ ts => b[1] = CMD_EP6IN_START
        /\ bcas => b[Ep4At(ts) + 1] = CMD_EP4IN_START
    BY <2>1, ForEndpoints
  <2> QED BY <2>2 DEF Started
<1>3. Len(t) = 2 /\ t[1] = CMD_PORT_WRITE /\ t[2] = PIO_START
  OBVIOUS
<1>4. n \in Nat
  BY EndpointsAre
<1>5. ASSUME ts
      PROVE  1 \in 1 .. n
  <2>1. 0 < n
    BY <1>5, EndpointsAre
  <2> HIDE DEF n
  <2> QED BY <1>4, <2>1
<1>6. ASSUME bcas
      PROVE  Ep4At(ts) + 1 \in 1 .. n
  <2>1. Ep4At(ts) < n /\ Ep4At(ts) \in Nat
    BY <1>6, EndpointsAre
  <2> HIDE DEF n
  <2> QED BY <1>4, <2>1
<1> HIDE DEF n, s, t
<1> DEFINE b == s \o t
<1>7. /\ Len(b) = Len(s) + Len(t)
      /\ \A k \in 1 .. Len(s) : b[k] = s[k]
      /\ \A k \in 1 .. Len(t) : b[k + Len(s)] = t[k]
  BY <1>1, Joined
<1> HIDE DEF b
<1>8. /\ Len(b) = n + 2 /\ \A k \in 1 .. n : b[k] = s[k]
      /\ \A k \in 1 .. 2 : b[k + n] = t[k]
  BY <1>2, <1>3, <1>7
<1>9. \A k \in 1 .. 2 : k + n = n + k
  BY <1>4
<1>10. b[n + 1] = t[1] /\ b[n + 2] = t[2]
  BY <1>8, <1>9
<1> QED BY <1>2, <1>3, <1>5, <1>6, <1>8, <1>10 DEF StartBytes, b, n, s, t

LEMMA StopPacket ==
  ASSUME NEW ts \in BOOLEAN, NEW bcas \in BOOLEAN
  PROVE  LET b == StopBytes(ts, bcas)
             n == Endpoints(ts, bcas)
         IN  /\ Len(b) = n + 1
             /\ ts => b[1] = CMD_EP6IN_STOP
             /\ bcas => b[Ep4At(ts) + 1] = CMD_EP4IN_STOP
             /\ b[n + 1] = CMD_MODE_IDLE
<1> DEFINE n == Endpoints(ts, bcas)
           s == Stopped(ts, bcas)
           t == <<CMD_MODE_IDLE>>
<1>1. s \in Seq(Byte) /\ t \in Seq(Byte)
  BY BytesAre, ForEndpoints DEF Stopped
<1>2. /\ Len(s) = n
      /\ ts => s[1] = CMD_EP6IN_STOP
      /\ bcas => s[Ep4At(ts) + 1] = CMD_EP4IN_STOP
  <2>1. CMD_EP6IN_STOP \in Byte /\ CMD_EP4IN_STOP \in Byte
    BY BytesAre
  <2> DEFINE b == Both(ts, bcas, CMD_EP6IN_STOP, CMD_EP4IN_STOP)
  <2>2. /\ Len(b) = Endpoints(ts, bcas)
        /\ ts => b[1] = CMD_EP6IN_STOP
        /\ bcas => b[Ep4At(ts) + 1] = CMD_EP4IN_STOP
    BY <2>1, ForEndpoints
  <2> QED BY <2>2 DEF Stopped
<1>3. Len(t) = 1 /\ t[1] = CMD_MODE_IDLE
  OBVIOUS
<1>4. n \in Nat
  BY EndpointsAre
<1>5. ASSUME ts
      PROVE  1 \in 1 .. n
  <2>1. 0 < n
    BY <1>5, EndpointsAre
  <2> HIDE DEF n
  <2> QED BY <1>4, <2>1
<1>6. ASSUME bcas
      PROVE  Ep4At(ts) + 1 \in 1 .. n
  <2>1. Ep4At(ts) < n /\ Ep4At(ts) \in Nat
    BY <1>6, EndpointsAre
  <2> HIDE DEF n
  <2> QED BY <1>4, <2>1
<1> HIDE DEF n, s, t
<1> DEFINE b == s \o t
<1>7. /\ Len(b) = Len(s) + Len(t)
      /\ \A k \in 1 .. Len(s) : b[k] = s[k]
      /\ \A k \in 1 .. Len(t) : b[k + Len(s)] = t[k]
  BY <1>1, Joined
<1> HIDE DEF b
<1>8. /\ Len(b) = n + 1 /\ \A k \in 1 .. n : b[k] = s[k]
      /\ \A k \in 1 .. 1 : b[k + n] = t[k]
  BY <1>2, <1>3, <1>7
<1>9. \A k \in 1 .. 1 : k + n = n + k
  BY <1>4
<1>10. b[n + 1] = t[1]
  BY <1>8, <1>9
<1> QED BY <1>2, <1>3, <1>5, <1>6, <1>8, <1>10 DEF StopBytes, b, n, s, t

\* The packets of a run can be told by their first byte.
LEMMA FirstBytes ==
  /\ ConfigBytes[1] = CMD_PORT_CFG /\ ReleaseBytes[1] = CMD_IR_CODE
  /\ \A ts, bcas \in BOOLEAN :
        /\ StartBytes(ts, bcas)[1] \in {CMD_EP6IN_START, CMD_EP4IN_START, CMD_PORT_WRITE}
        /\ StopBytes(ts, bcas)[1] \in {CMD_EP6IN_STOP, CMD_EP4IN_STOP, CMD_MODE_IDLE}
<1> SUFFICES ASSUME NEW ts \in BOOLEAN, NEW bcas \in BOOLEAN
             PROVE  /\ StartBytes(ts, bcas)[1] \in
                          {CMD_EP6IN_START, CMD_EP4IN_START, CMD_PORT_WRITE}
                    /\ StopBytes(ts, bcas)[1] \in {CMD_EP6IN_STOP, CMD_EP4IN_STOP, CMD_MODE_IDLE}
  BY ConfigPacket, ReleasePacket
<1>1. ts \/ (~ts /\ bcas /\ Ep4At(ts) + 1 = 1) \/ Endpoints(ts, bcas) + 1 = 1
  BY DEF Endpoints, Ep4At
<1> QED BY <1>1, StartPacket, StopPacket

LEMMA PacketsDiffer ==
  ASSUME NEW ts \in BOOLEAN, NEW bcas \in BOOLEAN
  PROVE  /\ CMD_IR_CODE \notin {ConfigBytes[1], StartBytes(ts, bcas)[1], StopBytes(ts, bcas)[1]}
         /\ ConfigBytes \notin {ReleaseBytes, StartBytes(ts, bcas), StopBytes(ts, bcas)}
         /\ ReleaseBytes \notin {StartBytes(ts, bcas), StopBytes(ts, bcas)}
         /\ \A u, c \in BOOLEAN : StartBytes(ts, bcas) # StopBytes(u, c)
<1>1. /\ {CMD_PORT_CFG} \cap {CMD_IR_CODE, CMD_EP6IN_START, CMD_EP4IN_START, CMD_PORT_WRITE,
                             CMD_EP6IN_STOP, CMD_EP4IN_STOP, CMD_MODE_IDLE} = {}
      /\ {CMD_IR_CODE} \cap {CMD_EP6IN_START, CMD_EP4IN_START, CMD_PORT_WRITE,
                             CMD_EP6IN_STOP, CMD_EP4IN_STOP, CMD_MODE_IDLE} = {}
  BY CodeBits DEF CommandCode
<1>2. {CMD_EP6IN_START, CMD_EP4IN_START, CMD_PORT_WRITE}
           \cap {CMD_EP6IN_STOP, CMD_EP4IN_STOP, CMD_MODE_IDLE} = {}
  BY CodeBits DEF CommandCode
<1>3. /\ ConfigBytes[1] = CMD_PORT_CFG /\ ReleaseBytes[1] = CMD_IR_CODE
      /\ \A u, c \in BOOLEAN :
            /\ StartBytes(u, c)[1] \in {CMD_EP6IN_START, CMD_EP4IN_START, CMD_PORT_WRITE}
            /\ StopBytes(u, c)[1] \in {CMD_EP6IN_STOP, CMD_EP4IN_STOP, CMD_MODE_IDLE}
  BY FirstBytes
<1>4. CMD_IR_CODE \notin {ConfigBytes[1], StartBytes(ts, bcas)[1], StopBytes(ts, bcas)[1]}
  BY <1>1, <1>3
<1>5. ConfigBytes[1] \notin {ReleaseBytes[1], StartBytes(ts, bcas)[1], StopBytes(ts, bcas)[1]}
  BY <1>1, <1>3
<1>6. \A u, c \in BOOLEAN : StartBytes(ts, bcas)[1] # StopBytes(u, c)[1]
  BY <1>2, <1>3
<1>7. \A u, c \in BOOLEAN : StartBytes(ts, bcas) # StopBytes(u, c)
  BY <1>6
<1>8. /\ ConfigBytes \notin {ReleaseBytes, StartBytes(ts, bcas), StopBytes(ts, bcas)}
      /\ ReleaseBytes \notin {StartBytes(ts, bcas), StopBytes(ts, bcas)}
  <2>1. \A x \in {StartBytes(ts, bcas), StopBytes(ts, bcas)} :
           ConfigBytes # x /\ ReleaseBytes # x
    BY <1>4, <1>5, <1>3
  <2>2. ConfigBytes # ReleaseBytes
    BY <1>5
  <2> QED BY <2>1, <2>2
<1> QED BY <1>4, <1>7, <1>8

\* No packet of a run is empty.
LEMMA NotSent ==
  /\ None.bytes # ConfigBytes /\ None.bytes # ReleaseBytes
  /\ \A ts, bcas \in BOOLEAN : /\ None.bytes # StartBytes(ts, bcas)
                               /\ None.bytes # StopBytes(ts, bcas)
<1>1. Len(None.bytes) = 0
  <2>1. None.bytes = << >>
    BY NoneType
  <2> QED BY <2>1
<1>2. Len(ConfigBytes) # 0 /\ Len(ReleaseBytes) # 0
  BY ConfigPacket, ReleasePacket
<1>3. \A ts, bcas \in BOOLEAN : Len(StartBytes(ts, bcas)) # 0 /\ Len(StopBytes(ts, bcas)) # 0
  <2> SUFFICES ASSUME NEW ts \in BOOLEAN, NEW bcas \in BOOLEAN
               PROVE  Len(StartBytes(ts, bcas)) # 0 /\ Len(StopBytes(ts, bcas)) # 0
    OBVIOUS
  <2>1. Endpoints(ts, bcas) + 2 # 0 /\ Endpoints(ts, bcas) + 1 # 0
    BY EndpointsAre
  <2> QED BY <2>1, StartPacket, StopPacket
<1> QED BY <1>1, <1>2, <1>3

\* What is read is of the packet.
LEMMA ReadNext ==
  ASSUME ParseInv, polling, cmd_cnt # 0
  PROVE  /\ at < Len(ep1.bytes) /\ Read(1) = ep1.bytes[at + 1]
         /\ \A j \in Nat : at + j <= Len(ep1.bytes) => Read(j) = ep1.bytes[at + j]
<1> DEFINE m == Len(ep1.bytes)
<1>1. cmd_cnt \in 0 .. 255 /\ at \in Nat /\ at + cmd_cnt = m
  BY DEF ParseInv, TypeOK, DeviceType, PacketOK
<1>2. \A j \in Nat : at + j <= m => Read(j) = ep1.bytes[at + j]
  BY DEF Read
<1> HIDE DEF m
<1>3. at < m /\ at + 1 <= m
  BY <1>1
<1> QED BY <1>2, <1>3 DEF m

\* Where the packets of a run are between two of their commands.
PositionOK ==
    /\ ep1.bytes = ConfigBytes => at \in {0, 3, 5}
    /\ Len(ep1.bytes) = 3 /\ ep1.bytes[1] = CMD_IR_CODE => at \in {0, 3}
    /\ \A ts, bcas \in BOOLEAN :
          ep1.bytes = StartBytes(ts, bcas) => at + 1 # Len(ep1.bytes)

LEMMA ConfigStep ==
  ASSUME ParseInv, PositionOK, Command, ep1.bytes = ConfigBytes
  PROVE  /\ Outputs(reg') = Outputs(reg) /\ reg'.ir_code = reg.ir_code
         /\ \/ at = 0 /\ at' = 3 /\ reg'.val_ifconfig = reg.val_ifconfig
            \/ at = 3 /\ at' = 5 /\ reg'.val_ifconfig = {7, 6, 5, 1, 0}
<1>1. DeviceType /\ polling /\ cmd_cnt # 0
  BY CommandPolls DEF ParseInv, TypeOK
<1>2. /\ at < 5 /\ Read(1) = ConfigBytes[at + 1]
      /\ \A j \in Nat : at + j <= 5 => Read(j) = ConfigBytes[at + j]
  BY <1>1, ReadNext, ConfigPacket
<1>3. at \in {0, 3}
  BY <1>2 DEF PositionOK
<1>4. CASE at = 0
  <2>1. Read(1) = CMD_PORT_CFG
    BY <1>2, <1>4, ConfigPacket
  <2>2. PortCfg
    BY <2>1, DecodedAs
  <2> QED BY <1>1, <1>4, <2>2, ConfigEffects
<1>5. CASE at = 3
  <2>1. Read(1) = CMD_IFCONFIG /\ Read(2) = {7, 6, 5, 1, 0}
    <3>1. Read(1) = ConfigBytes[4]
      BY <1>2, <1>5
    <3>2. Read(2) = ConfigBytes[5]
      BY <1>2, <1>5
    <3> QED BY <3>1, <3>2, ConfigPacket
  <2>2. IfConfig
    BY <2>1, DecodedAs
  <2> QED BY <1>1, <1>5, <2>1, <2>2, ConfigEffects
<1> QED BY <1>3, <1>4, <1>5

LEMMA KeyStep ==
  ASSUME ParseInv, PositionOK, Command, Len(ep1.bytes) = 3, ep1.bytes[1] = CMD_IR_CODE
  PROVE  /\ Outputs(reg') = Outputs(reg) /\ reg'.val_ifconfig = reg.val_ifconfig
         /\ at = 0 /\ at' = 3 /\ reg'.ir_code = <<ep1.bytes[2], ep1.bytes[3]>>
<1>1. DeviceType /\ polling /\ cmd_cnt # 0
  BY CommandPolls DEF ParseInv, TypeOK
<1>2. /\ at < 3 /\ Read(1) = ep1.bytes[at + 1]
      /\ \A j \in Nat : at + j <= 3 => Read(j) = ep1.bytes[at + j]
  BY <1>1, ReadNext
<1>3. at = 0
  BY <1>2 DEF PositionOK
<1>4. Read(1) = CMD_IR_CODE /\ Read(2) = ep1.bytes[2] /\ Read(3) = ep1.bytes[3]
  BY <1>2, <1>3
<1>5. SetIrCode
  BY <1>4, DecodedAs
<1> QED BY <1>1, <1>3, <1>4, <1>5, ConfigEffects

LEMMA StartStep ==
  ASSUME ParseInv, PositionOK, Command, NEW ts \in BOOLEAN, NEW bcas \in BOOLEAN,
         ep1.bytes = StartBytes(ts, bcas)
  PROVE  \/ ts /\ at = 0 /\ Ep6InStart
         \/ bcas /\ at = Ep4At(ts) /\ Ep4InStart
         \/ at = Endpoints(ts, bcas) /\ PortWrite /\ Read(2) = PIO_START
<1> DEFINE b == StartBytes(ts, bcas)
           n == Endpoints(ts, bcas)
<1>1. polling /\ cmd_cnt # 0 /\ at \in Nat
  BY CommandPolls DEF ParseInv, TypeOK, DeviceType
<1>2. /\ at < Len(b) /\ Read(1) = b[at + 1]
      /\ \A j \in Nat : at + j <= Len(b) => Read(j) = b[at + j]
  BY <1>1, ReadNext
<1>3. /\ Len(b) = n + 2 /\ n \in Nat
      /\ ts => b[1] = CMD_EP6IN_START
      /\ bcas => b[Ep4At(ts) + 1] = CMD_EP4IN_START
      /\ b[n + 1] = CMD_PORT_WRITE /\ b[n + 2] = PIO_START
  BY StartPacket, EndpointsAre
<1>4. at < n + 2 /\ at + 1 # n + 2
  BY <1>2, <1>3 DEF PositionOK
<1>5. at \in 0 .. n
  BY <1>1, <1>3, <1>4
<1>6. CASE at = n
  <2>1. Read(1) = b[n + 1]
    BY <1>2, <1>6
  <2>2. Read(2) = b[n + 2]
    BY <1>2, <1>3, <1>6
  <2>3. PortWrite /\ Read(2) = PIO_START
    BY <1>3, <2>1, <2>2, DecodedAs
  <2> QED BY <1>6, <2>3
<1>7. CASE at = 0 /\ ts
  <2>1. Read(1) = b[1]
    <3>1. at + 1 = 1
      BY <1>7
    <3> QED BY <1>2, <3>1
  <2>2. Ep6InStart
    BY <1>3, <1>7, <2>1, DecodedAs
  <2> QED BY <1>7, <2>2
<1>8. CASE at = Ep4At(ts) /\ bcas
  <2>1. Read(1) = CMD_EP4IN_START
    BY <1>2, <1>3, <1>8
  <2> QED BY <1>8, <2>1, DecodedAs
<1> QED BY <1>5, <1>6, <1>7, <1>8, EndpointsAre

LEMMA StopStep ==
  ASSUME ParseInv, Command, NEW ts \in BOOLEAN, NEW bcas \in BOOLEAN,
         ep1.bytes = StopBytes(ts, bcas)
  PROVE  /\ at \in Nat /\ at' = at + 1
         /\ \/ ep1.bytes[at + 1] = CMD_EP6IN_STOP /\ Ep6InStop
            \/ ep1.bytes[at + 1] = CMD_EP4IN_STOP /\ Ep4InStop
            \/ ep1.bytes[at + 1] = CMD_MODE_IDLE /\ ModeIdle
<1> DEFINE b == StopBytes(ts, bcas)
           n == Endpoints(ts, bcas)
<1>1. polling /\ cmd_cnt # 0 /\ at \in Nat /\ DeviceType
  BY CommandPolls DEF ParseInv, TypeOK, DeviceType
<1>2. at < Len(b) /\ Read(1) = b[at + 1]
  BY <1>1, ReadNext
<1>3. /\ Len(b) = n + 1 /\ n \in Nat
      /\ ts => b[1] = CMD_EP6IN_STOP
      /\ bcas => b[Ep4At(ts) + 1] = CMD_EP4IN_STOP
      /\ b[n + 1] = CMD_MODE_IDLE
  BY StopPacket, EndpointsAre
<1>4. at < n + 1
  BY <1>2, <1>3
<1>5. at \in 0 .. n
  BY <1>1, <1>3, <1>4
<1>6. b[at + 1] \in {CMD_EP6IN_STOP, CMD_EP4IN_STOP, CMD_MODE_IDLE}
  <2>1. CASE at = n
    BY <1>3, <2>1
  <2>2. CASE at = 0 /\ ts
    <3>1. at + 1 = 1
      BY <2>2
    <3> QED BY <1>3, <2>2, <3>1
  <2>3. CASE at = Ep4At(ts) /\ bcas
    BY <1>3, <2>3
  <2> QED BY <1>5, <2>1, <2>2, <2>3, EndpointsAre
<1> QED BY <1>1, <1>2, <1>6, DecodedAs, StopEffects DEF b

-----------------------------------------------------------------------------
(* The queue of a run                                                      *)

\* The options of the run.
opt == program.option

\* What a run has put into its queue.
QueueIs ==
    ~program.api =>
        LET bytes == st_cmd_queue.bytes IN
        /\ n_calls \in {0, 4, 5, 9, 13} => bytes = << >>
        /\ n_calls = 1 => bytes = <<CMD_PORT_CFG, {}>>
        /\ n_calls = 2 => bytes = <<CMD_PORT_CFG, {}>> \o <<CMD_MODE_IDLE>>
        /\ n_calls = 3 => bytes = ConfigBytes
        /\ n_calls = 6 => bytes = Only(opt.ts, CMD_EP6IN_START)
        /\ n_calls = 7 => bytes = Started(opt.ts, opt.bcas)
        /\ n_calls = 8 => bytes = StartBytes(opt.ts, opt.bcas)
        /\ n_calls = 10 => bytes = Only(opt.ts, CMD_EP6IN_STOP)
        /\ n_calls = 11 => bytes = Stopped(opt.ts, opt.bcas)
        /\ n_calls = 12 => bytes = StopBytes(opt.ts, opt.bcas)

\* The bytes of a command that are pushed.
Sent(cmd) == SubSeq(cmd, 1, Pushed(cmd) + 1)

LEMMA PushedBytes ==
  /\ Sent(<<CMD_PORT_CFG, {}, PIO_START>>) = <<CMD_PORT_CFG, {}>>
  /\ \A x : Sent(<<CMD_IFCONFIG, x>>) = <<CMD_IFCONFIG, x>>
  /\ \A x : Sent(<<CMD_PORT_WRITE, x>>) = <<CMD_PORT_WRITE, x>>
  /\ \A c \in {CMD_MODE_IDLE, CMD_EP6IN_START, CMD_EP6IN_STOP, CMD_EP4IN_START, CMD_EP4IN_STOP} :
        Sent(<<c>>) = <<c>>
<1>1. ASSUME NEW S, NEW s \in Seq(S), NEW n, n = Len(s)
      PROVE  SubSeq(s, 1, n) = s
  BY <1>1
<1>5. /\ \A a : <<a>> \in Seq({a}) /\ Len(<<a>>) = 1
      /\ \A a, b : <<a, b>> \in Seq({a, b}) /\ Len(<<a, b>>) = 2
  OBVIOUS
<1>6. /\ \A a : SubSeq(<<a>>, 1, 1) = <<a>>
      /\ \A a, b : SubSeq(<<a, b>>, 1, 2) = <<a, b>>
  BY <1>1, <1>5
<1>7. SubSeq(<<CMD_PORT_CFG, {}, PIO_START>>, 1, 2) = <<CMD_PORT_CFG, {}>>
  <2> DEFINE s == <<CMD_PORT_CFG, {}, PIO_START>>
             t == <<CMD_PORT_CFG, {}>>
  <2>1. s \in Seq(Byte) /\ t \in Seq(Byte)
    BY BytesAre
  <2>2. Len(s) = 3 /\ Len(t) = 2 /\ s[1] = t[1] /\ s[2] = t[2]
    OBVIOUS
  <2>3. \A m \in 1 .. 2 : m = 1 \/ m = 2
    OBVIOUS
  <2> HIDE DEF s, t
  <2>4. ASSUME NEW n \in 0 .. Len(s)
        PROVE  /\ SubSeq(s, 1, n) \in Seq(Byte) /\ Len(SubSeq(s, 1, n)) = n
               /\ \A m \in 1 .. n : SubSeq(s, 1, n)[m] = s[m]
    BY <2>1
  <2>5. 2 \in 0 .. Len(s)
    BY <2>2
  <2> DEFINE u == SubSeq(s, 1, 2)
  <2>6. u \in Seq(Byte) /\ Len(u) = 2 /\ \A m \in 1 .. 2 : u[m] = s[m]
    BY <2>4, <2>5
  <2> HIDE DEF u
  <2>7. \A m \in 1 .. 2 : u[m] = t[m]
    BY <2>2, <2>3, <2>6
  <2>8. \A v, w \in Seq(Byte) : Len(v) = Len(w) /\ (\A m \in 1 .. Len(v) : v[m] = w[m]) => v = w
    OBVIOUS
  <2>9. u = t
    BY <2>1, <2>2, <2>6, <2>7, <2>8
  <2> QED BY <2>9 DEF s, t, u
<1>2. Pushed(<<CMD_PORT_CFG, {}, PIO_START>>) + 1 = 2
  BY CodeBits DEF Pushed, CommandCode
<1>3. \A x : Pushed(<<CMD_IFCONFIG, x>>) + 1 = 2 /\ Pushed(<<CMD_PORT_WRITE, x>>) + 1 = 2
  BY CodeBits DEF Pushed, CommandCode
<1>4. \A c \in {CMD_MODE_IDLE, CMD_EP6IN_START, CMD_EP6IN_STOP, CMD_EP4IN_START, CMD_EP4IN_STOP} :
         Pushed(<<c>>) + 1 = 1
  BY CodeBits DEF Pushed, CommandCode
<1> QED BY <1>2, <1>3, <1>4, <1>6, <1>7 DEF Sent

\* How they make its packets.
LEMMA Joins ==
  /\ << >> \o <<CMD_PORT_CFG, {}>> = <<CMD_PORT_CFG, {}>>
  /\ (<<CMD_PORT_CFG, {}>> \o <<CMD_MODE_IDLE>>) \o <<CMD_IFCONFIG, {7, 6, 5, 1, 0}>> = ConfigBytes
  /\ \A cmd : << >> \o <<cmd>> = Only(TRUE, cmd) /\ << >> = Only(FALSE, cmd)
  /\ \A ts : /\ Only(ts, CMD_EP6IN_START) \o <<CMD_EP4IN_START>> = Started(ts, TRUE)
             /\ Only(ts, CMD_EP6IN_START) = Started(ts, FALSE)
             /\ Only(ts, CMD_EP6IN_STOP) \o <<CMD_EP4IN_STOP>> = Stopped(ts, TRUE)
             /\ Only(ts, CMD_EP6IN_STOP) = Stopped(ts, FALSE)
  /\ \A ts, bcas :
        /\ Started(ts, bcas) \o <<CMD_PORT_WRITE, PIO_START>> = StartBytes(ts, bcas)
        /\ Stopped(ts, bcas) \o <<CMD_MODE_IDLE>> = StopBytes(ts, bcas)
<1>1. \A S : \A s \in Seq(S) : << >> \o s = s /\ s \o << >> = s
  OBVIOUS
<1>2. /\ \A a : <<a>> \in Seq({a})
      /\ \A a, b : <<a, b>> \in Seq({a, b})
      /\ \A ts, cmd : Only(ts, cmd) \in Seq({cmd})
  BY DEF Only
<1>3. \A ts : Only(ts, CMD_EP6IN_START) = Started(ts, FALSE)
  BY <1>1, <1>2 DEF Started, Both, Only
<1>4. \A ts : Only(ts, CMD_EP6IN_STOP) = Stopped(ts, FALSE)
  BY <1>1, <1>2 DEF Stopped, Both, Only
<1>5. \A ts : /\ Only(ts, CMD_EP6IN_START) \o <<CMD_EP4IN_START>> = Started(ts, TRUE)
              /\ Only(ts, CMD_EP6IN_STOP) \o <<CMD_EP4IN_STOP>> = Stopped(ts, TRUE)
  BY DEF Started, Stopped, Both, Only
<1>6. \A cmd : << >> \o <<cmd>> = Only(TRUE, cmd) /\ << >> = Only(FALSE, cmd)
  BY <1>1, <1>2 DEF Only
<1>7. << >> \o <<CMD_PORT_CFG, {}>> = <<CMD_PORT_CFG, {}>>
  BY <1>1, <1>2
<1> QED BY <1>3, <1>4, <1>5, <1>6, <1>7 DEF ConfigBytes, StartBytes, StopBytes

\* The calls of this run.
LEMMA RunIs ==
  ASSUME HostType, ~program.api
  PROVE  LET calls == program.calls IN
         /\ opt \in Option /\ opt.ts \in BOOLEAN /\ opt.bcas \in BOOLEAN /\ (opt.ts \/ opt.bcas)
         /\ opt.keys \in Seq(IrCode) /\ opt.setup \in BOOLEAN
         /\ n_calls \in 0 .. (IF opt.setup THEN 13 ELSE 5)
         /\ Len(calls) = IF opt.setup THEN 13 ELSE 5
         /\ n_calls > 5 => opt.setup
         /\ calls[1] = Push(<<CMD_PORT_CFG, {}, PIO_START>>)
         /\ calls[2] = Push(<<CMD_MODE_IDLE>>)
         /\ calls[3] = Push(<<CMD_IFCONFIG, {7, 6, 5, 1, 0}>>)
         /\ calls[4] = Commit
         /\ calls[5] = IrCommit(opt.keys)
         /\ opt.setup =>
              /\ calls[6] = PushIf(opt.ts, <<CMD_EP6IN_START>>)
              /\ calls[7] = PushIf(opt.bcas, <<CMD_EP4IN_START>>)
              /\ calls[8] = Push(<<CMD_PORT_WRITE, PIO_START>>)
              /\ calls[9] = Commit
              /\ calls[10] = PushIf(opt.ts, <<CMD_EP6IN_STOP>>)
              /\ calls[11] = PushIf(opt.bcas, <<CMD_EP4IN_STOP>>)
              /\ calls[12] = Push(<<CMD_MODE_IDLE>>)
              /\ calls[13] = Commit
<1>1. opt \in Option /\ (opt.ts \/ opt.bcas) /\ program.calls = RunProgram(opt).calls
  BY ProgramType DEF HostType, opt
<1>2. /\ opt.ts \in BOOLEAN /\ opt.bcas \in BOOLEAN /\ opt.keys \in Seq(IrCode)
      /\ opt.setup \in BOOLEAN
  BY <1>1 DEF Option
<1>3. Len(program.calls) = IF opt.setup THEN 13 ELSE 5
  BY <1>1, RunCalls
<1>4. n_calls \in 0 .. (IF opt.setup THEN 13 ELSE 5)
  BY <1>3 DEF HostType
<1>5. n_calls > 5 => opt.setup
  BY <1>4
<1> QED BY <1>1, <1>2, <1>3, <1>4, <1>5, RunCalls

\* The call that comes next, by the number of those that have returned.
LEMMA RunCall ==
  ASSUME HostType, ~program.api, NEW op, Calls(op)
  PROVE  LET cmd == program.calls[n_calls + 1].cmd IN
         \/ n_calls = 0 /\ op = "push" /\ cmd = <<CMD_PORT_CFG, {}, PIO_START>>
         \/ n_calls = 1 /\ op = "push" /\ cmd = <<CMD_MODE_IDLE>>
         \/ n_calls = 2 /\ op = "push" /\ cmd = <<CMD_IFCONFIG, {7, 6, 5, 1, 0}>>
         \/ n_calls = 3 /\ op = "commit"
         \/ n_calls = 4 /\ op = "ir_commit" /\ program.calls[n_calls + 1].keys = opt.keys
         \/ n_calls = 5 /\ op = (IF opt.ts THEN "push" ELSE "skip") /\ cmd = <<CMD_EP6IN_START>>
         \/ n_calls = 6 /\ op = (IF opt.bcas THEN "push" ELSE "skip") /\ cmd = <<CMD_EP4IN_START>>
         \/ n_calls = 7 /\ op = "push" /\ cmd = <<CMD_PORT_WRITE, PIO_START>>
         \/ n_calls = 8 /\ op = "commit"
         \/ n_calls = 9 /\ op = (IF opt.ts THEN "push" ELSE "skip") /\ cmd = <<CMD_EP6IN_STOP>>
         \/ n_calls = 10 /\ op = (IF opt.bcas THEN "push" ELSE "skip") /\ cmd = <<CMD_EP4IN_STOP>>
         \/ n_calls = 11 /\ op = "push" /\ cmd = <<CMD_MODE_IDLE>>
         \/ n_calls = 12 /\ op = "commit"
<1> DEFINE calls == program.calls
           cmd == calls[n_calls + 1].cmd
<1>1. n_calls \in 0 .. 12 /\ op = calls[n_calls + 1].op /\ (n_calls > 4 => opt.setup)
  <2>1. /\ Len(calls) = (IF opt.setup THEN 13 ELSE 5) /\ opt.setup \in BOOLEAN
        /\ n_calls \in 0 .. (IF opt.setup THEN 13 ELSE 5)
    BY RunIs
  <2>2. n_calls < (IF opt.setup THEN 13 ELSE 5) /\ op = calls[n_calls + 1].op
    BY <2>1 DEF Calls
  <2> HIDE DEF calls
  <2>3. n_calls \in 0 .. (IF opt.setup THEN 13 ELSE 5) /\ opt.setup \in BOOLEAN
    BY <2>1
  <2> QED BY <2>2, <2>3
<1> HIDE DEF calls
<1>2. ASSUME n_calls = 0
      PROVE  op = "push" /\ cmd = <<CMD_PORT_CFG, {}, PIO_START>>
  <2>1. calls[n_calls + 1] = calls[1]
    BY <1>2
  <2> QED BY <1>1, <1>2, <2>1, RunIs, CallFields DEF calls
<1>3. ASSUME n_calls = 1
      PROVE  op = "push" /\ cmd = <<CMD_MODE_IDLE>>
  <2>1. calls[n_calls + 1] = calls[2]
    BY <1>3
  <2> QED BY <1>1, <1>3, <2>1, RunIs, CallFields DEF calls
<1>4. ASSUME n_calls = 2
      PROVE  op = "push" /\ cmd = <<CMD_IFCONFIG, {7, 6, 5, 1, 0}>>
  <2>1. calls[n_calls + 1] = calls[3]
    BY <1>4
  <2> QED BY <1>1, <1>4, <2>1, RunIs, CallFields DEF calls
<1>5. ASSUME n_calls = 3
      PROVE  op = "commit"
  <2>1. calls[n_calls + 1] = calls[4]
    BY <1>5
  <2> QED BY <1>1, <1>5, <2>1, RunIs, CallFields DEF calls
<1>6. ASSUME n_calls = 4
      PROVE  op = "ir_commit" /\ calls[n_calls + 1].keys = opt.keys
  <2>1. calls[n_calls + 1] = calls[5]
    BY <1>6
  <2> QED BY <1>1, <1>6, <2>1, RunIs, CallFields DEF calls
<1>7. ASSUME n_calls = 5
      PROVE  op = (IF opt.ts THEN "push" ELSE "skip") /\ cmd = <<CMD_EP6IN_START>>
  <2>1. calls[n_calls + 1] = calls[6]
    BY <1>7
  <2> QED BY <1>1, <1>7, <2>1, RunIs, CallFields DEF calls
<1>8. ASSUME n_calls = 6
      PROVE  op = (IF opt.bcas THEN "push" ELSE "skip") /\ cmd = <<CMD_EP4IN_START>>
  <2>1. calls[n_calls + 1] = calls[7]
    BY <1>8
  <2> QED BY <1>1, <1>8, <2>1, RunIs, CallFields DEF calls
<1>9. ASSUME n_calls = 7
      PROVE  op = "push" /\ cmd = <<CMD_PORT_WRITE, PIO_START>>
  <2>1. calls[n_calls + 1] = calls[8]
    BY <1>9
  <2> QED BY <1>1, <1>9, <2>1, RunIs, CallFields DEF calls
<1>10. ASSUME n_calls = 8
      PROVE  op = "commit"
  <2>1. calls[n_calls + 1] = calls[9]
    BY <1>10
  <2> QED BY <1>1, <1>10, <2>1, RunIs, CallFields DEF calls
<1>11. ASSUME n_calls = 9
      PROVE  op = (IF opt.ts THEN "push" ELSE "skip") /\ cmd = <<CMD_EP6IN_STOP>>
  <2>1. calls[n_calls + 1] = calls[10]
    BY <1>11
  <2> QED BY <1>1, <1>11, <2>1, RunIs, CallFields DEF calls
<1>12. ASSUME n_calls = 10
      PROVE  op = (IF opt.bcas THEN "push" ELSE "skip") /\ cmd = <<CMD_EP4IN_STOP>>
  <2>1. calls[n_calls + 1] = calls[11]
    BY <1>12
  <2> QED BY <1>1, <1>12, <2>1, RunIs, CallFields DEF calls
<1>13. ASSUME n_calls = 11
      PROVE  op = "push" /\ cmd = <<CMD_MODE_IDLE>>
  <2>1. calls[n_calls + 1] = calls[12]
    BY <1>13
  <2> QED BY <1>1, <1>13, <2>1, RunIs, CallFields DEF calls
<1>14. ASSUME n_calls = 12
      PROVE  op = "commit"
  <2>1. calls[n_calls + 1] = calls[13]
    BY <1>14
  <2> QED BY <1>1, <1>14, <2>1, RunIs, CallFields DEF calls
<1> QED BY <1>1, <1>2, <1>3, <1>4, <1>5, <1>6, <1>7, <1>8, <1>9, <1>10, <1>11,
          <1>12, <1>13, <1>14 DEF calls

\* What the call that returns does to the queue.
LEMMA QueueMoves ==
  ASSUME HostType, Host, ~NextRun
  PROVE  LET bytes == st_cmd_queue.bytes
             cmd   == program.calls[n_calls + 1].cmd
         IN  /\ program' = program /\ runs' = runs /\ tidy' = tidy
             /\ \/ /\ Calls("push") /\ n_calls' = n_calls + 1
                   /\ st_cmd_queue'.bytes = bytes \o SubSeq(cmd, 1, Pushed(cmd) + 1)
                \/ Calls("skip") /\ n_calls' = n_calls + 1 /\ st_cmd_queue'.bytes = bytes
                \/ Calls("commit") /\ n_calls' = n_calls + 1 /\ st_cmd_queue'.bytes = << >>
                \/ /\ Calls("ir_commit") /\ n_calls' \in {n_calls, n_calls + 1}
                   /\ st_cmd_queue'.bytes = bytes
<1>1. CASE Skip
  BY <1>1 DEF Skip, Return
<1>2. CASE capsts_cmd_push
  BY <1>2 DEF capsts_cmd_push, Return
<1>3. CASE capsts_cmd_commit
  BY <1>3, NoneType DEF capsts_cmd_commit, Return
<1>4. CASE IrTransfer
  BY <1>4 DEF IrTransfer, Return
<1>5. CASE IrReturn
  BY <1>5 DEF IrReturn, Return
<1> QED BY <1>1, <1>2, <1>3, <1>4, <1>5 DEF Host

\* A run builds these packets.
LEMMA QueueStep ==
  ASSUME HostType, QueueIs, Host
  PROVE  QueueIs'
<1>1. CASE NextRun
  BY <1>1, NoneType DEF NextRun, QueueIs
<1>2. CASE ~NextRun
  <2> SUFFICES ASSUME ~program'.api PROVE QueueIs'
    BY DEF QueueIs
  <2> DEFINE bytes == st_cmd_queue.bytes
             cmd == program.calls[n_calls + 1].cmd
             sub == Sent(cmd)
  <2>1. program' = program /\ ~program.api /\ opt' = opt
    BY <1>2, QueueMoves DEF opt
  <2>2. PICK op : /\ Calls(op)
                  /\ \/ op = "push" /\ n_calls' = n_calls + 1 /\ bytes' = bytes \o sub
                     \/ op = "skip" /\ n_calls' = n_calls + 1 /\ bytes' = bytes
                     \/ op = "commit" /\ n_calls' = n_calls + 1 /\ bytes' = << >>
                     \/ op = "ir_commit" /\ n_calls' \in {n_calls, n_calls + 1} /\ bytes' = bytes
    BY <1>2, QueueMoves DEF Sent
  <2>3. opt.ts \in BOOLEAN /\ opt.bcas \in BOOLEAN
    BY <2>1, RunIs
  <2>4. CASE op = "commit"
    <3>1. n_calls \in {3, 8, 12}
      BY <2>1, <2>2, <2>3, <2>4, RunCall
    <3>2. n_calls' \in {4, 9, 13} /\ bytes' = << >>
      BY <2>2, <2>4, <3>1
    <3> QED BY <2>1, <3>2 DEF QueueIs
  <2>5. CASE op = "ir_commit"
    <3>1. n_calls = 4
      BY <2>1, <2>2, <2>3, <2>5, RunCall
    <3>2. n_calls' \in {4, 5} /\ bytes' = bytes /\ bytes = << >>
      BY <2>1, <2>2, <2>5, <3>1 DEF QueueIs
    <3> QED BY <2>1, <3>2 DEF QueueIs
  <2>6. CASE op = "skip" /\ n_calls = 5
    <3>1. opt.ts = FALSE
      BY <2>1, <2>2, <2>3, <2>6, RunCall
    <3>2. n_calls' = 6 /\ bytes' = << >>
      BY <2>1, <2>2, <2>6 DEF QueueIs
    <3>3. << >> = Only(opt.ts, CMD_EP6IN_START)
      BY <3>1, Joins
    <3> QED BY <2>1, <3>2, <3>3 DEF QueueIs
  <2>7. CASE op = "skip" /\ n_calls = 6
    <3>1. opt.bcas = FALSE
      BY <2>1, <2>2, <2>3, <2>7, RunCall
    <3>2. n_calls' = 7 /\ bytes' = Only(opt.ts, CMD_EP6IN_START)
      BY <2>1, <2>2, <2>7 DEF QueueIs
    <3>3. Only(opt.ts, CMD_EP6IN_START) = Started(opt.ts, opt.bcas)
      BY <3>1, Joins
    <3> QED BY <2>1, <3>2, <3>3 DEF QueueIs
  <2>8. CASE op = "skip" /\ n_calls = 9
    <3>1. opt.ts = FALSE
      BY <2>1, <2>2, <2>3, <2>8, RunCall
    <3>2. n_calls' = 10 /\ bytes' = << >>
      BY <2>1, <2>2, <2>8 DEF QueueIs
    <3>3. << >> = Only(opt.ts, CMD_EP6IN_STOP)
      BY <3>1, Joins
    <3> QED BY <2>1, <3>2, <3>3 DEF QueueIs
  <2>9. CASE op = "skip" /\ n_calls = 10
    <3>1. opt.bcas = FALSE
      BY <2>1, <2>2, <2>3, <2>9, RunCall
    <3>2. n_calls' = 11 /\ bytes' = Only(opt.ts, CMD_EP6IN_STOP)
      BY <2>1, <2>2, <2>9 DEF QueueIs
    <3>3. Only(opt.ts, CMD_EP6IN_STOP) = Stopped(opt.ts, opt.bcas)
      BY <3>1, Joins
    <3> QED BY <2>1, <3>2, <3>3 DEF QueueIs
  <2>10. CASE op = "push" /\ n_calls = 0
    <3>1. cmd = <<CMD_PORT_CFG, {}, PIO_START>>
      BY <2>1, <2>2, <2>3, <2>10, RunCall
    <3>2. sub = <<CMD_PORT_CFG, {}>>
      <4> HIDE DEF cmd
      <4> QED BY <3>1, PushedBytes
    <3> HIDE DEF sub
    <3>3. bytes = << >>
      BY <2>1, <2>10 DEF QueueIs
    <3>4. n_calls' = 1 /\ bytes' = bytes \o sub
      BY <2>2, <2>10
    <3> HIDE DEF bytes
    <3>5. << >> \o <<CMD_PORT_CFG, {}>> = <<CMD_PORT_CFG, {}>>
      BY <3>1, Joins
    <3>6. bytes' = <<CMD_PORT_CFG, {}>>
      BY <3>2, <3>3, <3>4, <3>5
    <3> QED BY <2>1, <3>4, <3>6 DEF QueueIs, bytes
  <2>11. CASE op = "push" /\ n_calls = 1
    <3>1. cmd = <<CMD_MODE_IDLE>>
      BY <2>1, <2>2, <2>3, <2>11, RunCall
    <3>2. sub = <<CMD_MODE_IDLE>>
      <4> HIDE DEF cmd
      <4> QED BY <3>1, PushedBytes
    <3> HIDE DEF sub
    <3>3. bytes = <<CMD_PORT_CFG, {}>>
      BY <2>1, <2>11 DEF QueueIs
    <3>4. n_calls' = 2 /\ bytes' = bytes \o sub
      BY <2>2, <2>11
    <3> HIDE DEF bytes
    <3>5. <<CMD_PORT_CFG, {}>> \o <<CMD_MODE_IDLE>> = <<CMD_PORT_CFG, {}>> \o <<CMD_MODE_IDLE>>
      BY <3>1, Joins
    <3>6. bytes' = <<CMD_PORT_CFG, {}>> \o <<CMD_MODE_IDLE>>
      BY <3>2, <3>3, <3>4, <3>5
    <3> QED BY <2>1, <3>4, <3>6 DEF QueueIs, bytes
  <2>12. CASE op = "push" /\ n_calls = 2
    <3>1. cmd = <<CMD_IFCONFIG, {7, 6, 5, 1, 0}>>
      BY <2>1, <2>2, <2>3, <2>12, RunCall
    <3>2. sub = <<CMD_IFCONFIG, {7, 6, 5, 1, 0}>>
      <4> HIDE DEF cmd
      <4> QED BY <3>1, PushedBytes
    <3> HIDE DEF sub
    <3>3. bytes = <<CMD_PORT_CFG, {}>> \o <<CMD_MODE_IDLE>>
      BY <2>1, <2>12 DEF QueueIs
    <3>4. n_calls' = 3 /\ bytes' = bytes \o sub
      BY <2>2, <2>12
    <3> HIDE DEF bytes
    <3>5. (<<CMD_PORT_CFG, {}>> \o <<CMD_MODE_IDLE>>) \o <<CMD_IFCONFIG, {7, 6, 5, 1, 0}>>
             = ConfigBytes
      BY <3>1, Joins
    <3>6. bytes' = ConfigBytes
      BY <3>2, <3>3, <3>4, <3>5
    <3> QED BY <2>1, <3>4, <3>6 DEF QueueIs, bytes
  <2>13. CASE op = "push" /\ n_calls = 5
    <3>1. cmd = <<CMD_EP6IN_START>> /\ opt.ts = TRUE
      BY <2>1, <2>2, <2>3, <2>13, RunCall
    <3>2. sub = <<CMD_EP6IN_START>>
      <4> HIDE DEF cmd
      <4> QED BY <3>1, PushedBytes
    <3> HIDE DEF sub
    <3>3. bytes = << >>
      BY <2>1, <2>13 DEF QueueIs
    <3>4. n_calls' = 6 /\ bytes' = bytes \o sub
      BY <2>2, <2>13
    <3> HIDE DEF bytes
    <3>5. << >> \o <<CMD_EP6IN_START>> = Only(opt.ts, CMD_EP6IN_START)
      BY <3>1, Joins
    <3>6. bytes' = Only(opt.ts, CMD_EP6IN_START)
      BY <3>2, <3>3, <3>4, <3>5
    <3> QED BY <2>1, <3>4, <3>6 DEF QueueIs, bytes
  <2>14. CASE op = "push" /\ n_calls = 6
    <3>1. cmd = <<CMD_EP4IN_START>> /\ opt.bcas = TRUE
      BY <2>1, <2>2, <2>3, <2>14, RunCall
    <3>2. sub = <<CMD_EP4IN_START>>
      <4> HIDE DEF cmd
      <4> QED BY <3>1, PushedBytes
    <3> HIDE DEF sub
    <3>3. bytes = Only(opt.ts, CMD_EP6IN_START)
      BY <2>1, <2>14 DEF QueueIs
    <3>4. n_calls' = 7 /\ bytes' = bytes \o sub
      BY <2>2, <2>14
    <3> HIDE DEF bytes
    <3>5. Only(opt.ts, CMD_EP6IN_START) \o <<CMD_EP4IN_START>> = Started(opt.ts, opt.bcas)
      BY <3>1, Joins
    <3>6. bytes' = Started(opt.ts, opt.bcas)
      BY <3>2, <3>3, <3>4, <3>5
    <3> QED BY <2>1, <3>4, <3>6 DEF QueueIs, bytes
  <2>15. CASE op = "push" /\ n_calls = 7
    <3>1. cmd = <<CMD_PORT_WRITE, PIO_START>>
      BY <2>1, <2>2, <2>3, <2>15, RunCall
    <3>2. sub = <<CMD_PORT_WRITE, PIO_START>>
      <4> HIDE DEF cmd
      <4> QED BY <3>1, PushedBytes
    <3> HIDE DEF sub
    <3>3. bytes = Started(opt.ts, opt.bcas)
      BY <2>1, <2>15 DEF QueueIs
    <3>4. n_calls' = 8 /\ bytes' = bytes \o sub
      BY <2>2, <2>15
    <3> HIDE DEF bytes
    <3>5. Started(opt.ts, opt.bcas) \o <<CMD_PORT_WRITE, PIO_START>>
             = StartBytes(opt.ts, opt.bcas)
      BY <3>1, Joins
    <3>6. bytes' = StartBytes(opt.ts, opt.bcas)
      BY <3>2, <3>3, <3>4, <3>5
    <3> QED BY <2>1, <3>4, <3>6 DEF QueueIs, bytes
  <2>16. CASE op = "push" /\ n_calls = 9
    <3>1. cmd = <<CMD_EP6IN_STOP>> /\ opt.ts = TRUE
      BY <2>1, <2>2, <2>3, <2>16, RunCall
    <3>2. sub = <<CMD_EP6IN_STOP>>
      <4> HIDE DEF cmd
      <4> QED BY <3>1, PushedBytes
    <3> HIDE DEF sub
    <3>3. bytes = << >>
      BY <2>1, <2>16 DEF QueueIs
    <3>4. n_calls' = 10 /\ bytes' = bytes \o sub
      BY <2>2, <2>16
    <3> HIDE DEF bytes
    <3>5. << >> \o <<CMD_EP6IN_STOP>> = Only(opt.ts, CMD_EP6IN_STOP)
      BY <3>1, Joins
    <3>6. bytes' = Only(opt.ts, CMD_EP6IN_STOP)
      BY <3>2, <3>3, <3>4, <3>5
    <3> QED BY <2>1, <3>4, <3>6 DEF QueueIs, bytes
  <2>17. CASE op = "push" /\ n_calls = 10
    <3>1. cmd = <<CMD_EP4IN_STOP>> /\ opt.bcas = TRUE
      BY <2>1, <2>2, <2>3, <2>17, RunCall
    <3>2. sub = <<CMD_EP4IN_STOP>>
      <4> HIDE DEF cmd
      <4> QED BY <3>1, PushedBytes
    <3> HIDE DEF sub
    <3>3. bytes = Only(opt.ts, CMD_EP6IN_STOP)
      BY <2>1, <2>17 DEF QueueIs
    <3>4. n_calls' = 11 /\ bytes' = bytes \o sub
      BY <2>2, <2>17
    <3> HIDE DEF bytes
    <3>5. Only(opt.ts, CMD_EP6IN_STOP) \o <<CMD_EP4IN_STOP>> = Stopped(opt.ts, opt.bcas)
      BY <3>1, Joins
    <3>6. bytes' = Stopped(opt.ts, opt.bcas)
      BY <3>2, <3>3, <3>4, <3>5
    <3> QED BY <2>1, <3>4, <3>6 DEF QueueIs, bytes
  <2>18. CASE op = "push" /\ n_calls = 11
    <3>1. cmd = <<CMD_MODE_IDLE>>
      BY <2>1, <2>2, <2>3, <2>18, RunCall
    <3>2. sub = <<CMD_MODE_IDLE>>
      <4> HIDE DEF cmd
      <4> QED BY <3>1, PushedBytes
    <3> HIDE DEF sub
    <3>3. bytes = Stopped(opt.ts, opt.bcas)
      BY <2>1, <2>18 DEF QueueIs
    <3>4. n_calls' = 12 /\ bytes' = bytes \o sub
      BY <2>2, <2>18
    <3> HIDE DEF bytes
    <3>5. Stopped(opt.ts, opt.bcas) \o <<CMD_MODE_IDLE>> = StopBytes(opt.ts, opt.bcas)
      BY <3>1, Joins
    <3>6. bytes' = StopBytes(opt.ts, opt.bcas)
      BY <3>2, <3>3, <3>4, <3>5
    <3> QED BY <2>1, <3>4, <3>6 DEF QueueIs, bytes
  <2>19. op \in {"skip", "push"} =>
           /\ n_calls \in {0, 1, 2, 5, 6, 7, 9, 10, 11}
           /\ op = "skip" => n_calls \in {5, 6, 9, 10}
    BY <2>1, <2>2, <2>3, RunCall
  <2> QED BY <2>2, <2>4, <2>5, <2>6, <2>7, <2>8, <2>9, <2>10, <2>11,
             <2>12, <2>13, <2>14, <2>15, <2>16, <2>17, <2>18, <2>19
<1> QED BY <1>1, <1>2

-----------------------------------------------------------------------------
(* How a run proceeds                                                      *)

\* While a packet is sent nothing is decoded.
LEMMA Sending ==
  ASSUME DeviceType, NEW packet, Transfer(packet)
  PROVE  ep1 = None /\ ep1' = packet /\ ~polling /\ at = 0 /\ UNCHANGED lost
BY DEF DeviceType, Transfer

\* Its packets are decoded in whole commands.
LEMMA PositionStep ==
  ASSUME ParseInv, PositionOK, [Next]_vars
  PROVE  PositionOK'
<1>1. DeviceType /\ ParseInv
  BY DEF ParseInv, TypeOK
<1>2. ASSUME at' = 0
      PROVE  PositionOK'
  <2>1. ASSUME NEW ts \in BOOLEAN, NEW bcas \in BOOLEAN, ep1'.bytes = StartBytes(ts, bcas)
        PROVE  0 + 1 # Len(ep1'.bytes)
    <3>1. Len(ep1'.bytes) = Endpoints(ts, bcas) + 2
      BY <2>1, StartPacket
    <3>2. 0 + 1 # Endpoints(ts, bcas) + 2
      BY EndpointsAre
    <3> QED BY <3>1, <3>2
  <2> QED BY <1>2, <2>1 DEF PositionOK
<1>3. ASSUME UNCHANGED <<ep1, at>>
      PROVE  PositionOK'
  BY <1>3 DEF PositionOK
<1>4. CASE UNCHANGED vars \/ Host
  <2>1. CASE UNCHANGED vars \/ Skip \/ capsts_cmd_push \/ IrReturn
    BY <1>3, <2>1 DEF vars, poll, Skip, capsts_cmd_push, IrReturn
  <2>2. CASE capsts_cmd_commit
    BY <1>1, <1>2, <1>3, <2>2, Sending DEF capsts_cmd_commit, poll, TransferFails
  <2>3. CASE IrTransfer
    BY <1>1, <1>2, <1>3, <2>3, Sending DEF IrTransfer, poll, TransferFails
  <2>4. CASE NextRun
    BY <1>2, <1>3, <2>4 DEF NextRun, poll
  <2> QED BY <1>4, <2>1, <2>2, <2>3, <2>4 DEF Host
<1>5. CASE PollBegins \/ PollEnds
  BY <1>2, <1>5 DEF PollBegins, PollEnds
<1>6. CASE Command
  <2>1. ep1' = ep1
    BY <1>1, <1>6, CommandPolls, CommandTypeStep
  <2>2. ep1.bytes = ConfigBytes => at' \in {0, 3, 5}
    BY <1>1, <1>6, ConfigStep
  <2>3. Len(ep1.bytes) = 3 /\ ep1.bytes[1] = CMD_IR_CODE => at' \in {0, 3}
    BY <1>1, <1>6, KeyStep
  <2>4. ASSUME NEW ts \in BOOLEAN, NEW bcas \in BOOLEAN, ep1.bytes = StartBytes(ts, bcas)
        PROVE  at' + 1 # Len(ep1.bytes)
    <3> DEFINE n == Endpoints(ts, bcas)
    <3>1. /\ Len(ep1.bytes) = n + 2 /\ n \in Nat /\ Ep4At(ts) \in Nat
          /\ (ts => 0 < n) /\ (bcas => Ep4At(ts) < n)
      BY <2>4, StartPacket, EndpointsAre
    <3>2. \/ ts /\ at = 0 /\ Ep6InStart
          \/ bcas /\ at = Ep4At(ts) /\ Ep4InStart
          \/ at = n /\ PortWrite
      BY <1>1, <1>6, <2>4, StartStep
    <3> HIDE DEF n
    <3>3. CASE ts /\ at = 0 /\ Ep6InStart
      <4>1. at' = 0 + 1 /\ 0 < n
        BY <1>1, <3>1, <3>3, StartEffects
      <4>2. at' + 1 # n + 2
        BY <3>1, <4>1
      <4> QED BY <3>1, <4>2
    <3>4. CASE bcas /\ at = Ep4At(ts) /\ Ep4InStart
      <4>1. at' = Ep4At(ts) + 1 /\ Ep4At(ts) < n
        BY <1>1, <3>1, <3>4, StartEffects
      <4>2. at' + 1 # n + 2
        BY <3>1, <4>1
      <4> QED BY <3>1, <4>2
    <3>5. CASE at = n /\ PortWrite
      <4>1. at' = n + 2
        BY <1>1, <3>5, StartEffects
      <4>2. at' + 1 # n + 2
        BY <3>1, <4>1
      <4> QED BY <3>1, <4>2
    <3> QED BY <3>2, <3>3, <3>4, <3>5
  <2> QED BY <2>1, <2>2, <2>3, <2>4 DEF PositionOK
<1> QED BY <1>4, <1>5, <1>6 DEF Next, TD_Poll

\* A run of tsniff, all of whose transfers have arrived so far.
Run == ~program.api /\ ~lost

\* A key has been pressed that is not released yet; one has been pressed at all.
Pressed == n_calls = 4 /\ n_edges % 2 = 1
Keyed   == (n_calls = 4 /\ n_edges # 0) \/ (n_calls > 4 /\ opt.keys # << >>)

\* What the calls of a run do as long as its transfers arrive.
LEMMA RunMoves ==
  ASSUME TypeOK, QueueIs, Host, ~NextRun, Run'
  PROVE  /\ Run /\ opt' = opt /\ tidy' = tidy /\ UNCHANGED <<poll, reg>>
         /\ \/ /\ n_calls \in {0, 1, 2, 5, 6, 7, 9, 10, 11} /\ n_calls' = n_calls + 1
               /\ ep1' = ep1 /\ n_edges = 0 /\ n_edges' = 0
            \/ /\ n_calls \in {3, 8, 12} /\ n_calls' = n_calls + 1 /\ n_edges = 0 /\ n_edges' = 0
               /\ ep1 = None /\ at = 0 /\ ~polling
               /\ n_calls = 3 => ep1'.bytes = ConfigBytes
               /\ n_calls = 8 => ep1'.bytes = StartBytes(opt.ts, opt.bcas)
               /\ n_calls = 12 => ep1'.bytes = StopBytes(opt.ts, opt.bcas)
            \/ /\ n_calls = 4 /\ n_calls' = 4
               /\ n_edges < 2 * Len(opt.keys) /\ n_edges' = n_edges + 1
               /\ ep1 = None /\ ep1' = Edge(opt.keys, n_edges) /\ at = 0 /\ ~polling
            \/ /\ n_calls = 4 /\ n_calls' = 5 /\ ep1' = ep1
               /\ n_edges = 2 * Len(opt.keys) /\ n_edges' = 0
<1>1. HostType /\ DeviceType
  BY DEF TypeOK
<1>2. program' = program /\ opt' = opt /\ tidy' = tidy /\ UNCHANGED <<poll, reg>>
  BY QueueMoves, <1>1 DEF Host, Skip, capsts_cmd_push, capsts_cmd_commit, IrTransfer, IrReturn, opt
<1>3. ~program.api /\ lost' = FALSE
  BY <1>2 DEF Run
<1>4. opt.ts \in BOOLEAN /\ opt.bcas \in BOOLEAN
  BY <1>1, <1>3, RunIs
<1>5. CASE Skip \/ capsts_cmd_push
  <2>1. Calls("skip") \/ Calls("push")
    BY <1>5 DEF Skip, capsts_cmd_push
  <2>2. n_calls \in {0, 1, 2, 5, 6, 7, 9, 10, 11}
    BY <1>1, <1>3, <1>4, <2>1, RunCall
  <2>3. n_edges = 0
    BY <1>1, <2>1 DEF HostType, Calls
  <2>4. n_calls' = n_calls + 1 /\ ep1' = ep1 /\ n_edges' = n_edges /\ lost' = lost
    BY <1>5 DEF Skip, capsts_cmd_push, Return
  <2> QED BY <1>2, <1>3, <2>2, <2>3, <2>4 DEF Run
<1>6. CASE capsts_cmd_commit
  <2>1. Calls("commit") /\ n_calls' = n_calls + 1 /\ n_edges' = n_edges
    BY <1>6 DEF capsts_cmd_commit, Return
  <2>2. n_calls \in {3, 8, 12}
    BY <1>1, <1>3, <1>4, <2>1, RunCall
  <2>3. n_edges = 0
    BY <1>1, <2>1 DEF HostType, Calls
  <2>4. Transfer(st_cmd_queue)
    BY <1>3, <1>6 DEF capsts_cmd_commit, TransferFails
  <2>5. ep1 = None /\ ep1' = st_cmd_queue /\ ~polling /\ at = 0 /\ UNCHANGED lost
    BY <1>1, <2>4, Sending
  <2>6. /\ n_calls = 3 => st_cmd_queue.bytes = ConfigBytes
        /\ n_calls = 8 => st_cmd_queue.bytes = StartBytes(opt.ts, opt.bcas)
        /\ n_calls = 12 => st_cmd_queue.bytes = StopBytes(opt.ts, opt.bcas)
    BY <1>3 DEF QueueIs
  <2> QED BY <1>2, <1>3, <2>1, <2>2, <2>3, <2>5, <2>6 DEF Run
<1>7. CASE IrTransfer \/ IrReturn
  <2> DEFINE keys == program.calls[n_calls + 1].keys
  <2>1. Calls("ir_commit")
    BY <1>7 DEF IrTransfer, IrReturn
  <2>2. n_calls = 4 /\ keys = opt.keys
    BY <1>1, <1>3, <1>4, <2>1, RunCall
  <2>3. CASE IrTransfer
    <3>1. Transfer(Edge(keys, n_edges)) /\ n_edges' = n_edges + 1 /\ UNCHANGED n_calls
          /\ n_edges < 2 * Len(keys)
      BY <1>3, <2>3 DEF IrTransfer, TransferFails
    <3>2. ep1 = None /\ ep1' = Edge(keys, n_edges) /\ ~polling /\ at = 0 /\ UNCHANGED lost
      BY <1>1, <3>1, Sending
    <3> QED BY <1>2, <1>3, <2>2, <3>1, <3>2 DEF Run
  <2>4. CASE IrReturn
    <3>1. n_edges = 2 * Len(keys) /\ n_edges' = 0 /\ n_calls' = n_calls + 1
          /\ ep1' = ep1 /\ lost' = lost
      BY <2>4 DEF IrReturn, Return
    <3> QED BY <1>2, <1>3, <2>2, <3>1 DEF Run
  <2> QED BY <1>7, <2>3, <2>4
<1> QED BY <1>5, <1>6, <1>7 DEF Host

\* Which packet the device has.
SentOK ==
    Run /\ ep1 # None =>
        /\ n_calls < 4 /\ tidy =>
              \/ ep1.bytes \in {ConfigBytes, ReleaseBytes}
              \/ \E ts, bcas \in BOOLEAN : ep1.bytes = StopBytes(ts, bcas)
        /\ n_calls \in 4 .. 8 /\ ~Keyed => ep1.bytes = ConfigBytes
        /\ Pressed => Len(ep1.bytes) = 3 /\ ep1.bytes[1] = CMD_IR_CODE
        /\ n_calls \in 4 .. 8 /\ Keyed /\ ~Pressed => ep1.bytes = ReleaseBytes
        /\ n_calls \in 9 .. 12 => ep1.bytes = StartBytes(opt.ts, opt.bcas)
        /\ n_calls = 13 => ep1.bytes = StopBytes(opt.ts, opt.bcas)

\* When capsts_ir_cmd_commit returns, the last key has been released.
LEMMA KeysGone ==
  ASSUME TypeOK, Run, n_calls = 4, n_edges = 2 * Len(opt.keys), n_calls' = 5, opt' = opt
  PROVE  ~Pressed /\ ~Pressed' /\ Keyed' = Keyed
<1>1. opt.keys \in Seq(IrCode)
  BY RunIs DEF TypeOK, Run
<1>2. Len(opt.keys) \in Nat /\ (Len(opt.keys) = 0 <=> opt.keys = << >>)
  BY <1>1
<1>3. \A n \in Nat : (2 * n # 0) = (n # 0) /\ (2 * n) % 2 # 1
  OBVIOUS
<1>4. (n_edges # 0) = (opt.keys # << >>)
  BY <1>2, <1>3
<1>5. n_edges % 2 # 1
  BY <1>2, <1>3
<1>6. ~Pressed
  BY <1>5 DEF Pressed
<1>7. ~Pressed'
  BY DEF Pressed
<1>8. Keyed' = (opt.keys # << >>)
  BY DEF Keyed
<1>9. Keyed = (n_edges # 0)
  BY DEF Keyed
<1> QED BY <1>4, <1>6, <1>7, <1>8, <1>9

\* Its transfers press a key and release it in turn.
LEMMA KeyEdge ==
  ASSUME TypeOK, Run, n_calls = 4, n_edges < 2 * Len(opt.keys), n_edges' = n_edges + 1,
         n_calls' = 4, opt' = opt
  PROVE  /\ Pressed' = ~Pressed /\ Keyed'
         /\ Len(Edge(opt.keys, n_edges).bytes) = 3
         /\ Edge(opt.keys, n_edges).bytes[1] = CMD_IR_CODE
         /\ Pressed => Edge(opt.keys, n_edges).bytes = ReleaseBytes
<1>1. opt.keys \in Seq(IrCode) /\ n_edges \in Nat
  BY RunIs DEF TypeOK, Run, HostType
<1>2. \A n \in Nat : (n + 1 # 0) /\ ((n + 1) % 2 = 1) = ~(n % 2 = 1)
  OBVIOUS
<1>3. Pressed' = ~Pressed /\ Keyed'
  BY <1>1, <1>2 DEF Pressed, Keyed
<1>4. /\ Len(Edge(opt.keys, n_edges).bytes) = 3
      /\ Edge(opt.keys, n_edges).bytes[1] = CMD_IR_CODE
  BY <1>1, EdgePacket
<1>5. Pressed => Edge(opt.keys, n_edges).bytes = ReleaseBytes
  BY <1>1, EdgePacket DEF Pressed, ReleaseBytes
<1> QED BY <1>3, <1>4, <1>5

\* A run at its end.
LEMMA Ended ==
  ASSUME TypeOK, Run, n_calls = Len(program.calls)
  PROVE  /\ n_calls = 5 \/ (n_calls = 13 /\ opt.setup)
         /\ ~Pressed
         /\ Keyed = (opt.keys # << >>)
<1>1. n_calls = IF opt.setup THEN 13 ELSE 5
  BY RunIs DEF TypeOK, Run
<1> QED BY <1>1 DEF Pressed, Keyed

\* What the next run of tsniff finds.
LEMMA NextStays ==
  ASSUME TypeOK, NextRun
  PROVE  /\ n_calls' = 0 /\ ~Keyed' /\ ~Pressed'
         /\ \/ /\ UNCHANGED <<ep1, poll, reg>>
               /\ tidy' => tidy /\ Run /\ n_calls = Len(program.calls)
            \/ ep1' = None /\ at' = 0 /\ reg' = Reset
<1>1. n_calls' = 0 /\ n_edges' = 0
  BY DEF NextRun
<1>2. ~Keyed' /\ ~Pressed'
  BY <1>1 DEF Keyed, Pressed
<1>3. tidy \in BOOLEAN /\ lost \in BOOLEAN /\ program.api \in BOOLEAN
  BY ProgramType DEF TypeOK, HostType
<1>4. CASE /\ UNCHANGED <<ep1, poll, reg>>
           /\ tidy' = (tidy /\ n_calls = Len(program.calls) /\ ~program.api /\ ~lost)
  BY <1>1, <1>2, <1>3, <1>4 DEF Run
<1>5. CASE ep1' = None /\ at' = 0 /\ reg' = Reset
  BY <1>1, <1>2, <1>5
<1> QED BY <1>4, <1>5 DEF NextRun

\* The device does not change what the host has done.
LEMMA DeviceKeeps ==
  ASSUME TypeOK, TD_Poll \/ UNCHANGED vars
  PROVE  /\ UNCHANGED host /\ opt' = opt /\ Run' = Run /\ Pressed' = Pressed /\ Keyed' = Keyed
         /\ n_calls' = n_calls /\ tidy' = tidy
<1>1. UNCHANGED host
  <2>1. CASE Command
    BY <2>1, CommandPolls, CommandTypeStep DEF TypeOK
  <2> QED BY <2>1 DEF TD_Poll, PollBegins, PollEnds, vars
<1> QED BY <1>1 DEF host, opt, Run, Pressed, Keyed

LEMMA SentStep ==
  ASSUME TypeOK, QueueIs, SentOK, [Next]_vars
  PROVE  SentOK'
<1>1. CASE TD_Poll \/ UNCHANGED vars
  <2>1. ep1' \in {ep1, None}
    <3>1. CASE Command
      BY <3>1, CommandPolls, CommandTypeStep DEF TypeOK
    <3> QED BY <1>1, <3>1 DEF TD_Poll, PollBegins, PollEnds, Rearm, vars
  <2>2. CASE ep1' = None
    BY <2>2, NoneType DEF SentOK, None
  <2>3. CASE ep1' = ep1
    BY <1>1, <2>3, DeviceKeeps DEF SentOK, host
  <2> QED BY <2>1, <2>2, <2>3
<1>2. CASE NextRun
  <2>1. n_calls' = 0 /\ ~Keyed' /\ ~Pressed'
    BY <1>2, NextStays
  <2>2. ASSUME tidy', ep1' # None
        PROVE  \/ ep1'.bytes \in {ConfigBytes, ReleaseBytes}
               \/ \E ts, bcas \in BOOLEAN : ep1'.bytes = StopBytes(ts, bcas)
    <3>1. ep1' = ep1 /\ tidy /\ Run /\ n_calls = Len(program.calls)
      BY <1>2, <2>2, NextStays
    <3>2. (n_calls = 5 \/ n_calls = 13) /\ ~Pressed
      BY <3>1, Ended
    <3>3. opt.ts \in BOOLEAN /\ opt.bcas \in BOOLEAN
      BY <3>1, RunIs DEF TypeOK, Run
    <3> QED BY <2>2, <3>1, <3>2, <3>3 DEF SentOK
  <2> QED BY <2>1, <2>2 DEF SentOK
<1>3. CASE Host /\ ~NextRun
  <2> SUFFICES ASSUME Run', ep1' # None PROVE SentOK'
    BY DEF SentOK
  <2>1. Run /\ opt' = opt /\ tidy' = tidy
    BY <1>3, RunMoves
  <2>2. CASE n_calls \in {0, 1, 2, 5, 6, 7, 9, 10, 11} /\ n_calls' = n_calls + 1 /\ ep1' = ep1
    <3>1. ~Pressed /\ ~Pressed'
      BY <2>2 DEF Pressed
    <3>2. CASE n_calls \in {0, 1, 2}
      BY <2>1, <2>2, <3>1, <3>2 DEF SentOK
    <3>3. CASE n_calls \in {5, 6, 7}
      <4>1. Keyed' = Keyed
        BY <2>1, <2>2, <3>3 DEF Keyed
      <4> QED BY <2>1, <2>2, <3>1, <3>3, <4>1 DEF SentOK
    <3>4. CASE n_calls \in {9, 10, 11}
      BY <2>1, <2>2, <3>1, <3>4 DEF SentOK
    <3> QED BY <2>2, <3>2, <3>3, <3>4
  <2>3. CASE /\ n_calls \in {3, 8, 12} /\ n_calls' = n_calls + 1 /\ n_edges' = 0
             /\ n_calls = 3 => ep1'.bytes = ConfigBytes
             /\ n_calls = 8 => ep1'.bytes = StartBytes(opt.ts, opt.bcas)
             /\ n_calls = 12 => ep1'.bytes = StopBytes(opt.ts, opt.bcas)
    BY <2>1, <2>3 DEF SentOK, Pressed, Keyed
  <2>4. CASE /\ n_calls = 4 /\ n_calls' = 4
             /\ n_edges < 2 * Len(opt.keys) /\ n_edges' = n_edges + 1
             /\ ep1' = Edge(opt.keys, n_edges)
    <3>1. /\ Pressed' = ~Pressed /\ Keyed' /\ Len(ep1'.bytes) = 3 /\ ep1'.bytes[1] = CMD_IR_CODE
          /\ Pressed => ep1'.bytes = ReleaseBytes
      BY <2>1, <2>4, KeyEdge
    <3>2. ~Pressed' => ep1'.bytes = ReleaseBytes
      BY <3>1
    <3>3. n_calls' = 4 /\ ~(n_calls' < 4) /\ n_calls' \notin 9 .. 12 /\ n_calls' # 13
      BY <2>4
    <3> QED BY <3>1, <3>2, <3>3 DEF SentOK
  <2>5. CASE n_calls = 4 /\ n_calls' = 5 /\ ep1' = ep1 /\ n_edges = 2 * Len(opt.keys)
    <3>2. ~Pressed /\ ~Pressed' /\ Keyed' = Keyed
      BY <2>1, <2>5, KeysGone
    <3> QED BY <2>1, <2>5, <3>2 DEF SentOK
  <2> QED BY <1>3, <2>2, <2>3, <2>4, <2>5, RunMoves
<1> QED BY <1>1, <1>2, <1>3 DEF Next

-----------------------------------------------------------------------------
(* What a run has brought about                                            *)

\* Which packet a run, or the tidy run before it, has sent last.
LEMMA PacketIs ==
  ASSUME ParseInv, SentOK, Run, ep1 # None, tidy \/ n_calls >= 4
  PROVE  \/ n_calls < 9 /\ ep1.bytes = ConfigBytes
         \/ /\ n_calls < 9 /\ Len(ep1.bytes) = 3 /\ ep1.bytes[1] = CMD_IR_CODE
            /\ ~Pressed => ep1.bytes = ReleaseBytes
         \/ n_calls \in 9 .. 12 /\ ep1.bytes = StartBytes(opt.ts, opt.bcas)
         \/ /\ n_calls < 4 /\ tidy
            /\ \E ts, bcas \in BOOLEAN : ep1.bytes = StopBytes(ts, bcas)
         \/ n_calls = 13 /\ ep1.bytes = StopBytes(opt.ts, opt.bcas)
<1>1. n_calls \in 0 .. 13
  <2>1. opt.setup \in BOOLEAN /\ n_calls \in 0 .. (IF opt.setup THEN 13 ELSE 5)
    BY RunIs DEF ParseInv, TypeOK, Run
  <2> QED BY <2>1
<1>2. Len(ReleaseBytes) = 3 /\ ReleaseBytes[1] = CMD_IR_CODE
  BY ReleasePacket
<1>3. CASE n_calls < 4
  <2>1. n_calls < 9
    BY <1>1, <1>3
  <2>2. CASE tidy
    BY <1>2, <1>3, <2>1, <2>2 DEF SentOK
  <2>3. CASE ~tidy
    BY <1>1, <1>3, <2>3
  <2> QED BY <2>2, <2>3
<1>4. CASE n_calls \in 4 .. 8
  BY <1>2, <1>4 DEF SentOK
<1>5. CASE n_calls \in 9 .. 13
  <2>1. n_calls \in 9 .. 12 \/ n_calls = 13
    BY <1>5
  <2> QED BY <2>1 DEF SentOK
<1> QED BY <1>1, <1>3, <1>4, <1>5

\* At the end of the loop the packet has been read.
LEMMA AtItsEnd ==
  ASSUME ParseInv, PollEnds
  PROVE  /\ at = Len(ep1.bytes) /\ UNCHANGED reg
         /\ ep1.bytes # ConfigBytes \/ at = 5
         /\ ep1.bytes # ReleaseBytes \/ at # 0
<1>1. at \in Nat /\ cmd_cnt = 0 /\ at + cmd_cnt = Len(ep1.bytes)
  BY DEF ParseInv, TypeOK, DeviceType, PacketOK, PollEnds
<1>2. at = Len(ep1.bytes)
  BY <1>1
<1>3. ep1.bytes = ConfigBytes => at = 5
  BY <1>2, ConfigPacket
<1>4. ep1.bytes = ReleaseBytes => at # 0
  BY <1>2, ReleasePacket
<1> QED BY <1>2, <1>3, <1>4 DEF PollEnds

\* The clock is set up once a run has committed its first commands, and they are decoded.
IfConfigOK ==
    Run /\ n_calls >= 4 =>
        \/ reg.val_ifconfig = {7, 6, 5, 1, 0}
        \/ ep1.bytes = ConfigBytes /\ at # 5

\* Before the first command of a packet nothing has changed.
LEMMA NoDecoding ==
  ASSUME ParseInv, UNCHANGED vars \/ PollBegins
  PROVE  UNCHANGED <<ep1, at, reg>>
<1>1. CASE PollBegins
  BY <1>1 DEF ParseInv, TypeOK, DeviceType, PollBegins
<1> QED BY <1>1 DEF vars, poll

LEMMA IfConfigStep ==
  ASSUME ParseInv, PositionOK, QueueIs, SentOK, IfConfigOK, [Next]_vars
  PROVE  IfConfigOK'
<1> SUFFICES ASSUME Run', n_calls' >= 4
             PROVE  \/ reg'.val_ifconfig = {7, 6, 5, 1, 0}
                    \/ ep1'.bytes = ConfigBytes /\ at' # 5
  BY DEF IfConfigOK
<1>1. TypeOK /\ DeviceType
  BY DEF ParseInv, TypeOK
<1>2. CASE TD_Poll \/ UNCHANGED vars
  <2>1. Run /\ n_calls >= 4
    BY <1>1, <1>2, DeviceKeeps
  <2>2. CASE UNCHANGED vars \/ PollBegins
    BY <2>1, <2>2, NoDecoding DEF IfConfigOK
  <2>3. CASE PollEnds
    BY <2>1, <2>3, AtItsEnd DEF IfConfigOK
  <2>4. CASE Command
    <3>1. ep1' = ep1 /\ ep1 # None
      BY <1>1, <2>4, CommandPolls, CommandTypeStep DEF DeviceType
    <3>2. CASE ep1.bytes = ConfigBytes
      BY <2>1, <2>4, <3>1, <3>2, ConfigStep DEF IfConfigOK
    <3>3. CASE ep1.bytes # ConfigBytes
      <4>1. reg.val_ifconfig = {7, 6, 5, 1, 0}
        BY <2>1, <3>3 DEF IfConfigOK
      <4>2. CASE Len(ep1.bytes) = 3 /\ ep1.bytes[1] = CMD_IR_CODE
        BY <2>4, <4>1, <4>2, KeyStep
      <4>3. CASE \E ts, bcas \in BOOLEAN : ep1.bytes = StartBytes(ts, bcas)
        BY <1>1, <2>4, <4>1, <4>3, StartStep, StartEffects
      <4>4. CASE \E ts, bcas \in BOOLEAN : ep1.bytes = StopBytes(ts, bcas)
        BY <1>1, <2>4, <4>1, <4>4, StopStep, StopEffects
      <4>5. opt.ts \in BOOLEAN /\ opt.bcas \in BOOLEAN
        BY <1>1, <2>1, RunIs DEF TypeOK, Run
      <4> QED BY <2>1, <3>1, <3>3, <4>2, <4>3, <4>4, <4>5, PacketIs
    <3> QED BY <3>2, <3>3
  <2> QED BY <1>2, <2>2, <2>3, <2>4 DEF TD_Poll
<1>3. CASE NextRun
  BY <1>1, <1>3, NextStays
<1>4. CASE Host /\ ~NextRun
  <2>1. Run /\ UNCHANGED <<poll, reg>>
    BY <1>1, <1>4, RunMoves
  <2>2. ep1 = None => ep1.bytes # ConfigBytes
    BY NotSent
  <2>3. CASE n_calls >= 4
    BY <1>1, <1>4, <2>1, <2>2, <2>3, RunMoves DEF IfConfigOK, poll
  <2>4. CASE n_calls < 4
    <3>1. n_calls = 3 /\ ep1'.bytes = ConfigBytes /\ at' = 0
      BY <1>1, <1>4, <2>1, <2>4, RunMoves DEF poll
    <3> QED BY <3>1
  <2>5. n_calls \in Nat
    BY <1>1 DEF TypeOK, HostType
  <2> QED BY <2>3, <2>4, <2>5
<1> QED BY <1>2, <1>3, <1>4 DEF Next

\* No key is pressed between the presses of a run, unless an earlier process was killed while one
\* was.
KeyOK ==
    Run /\ (tidy \/ Keyed) /\ ~Pressed =>
        \/ reg.ir_code = <<{}, {}>>
        \/ ep1.bytes = ReleaseBytes /\ at = 0

LEMMA KeyOKStep ==
  ASSUME ParseInv, PositionOK, QueueIs, SentOK, KeyOK, [Next]_vars
  PROVE  KeyOK'
<1> SUFFICES ASSUME Run', tidy' \/ Keyed', ~Pressed'
             PROVE  \/ reg'.ir_code = <<{}, {}>>
                    \/ ep1'.bytes = ReleaseBytes /\ at' = 0
  BY DEF KeyOK
<1>1. TypeOK /\ DeviceType
  BY DEF ParseInv, TypeOK
<1>2. CASE TD_Poll \/ UNCHANGED vars
  <2>1. /\ Run /\ (tidy \/ Keyed) /\ ~Pressed
        /\ reg.ir_code = <<{}, {}>> \/ (ep1.bytes = ReleaseBytes /\ at = 0)
    <3>3. /\ Run' = Run /\ Pressed' = Pressed /\ Keyed' = Keyed /\ tidy' = tidy
      BY <1>1, <1>2, DeviceKeeps
    <3>1. Run /\ ~Pressed
      BY <3>3
    <3>2. tidy \/ Keyed
      BY <3>3
    <3> QED BY <3>1, <3>2 DEF KeyOK
  <2>2. CASE UNCHANGED vars \/ PollBegins
    BY <2>1, <2>2, NoDecoding
  <2>3. CASE PollEnds
    BY <2>1, <2>3, AtItsEnd
  <2>4. CASE Command
    <3>1. ep1' = ep1 /\ ep1 # None
      BY <1>1, <2>4, CommandPolls, CommandTypeStep DEF DeviceType
    <3>2. tidy \/ n_calls >= 4
      BY <1>1, <2>1 DEF Keyed, TypeOK, HostType
    <3>3. CASE ep1.bytes = ReleaseBytes
      BY <2>4, <3>3, KeyStep, ReleasePacket
    <3>4. CASE ep1.bytes # ReleaseBytes
      <4>1. reg.ir_code = <<{}, {}>>
        BY <2>1, <3>4
      <4>2. CASE ep1.bytes = ConfigBytes
        BY <2>4, <4>1, <4>2, ConfigStep
      <4>3. CASE \E ts, bcas \in BOOLEAN : ep1.bytes = StartBytes(ts, bcas)
        BY <1>1, <2>4, <4>1, <4>3, StartStep, StartEffects
      <4>4. CASE \E ts, bcas \in BOOLEAN : ep1.bytes = StopBytes(ts, bcas)
        BY <1>1, <2>4, <4>1, <4>4, StopStep, StopEffects
      <4>5. opt.ts \in BOOLEAN /\ opt.bcas \in BOOLEAN
        BY <1>1, <2>1, RunIs DEF TypeOK, Run
      <4> QED BY <2>1, <3>1, <3>2, <3>4, <4>2, <4>3, <4>4, <4>5, PacketIs
    <3> QED BY <3>3, <3>4
  <2> QED BY <1>2, <2>2, <2>3, <2>4 DEF TD_Poll
<1>3. CASE NextRun
  <2>1. tidy' /\ ~Keyed'
    BY <1>1, <1>3, NextStays
  <2>2. CASE reg' = Reset
    BY <2>2 DEF Reset
  <2>3. CASE reg' # Reset
    <3>1. UNCHANGED <<ep1, poll, reg>> /\ tidy /\ Run /\ n_calls = Len(program.calls)
      BY <1>1, <1>3, <2>1, <2>3, NextStays
    <3>2. ~Pressed
      BY <1>1, <3>1, Ended
    <3> QED BY <3>1, <3>2 DEF KeyOK, poll
  <2> QED BY <2>2, <2>3
<1>4. CASE Host /\ ~NextRun
  <2>1. Run /\ opt' = opt /\ tidy' = tidy /\ UNCHANGED <<poll, reg>>
    BY <1>1, <1>4, RunMoves
  <2>2. ep1 = None => ep1.bytes # ReleaseBytes
    BY NotSent
  <2>3. ASSUME (tidy \/ Keyed) /\ ~Pressed, ep1' = ep1 \/ ep1 = None
        PROVE  \/ reg'.ir_code = <<{}, {}>>
               \/ ep1'.bytes = ReleaseBytes /\ at' = 0
    BY <2>1, <2>2, <2>3 DEF KeyOK, poll
  <2>4. CASE n_calls = 4 /\ n_calls' = 5 /\ ep1' = ep1 /\ n_edges = 2 * Len(opt.keys)
    <3>1. ~Pressed /\ Keyed' = Keyed
      BY <1>1, <2>1, <2>4, KeysGone
    <3> QED BY <2>1, <2>3, <2>4, <3>1
  <2>5. CASE /\ n_calls = 4 /\ n_calls' = 4
             /\ n_edges < 2 * Len(opt.keys) /\ n_edges' = n_edges + 1
             /\ ep1' = Edge(opt.keys, n_edges) /\ at = 0
    <3>1. ep1'.bytes = ReleaseBytes
      BY <1>1, <2>1, <2>5, KeyEdge
    <3> QED BY <2>1, <2>5, <3>1 DEF poll
  <2>6. CASE /\ n_calls \in {0, 1, 2, 3} /\ n_calls' = n_calls + 1 /\ n_edges' = 0
             /\ ep1' = ep1 \/ ep1 = None
    <3>1. ~Keyed' /\ ~Pressed
      BY <2>6 DEF Keyed, Pressed
    <3> QED BY <2>1, <2>3, <2>6, <3>1
  <2>7. CASE /\ n_calls \in {5, 6, 7, 8, 9, 10, 11, 12} /\ n_calls' = n_calls + 1
             /\ ep1' = ep1 \/ ep1 = None
    <3>1. Keyed' = Keyed /\ ~Pressed
      BY <2>1, <2>7 DEF Keyed, Pressed
    <3> QED BY <2>1, <2>3, <2>7, <3>1
  <2> QED BY <1>1, <1>4, <2>4, <2>5, <2>6, <2>7, RunMoves
<1> QED BY <1>2, <1>3, <1>4 DEF Next

\* A command that a stop has sent and that is not decoded yet.
Coming(cmd) ==
    /\ \E ts, bcas \in BOOLEAN : ep1.bytes = StopBytes(ts, bcas)
    /\ \E j \in at + 1 .. Len(ep1.bytes) : ep1.bytes[j] = cmd

Off6 == reg.ep6 => Coming(CMD_EP6IN_STOP)
Off4 == reg.ep4 => Coming(CMD_EP4IN_STOP)
Off  == reg.IOD \cap ModeBits = MODE_IDLE \/ Coming(CMD_MODE_IDLE)

\* What is sending, in the course of a run, that the run has not started or has stopped.
StoppedOK ==
    Run =>
        /\ tidy /\ n_calls < 9 => Off6 /\ Off4 /\ Off
        /\ tidy /\ n_calls \in 9 .. 12 => (reg.ep6 => opt.ts) /\ (reg.ep4 => opt.bcas)
        /\ n_calls = 13 => /\ tidy \/ opt.ts => Off6
                           /\ tidy \/ opt.bcas => Off4
                           /\ Off

LEMMA OffStays ==
  ASSUME UNCHANGED <<ep1, at, reg>>
  PROVE  Off6' = Off6 /\ Off4' = Off4 /\ Off' = Off
<1>1. \A cmd : Coming(cmd)' = Coming(cmd)
  BY DEF Coming
<1> QED BY <1>1 DEF Off6, Off4, Off

\* Nothing is to come from any other packet, nor from one that is through.
LEMMA NotComing ==
  ASSUME NEW cmd,
         \/ ep1 = None \/ ep1.bytes = ConfigBytes
         \/ ep1.bytes[1] = CMD_IR_CODE
         \/ at = Len(ep1.bytes) /\ at \in Nat
  PROVE  ~Coming(cmd)
<1>1. CASE at = Len(ep1.bytes) /\ at \in Nat
  <2>1. \A n \in Nat : n + 1 .. n = {}
    OBVIOUS
  <2> QED BY <1>1, <2>1 DEF Coming
<1>2. CASE ep1 = None \/ ep1.bytes = ConfigBytes \/ ep1.bytes[1] = CMD_IR_CODE
  BY <1>2, NotSent, PacketsDiffer DEF Coming
<1> QED BY <1>1, <1>2

\* A command that is decoded has had its effect, the others are still to come.
LEMMA StaysComing ==
  ASSUME ParseInv, Command, NEW ts \in BOOLEAN, NEW bcas \in BOOLEAN,
         ep1.bytes = StopBytes(ts, bcas), NEW cmd, Coming(cmd), ep1.bytes[at + 1] # cmd
  PROVE  Coming(cmd)'
<1>1. ep1' = ep1 /\ at \in Nat /\ at' = at + 1
  BY StopStep, CommandPolls, CommandTypeStep DEF ParseInv, TypeOK
<1>2. PICK j \in at + 1 .. Len(ep1.bytes) : ep1.bytes[j] = cmd
  BY DEF Coming
<1>3. Len(ep1.bytes) \in Nat
  BY StopPacket, EndpointsAre
<1>4. j # at + 1
  BY <1>2
<1>5. j \in at' + 1 .. Len(ep1.bytes)
  BY <1>1, <1>3, <1>4
<1> QED BY <1>1, <1>2, <1>5 DEF Coming

\* A stop is carried out.
LEMMA StopOff ==
  ASSUME ParseInv, Command, NEW ts \in BOOLEAN, NEW bcas \in BOOLEAN,
         ep1.bytes = StopBytes(ts, bcas)
  PROVE  (Off6 => Off6') /\ (Off4 => Off4') /\ (Off => Off')
<1> DEFINE c == ep1.bytes[at + 1]
<1>1. DeviceType /\ reg \in Registers
  BY DEF ParseInv, TypeOK, DeviceType
<1>2. /\ {CMD_EP6IN_STOP} \cap {CMD_EP4IN_STOP, CMD_MODE_IDLE} = {}
      /\ {CMD_EP4IN_STOP} \cap {CMD_MODE_IDLE} = {}
  BY CodeBits DEF CommandCode
<1>3. CASE c = CMD_EP6IN_STOP /\ Ep6InStop
  BY <1>1, <1>2, <1>3, StopEffects, StaysComing DEF Off6, Off4, Off
<1>4. CASE c = CMD_EP4IN_STOP /\ Ep4InStop
  BY <1>1, <1>2, <1>4, StopEffects, StaysComing DEF Off6, Off4, Off
<1>5. CASE c = CMD_MODE_IDLE /\ ModeIdle
  BY <1>1, <1>2, <1>5, StopEffects, StaysComing DEF Off6, Off4, Off
<1> QED BY <1>3, <1>4, <1>5, StopStep

\* The commands of the other packets of a run do not start anything.
LEMMA OtherOff ==
  ASSUME ParseInv, PositionOK, Command,
         ep1.bytes = ConfigBytes \/ (Len(ep1.bytes) = 3 /\ ep1.bytes[1] = CMD_IR_CODE)
  PROVE  (Off6 => Off6') /\ (Off4 => Off4') /\ (Off => Off')
<1>1. Outputs(reg') = Outputs(reg)
  BY ConfigStep, KeyStep
<1>2. \A cmd : ~Coming(cmd)
  BY NotComing
<1> QED BY <1>1, <1>2 DEF Outputs, Off6, Off4, Off

LEMMA StoppedStep ==
  ASSUME ParseInv, PositionOK, QueueIs, SentOK, StoppedOK, [Next]_vars
  PROVE  StoppedOK'
<1> SUFFICES ASSUME Run'
             PROVE  /\ tidy' /\ n_calls' < 9 => Off6' /\ Off4' /\ Off'
                    /\ tidy' /\ n_calls' \in 9 .. 12 =>
                          (reg'.ep6 => opt'.ts) /\ (reg'.ep4 => opt'.bcas)
                    /\ n_calls' = 13 => /\ tidy' \/ opt'.ts => Off6'
                                        /\ tidy' \/ opt'.bcas => Off4'
                                        /\ Off'
  BY DEF StoppedOK
<1>1. TypeOK /\ DeviceType /\ HostType /\ reg \in Registers
  BY DEF ParseInv, TypeOK, DeviceType
<1>2. CASE TD_Poll \/ UNCHANGED vars
  <2>1. Run /\ opt' = opt /\ n_calls' = n_calls /\ tidy' = tidy
    BY <1>1, <1>2, DeviceKeeps
  <2>2. opt.ts \in BOOLEAN /\ opt.bcas \in BOOLEAN
    BY <1>1, <2>1, RunIs DEF Run
  <2>3. ASSUME (Off6 => Off6') /\ (Off4 => Off4') /\ (Off => Off'),
               \/ n_calls \notin 9 .. 12
               \/ (reg'.ep6 => reg.ep6 \/ opt.ts) /\ (reg'.ep4 => reg.ep4 \/ opt.bcas)
        PROVE  StoppedOK'
    <3>1. CASE tidy
      BY <2>1, <2>3, <3>1 DEF StoppedOK
    <3>2. CASE ~tidy
      BY <2>1, <2>3, <3>2 DEF StoppedOK
    <3> QED BY <3>1, <3>2
  <2>4. CASE UNCHANGED vars \/ PollBegins
    <3>1. UNCHANGED <<ep1, at, reg>>
      BY <2>4, NoDecoding
    <3> QED BY <2>3, <3>1, OffStays DEF StoppedOK
  <2>5. CASE PollEnds
    <3>1. \A cmd : ~Coming(cmd)
      BY <1>1, <2>5, AtItsEnd, NotComing DEF DeviceType
    <3>2. UNCHANGED reg
      BY <2>5, AtItsEnd
    <3> QED BY <2>3, <3>1, <3>2 DEF StoppedOK, Off6, Off4, Off
  <2>6. CASE Command
    <3>1. ep1' = ep1 /\ ep1 # None
      BY <1>1, <2>6, CommandPolls, CommandTypeStep DEF DeviceType
    <3>2. n_calls \in Nat
      BY <1>1 DEF HostType
    <3>3. CASE ~tidy /\ n_calls # 13
      BY <2>1, <3>3
    <3>4. CASE n_calls \in 9 .. 12 /\ ep1.bytes = StartBytes(opt.ts, opt.bcas)
      <4>1. \/ opt.ts /\ Ep6InStart
            \/ opt.bcas /\ Ep4InStart
            \/ PortWrite
        BY <1>1, <2>2, <2>6, <3>4, StartStep
      <4>2. (reg'.ep6 => reg.ep6 \/ opt.ts) /\ (reg'.ep4 => reg.ep4 \/ opt.bcas)
        BY <1>1, <4>1, StartEffects
      <4>3. n_calls' \in 9 .. 12 /\ ~(n_calls' < 9) /\ n_calls' # 13
        BY <2>1, <3>4
      <4> QED BY <2>1, <3>4, <4>2, <4>3 DEF StoppedOK
    <3>5. CASE /\ n_calls \notin 9 .. 12
               /\ \/ ep1.bytes = ConfigBytes
                  \/ Len(ep1.bytes) = 3 /\ ep1.bytes[1] = CMD_IR_CODE
      BY <2>3, <2>6, <3>5, OtherOff DEF StoppedOK
    <3>6. CASE n_calls \notin 9 .. 12 /\ \E ts, bcas \in BOOLEAN : ep1.bytes = StopBytes(ts, bcas)
      BY <2>3, <2>6, <3>6, StopOff DEF StoppedOK
    <3>7. CASE tidy \/ n_calls = 13
      <4>1. /\ n_calls < 9 => n_calls \notin 9 .. 12
            /\ n_calls < 4 => n_calls \notin 9 .. 12
            /\ n_calls = 13 => n_calls \notin 9 .. 12 /\ n_calls >= 4
        BY <3>2
      <4> QED BY <2>1, <2>2, <3>1, <3>4, <3>5, <3>6, <3>7, <4>1, PacketIs
    <3> QED BY <3>3, <3>7
  <2> QED BY <1>2, <2>4, <2>5, <2>6 DEF TD_Poll, StoppedOK
<1>3. CASE NextRun
  <2>1. n_calls' = 0
    BY <1>1, <1>3, NextStays
  <2>2. ASSUME tidy', reg' = Reset
        PROVE  Off6' /\ Off4' /\ Off'
    BY <2>2 DEF Off6, Off4, Off, Reset, MODE_IDLE
  <2>3. ASSUME tidy', reg' # Reset
        PROVE  Off6' /\ Off4' /\ Off'
    <3>1. UNCHANGED <<ep1, poll, reg>> /\ tidy /\ Run /\ n_calls = Len(program.calls)
      BY <1>1, <1>3, <2>3, NextStays
    <3>2. n_calls = 5 \/ n_calls = 13
      BY <1>1, <3>1, Ended
    <3>3. Off6 /\ Off4 /\ Off
      <4>1. CASE n_calls = 5
        BY <3>1, <4>1 DEF StoppedOK
      <4>2. CASE n_calls = 13
        BY <3>1, <4>2 DEF StoppedOK
      <4> QED BY <3>2, <4>1, <4>2
    <3> QED BY <3>1, <3>3, OffStays DEF poll
  <2> QED BY <2>1, <2>2, <2>3
<1>4. CASE Host /\ ~NextRun
  <2>1. Run /\ opt' = opt /\ tidy' = tidy /\ UNCHANGED <<poll, reg>>
    BY <1>1, <1>4, RunMoves
  <2>2. opt.ts \in BOOLEAN /\ opt.bcas \in BOOLEAN
    BY <1>1, <2>1, RunIs DEF Run
  <2>3. CASE /\ n_calls \in {0, 1, 2, 4, 5, 6, 7} /\ n_calls' \in {n_calls, n_calls + 1}
             /\ ep1' = ep1
    <3>1. Off6' = Off6 /\ Off4' = Off4 /\ Off' = Off
      BY <2>1, <2>3, OffStays DEF poll
    <3> QED BY <2>1, <2>3, <3>1 DEF StoppedOK
  <2>4. CASE n_calls \in {9, 10, 11} /\ n_calls' = n_calls + 1
    BY <2>1, <2>4 DEF StoppedOK
  <2>5. CASE n_calls \in {3, 4} /\ n_calls' \in {n_calls, n_calls + 1} /\ ep1 = None
    <3>1. \A cmd : ~Coming(cmd)
      BY <2>5, NotComing
    <3> QED BY <2>1, <2>5, <3>1 DEF StoppedOK, Off6, Off4, Off
  <2>6. CASE n_calls = 8 /\ n_calls' = 9 /\ ep1 = None
    <3>1. \A cmd : ~Coming(cmd)
      BY <2>6, NotComing
    <3> QED BY <2>1, <2>6, <3>1 DEF StoppedOK, Off6, Off4
  <2>7. CASE /\ n_calls = 12 /\ n_calls' = 13 /\ at = 0
             /\ ep1'.bytes = StopBytes(opt.ts, opt.bcas)
    <3>1. /\ opt.ts => Coming(CMD_EP6IN_STOP)'
          /\ opt.bcas => Coming(CMD_EP4IN_STOP)'
          /\ Coming(CMD_MODE_IDLE)'
      <4> DEFINE b == StopBytes(opt.ts, opt.bcas)
                 n == Endpoints(opt.ts, opt.bcas)
                 e == Ep4At(opt.ts)
      <4>1. /\ Len(b) = n + 1 /\ n \in Nat
            /\ opt.ts => b[1] = CMD_EP6IN_STOP
            /\ opt.bcas => b[e + 1] = CMD_EP4IN_STOP
            /\ b[n + 1] = CMD_MODE_IDLE
            /\ e \in Nat /\ (opt.bcas => e < n)
        BY <2>2, StopPacket, EndpointsAre
      <4> HIDE DEF n, e
      <4>2. /\ 1 \in 0 + 1 .. n + 1 /\ n + 1 \in 0 + 1 .. n + 1
            /\ opt.bcas => e + 1 \in 0 + 1 .. n + 1
        BY <4>1
      <4>3. at' = 0 /\ ep1'.bytes = b
        BY <2>1, <2>7 DEF poll
      <4>4. \A cmd : (\E j \in 0 + 1 .. n + 1 : b[j] = cmd) => Coming(cmd)'
        BY <2>2, <4>1, <4>3 DEF Coming
      <4> QED BY <4>1, <4>2, <4>4
    <3>2. tidy => (reg.ep6 => opt.ts) /\ (reg.ep4 => opt.bcas)
      BY <2>1, <2>7 DEF StoppedOK
    <3> QED BY <2>1, <2>7, <3>1, <3>2 DEF StoppedOK, Off6, Off4, Off
  <2> QED BY <1>1, <1>4, <2>3, <2>4, <2>5, <2>6, <2>7, RunMoves
<1> QED BY <1>2, <1>3, <1>4 DEF Next

\* What the commands of the start that are decoded have done.
StartedOK ==
    Run /\ n_calls \in 9 .. 12 /\ ep1 # None /\ at > 0 =>
        /\ opt.ts => reg.ep6
        /\ opt.bcas /\ (opt.ts => at > 1) => reg.ep4
        /\ reg.IFCONFIG = {7, 6, 5, 1, 0}
        /\ at < Len(ep1.bytes) \/ addr_mask \cap ModeBits = {} =>
              reg.IOD \cap ModeBits = MODE_START

LEMMA StartedStep ==
  ASSUME ParseInv, PositionOK, QueueIs, SentOK, IfConfigOK, StartedOK, [Next]_vars
  PROVE  StartedOK'
<1> SUFFICES ASSUME Run', n_calls' \in 9 .. 12, ep1' # None, at' > 0
             PROVE  StartedOK'
  BY DEF StartedOK
<1>1. TypeOK /\ DeviceType /\ HostType /\ reg \in Registers /\ at \in Nat
  BY DEF ParseInv, TypeOK, DeviceType
<1>2. CASE TD_Poll \/ UNCHANGED vars
  <2>1. Run /\ opt' = opt /\ n_calls' = n_calls
    BY <1>1, <1>2, DeviceKeeps
  <2>2. opt.ts \in BOOLEAN /\ opt.bcas \in BOOLEAN /\ (opt.ts \/ opt.bcas)
    BY <1>1, <2>1, RunIs DEF Run
  <2>3. CASE UNCHANGED vars
    BY <2>1, <2>3 DEF StartedOK, vars, poll
  <2>4. CASE PollBegins \/ PollEnds
    BY <2>4 DEF PollBegins, PollEnds
  <2>5. CASE Command
    <3> DEFINE n == Endpoints(opt.ts, opt.bcas)
    <3>1. ep1' = ep1 /\ ep1 # None
      BY <1>1, <2>5, CommandPolls, CommandTypeStep DEF DeviceType
    <3>2. ep1.bytes = StartBytes(opt.ts, opt.bcas)
      BY <2>1, <3>1 DEF SentOK
    <3>3. reg.val_ifconfig = {7, 6, 5, 1, 0}
      <4>1. ep1.bytes # ConfigBytes
        BY <2>2, <3>2, PacketsDiffer
      <4> QED BY <2>1, <4>1 DEF IfConfigOK
    <3>4. /\ Len(ep1.bytes) = n + 2 /\ n \in Nat /\ n > 0
          /\ Ep4At(opt.ts) = IF opt.ts THEN 1 ELSE 0
          /\ opt.ts /\ opt.bcas => n = 2
      BY <2>2, <3>2, StartPacket, EndpointsAre DEF Endpoints, Ep4At
    <3> HIDE DEF n
    <3>5. CASE opt.ts /\ at = 0 /\ Ep6InStart
      <4>1. /\ at' = at + 1 /\ reg'.ep6 = TRUE /\ reg'.IFCONFIG = reg.val_ifconfig
            /\ reg'.IOD \cap ModeBits = MODE_START
        BY <1>1, <3>5, StartEffects
      <4>2. ~(at' > 1)
        BY <3>5, <4>1
      <4> QED BY <2>1, <3>3, <3>5, <4>1, <4>2 DEF StartedOK
    <3>6. CASE opt.bcas /\ at = Ep4At(opt.ts) /\ Ep4InStart
      <4>1. opt.ts => reg.ep6
        BY <2>1, <3>1, <3>4, <3>6 DEF StartedOK
      <4> QED BY <1>1, <2>1, <3>3, <3>6, <4>1, StartEffects DEF StartedOK
    <3>7. CASE at = n /\ PortWrite /\ Read(2) = PIO_START
      <4>1. at > 0 /\ at < Len(ep1.bytes) /\ (opt.ts /\ opt.bcas => at > 1)
        BY <3>4, <3>7
      <4>2. /\ opt.ts => reg.ep6
            /\ opt.bcas => reg.ep4
            /\ reg.IFCONFIG = {7, 6, 5, 1, 0} /\ reg.IOD \cap ModeBits = MODE_START
        BY <2>1, <2>2, <3>1, <4>1 DEF StartedOK
      <4>3. /\ reg'.ep6 = reg.ep6 /\ reg'.ep4 = reg.ep4 /\ reg'.IFCONFIG = reg.IFCONFIG
            /\ addr_mask' = addr_mask /\ at' = n + 2
            /\ addr_mask \cap ModeBits = {} => reg'.IOD \cap ModeBits = reg.IOD \cap ModeBits
        BY <1>1, <3>7, StartEffects
      <4>4. ~(at' < Len(ep1'.bytes))
        BY <3>1, <3>4, <4>3
      <4> QED BY <2>1, <4>2, <4>3, <4>4 DEF StartedOK
    <3>8. \/ opt.ts /\ at = 0 /\ Ep6InStart
          \/ opt.bcas /\ at = Ep4At(opt.ts) /\ Ep4InStart
          \/ at = n /\ PortWrite /\ Read(2) = PIO_START
      BY <2>2, <2>5, <3>2, StartStep DEF n
    <3> QED BY <3>5, <3>6, <3>7, <3>8
  <2> QED BY <1>2, <2>3, <2>4, <2>5 DEF TD_Poll
<1>3. CASE NextRun
  BY <1>1, <1>3, NextStays
<1>4. CASE Host /\ ~NextRun
  <2>1. Run /\ opt' = opt /\ UNCHANGED <<poll, reg>>
    BY <1>1, <1>4, RunMoves
  <2>2. n_calls \in {9, 10, 11} /\ ep1' = ep1
    <3>1. at # 0
      BY <2>1 DEF poll
    <3> QED BY <1>1, <1>4, <3>1, RunMoves
  <2> QED BY <2>1, <2>2 DEF StartedOK, poll
<1> QED BY <1>2, <1>3, <1>4 DEF Next

\* What a run has brought about; together with ParseInv it is inductive.
RunInv ==
    PositionOK /\ QueueIs /\ SentOK /\ IfConfigOK /\ KeyOK /\ StoppedOK /\ StartedOK

LEMMA RunInit == Init => RunInv
<1> SUFFICES ASSUME Init PROVE RunInv
  OBVIOUS
<1>1. /\ n_calls = 0 /\ n_edges = 0 /\ st_cmd_queue.bytes = << >>
      /\ ep1 = None /\ at = 0 /\ reg = Reset
  BY NoneType DEF Init, Idle
<1>2. PositionOK
  <2>1. /\ None.bytes = << >> /\ Len(None.bytes) = 0
    BY NoneType
  <2> QED BY <1>1, <2>1, NotSent DEF PositionOK
<1>3. QueueIs /\ SentOK /\ IfConfigOK /\ StartedOK
  BY <1>1 DEF QueueIs, SentOK, IfConfigOK, StartedOK
<1>4. KeyOK
  BY <1>1 DEF KeyOK, Reset
<1>5. StoppedOK
  BY <1>1 DEF StoppedOK, Off6, Off4, Off, Reset, MODE_IDLE
<1> QED BY <1>2, <1>3, <1>4, <1>5 DEF RunInv

LEMMA RunNext == ParseInv /\ RunInv /\ [Next]_vars => RunInv'
<1> SUFFICES ASSUME ParseInv, RunInv, [Next]_vars PROVE RunInv'
  OBVIOUS
<1>1. TypeOK /\ HostType
  BY DEF ParseInv, TypeOK
<1>2. QueueIs'
  <2>1. CASE Host
    BY <1>1, <2>1, QueueStep DEF RunInv
  <2>2. CASE TD_Poll \/ UNCHANGED vars
    <3>1. UNCHANGED host
      BY <1>1, <2>2, DeviceKeeps
    <3> QED BY <3>1 DEF RunInv, QueueIs, host, opt
  <2> QED BY <2>1, <2>2 DEF Next
<1>3. PositionOK' /\ SentOK' /\ IfConfigOK' /\ KeyOK' /\ StoppedOK' /\ StartedOK'
  BY <1>1, PositionStep, SentStep, IfConfigStep, KeyOKStep, StoppedStep, StartedStep DEF RunInv
<1> QED BY <1>2, <1>3 DEF RunInv

LEMMA Running == Spec => [](ParseInv /\ RunInv)
<1>1. Init => ParseInv /\ RunInv
  BY ParseInit, RunInit
<1>2. (ParseInv /\ RunInv) /\ [Next]_vars => (ParseInv /\ RunInv)'
  BY ParseNext, RunNext
<1> QED BY <1>1, <1>2, PTL DEF Spec

\* Once a run's start is decoded the device sends what was asked for, whatever the
\* processes before have left behind.
THEOREM CaptureStarts == Spec => []CapturesWhenStarted
<1> SUFFICES ASSUME ParseInv, RunInv PROVE CapturesWhenStarted
  BY Running, PTL
<1> SUFFICES ASSUME polling, cmd_cnt = 0, ~lost, Capturing PROVE CapturesWhenStarted
  BY DEF CapturesWhenStarted
<1>1. HostType /\ DeviceType
  BY DEF ParseInv, TypeOK
<1>2. ~program.api
  <2>1. program.option.setup = TRUE
    BY <1>1, ProgramType DEF Capturing, HostType, Option
  <2> QED BY <1>1, <2>1, ProgramType DEF HostType, ApiProgram
<1>3. opt.ts \in BOOLEAN /\ opt.bcas \in BOOLEAN /\ (opt.ts \/ opt.bcas)
  BY <1>1, <1>2, RunIs
<1>4. n_calls \in 9 .. 12
  <2>1. Len(program.calls) = 13
    BY <1>1, <1>2, RunIs DEF Capturing, opt
  <2>2. Len(StopCapture(program.option)) = 4
    BY DEF StopCapture
  <2> QED BY <2>1, <2>2 DEF Capturing
<1>5. ep1 # None /\ Run /\ at = Len(ep1.bytes)
  BY <1>1, <1>2 DEF DeviceType, Run, ParseInv, PacketOK
<1>6. ep1.bytes = StartBytes(opt.ts, opt.bcas)
  BY <1>4, <1>5 DEF RunInv, SentOK
<1>7. at > 1
  <2>1. Len(ep1.bytes) = Endpoints(opt.ts, opt.bcas) + 2 /\ Endpoints(opt.ts, opt.bcas) \in Nat
    BY <1>3, <1>6, StartPacket, EndpointsAre
  <2> QED BY <1>5, <2>1
<1>8. /\ opt.ts => reg.ep6
      /\ opt.bcas => reg.ep4
      /\ reg.IFCONFIG = {7, 6, 5, 1, 0}
      /\ addr_mask \cap ModeBits = {} => reg.IOD \cap ModeBits = MODE_START
  BY <1>4, <1>5, <1>7 DEF RunInv, StartedOK
<1> QED BY <1>8 DEF CapturesWhenStarted, opt

\* A run all of whose transfers have arrived leaves what it used stopped, and
\* what it found idle, idle.
THEOREM LeftIdle == Spec => []LeavesIdle
<1> SUFFICES ASSUME ParseInv, RunInv PROVE LeavesIdle
  BY Running, PTL
<1> SUFFICES ASSUME ep1 = None, n_calls = Len(program.calls), ~program.api, ~lost
             PROVE LeavesIdle
  BY DEF LeavesIdle
<1>1. TypeOK /\ HostType /\ Run
  BY DEF ParseInv, TypeOK, Run
<1>2. /\ opt.ts \in BOOLEAN /\ opt.bcas \in BOOLEAN /\ opt.setup \in BOOLEAN
      /\ n_calls = IF opt.setup THEN 13 ELSE 5
  BY <1>1, RunIs
<1>3. ~Pressed /\ Keyed = (opt.keys # << >>)
  BY <1>1, Ended
<1>4. /\ Off6 => ~reg.ep6
      /\ Off4 => ~reg.ep4
      /\ Off => reg.IOD \cap ModeBits = MODE_IDLE
  BY NotComing DEF Off6, Off4, Off
<1>5. tidy \/ opt.keys # << >> => reg.ir_code = <<{}, {}>>
  <2>1. ep1.bytes # ReleaseBytes
    BY NotSent
  <2>2. CASE tidy
    BY <1>1, <1>3, <2>1, <2>2 DEF RunInv, KeyOK
  <2>3. CASE opt.keys # << >>
    BY <1>1, <1>3, <2>1, <2>3 DEF RunInv, KeyOK
  <2> QED BY <2>2, <2>3
<1>6. ASSUME opt.setup
      PROVE  /\ tidy \/ opt.ts => ~reg.ep6
             /\ tidy \/ opt.bcas => ~reg.ep4
             /\ reg.IOD \cap ModeBits = MODE_IDLE
  BY <1>1, <1>2, <1>4, <1>6 DEF RunInv, StoppedOK
<1>7. ASSUME ~opt.setup, tidy
      PROVE  ~reg.ep6 /\ ~reg.ep4 /\ reg.IOD \cap ModeBits = MODE_IDLE
  BY <1>1, <1>2, <1>4, <1>7 DEF RunInv, StoppedOK
<1> QED BY <1>2, <1>5, <1>6, <1>7 DEF LeavesIdle, opt
===============================================================================
