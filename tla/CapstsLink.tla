----------------------------- MODULE CapstsLink ------------------------------
(***************************************************************************)
(* The commands tsniff sends to the firmware: lib/capsts.c queues them as  *)
(* bytes and sends the queue in one bulk transfer to endpoint 1, where     *)
(* TD_Poll of firmware/tsniff/main.c decodes one command after the other,  *)
(* counting the bytes that are left in an 8-bit counter.  Neither side     *)
(* knows how many arguments the other thinks a command has.                *)
(*                                                                         *)
(* The device keeps its state when tsniff ends or is killed: firmware that *)
(* is loaded is not loaded again unless it is asked for (cusbfx2.c:231).   *)
(* A byte is the set of its bits that are 1.  What the firmware returns is *)
(* left out, as nothing reads it.  CMD_EP4AUTOINLEN, which capsts_cmd_push *)
(* refuses, is decoded nevertheless when an argument looks like it.        *)
(***************************************************************************)
EXTENDS Integers, Sequences, SequencesExt

Bits == 0 .. 7
Byte == SUBSET Bits

\* The commands, capsts.h:10-76 and tsniff_if.h:6-22.
CMD_EP6IN_START  == {6, 4}
CMD_EP6IN_STOP   == {6, 4, 0}
CMD_EP2OUT_START == {6, 4, 1}
CMD_EP2OUT_STOP  == {6, 4, 1, 0}
CMD_PORT_CFG     == {6, 4, 2}
CMD_REG_READ     == {6, 4, 2, 0}
CMD_REG_WRITE    == {6, 4, 2, 1}
CMD_PORT_READ    == {6, 4, 2, 1, 0}
CMD_PORT_WRITE   == {6, 4, 3}
CMD_IFCONFIG     == {6, 4, 3, 0}
CMD_MODE_IDLE    == {6, 4, 3, 1}
CMD_EP4IN_START  == {6, 4, 3, 1, 0}
CMD_EP4IN_STOP   == {6, 4, 3, 2}
CMD_IR_CODE      == {6, 4, 3, 2, 0}
CMD_IR_WBUF      == {6, 4, 3, 2, 1}
CMD_IR_RBUF      == {6, 4, 3, 2, 1, 0}
CMD_EP4AUTOINLEN == {6, 5, 4}

PIO_START == {5}

\* The two upper bits of port D are the mode of the capture logic.
ModeBits   == {7, 6}
MODE_IDLE  == {}
MODE_REGR  == {6}
MODE_REGW  == {7}
MODE_START == {7, 6}

\* The commands of the host, and those of the firmware.
Codes ==
    {CMD_EP6IN_START, CMD_EP6IN_STOP, CMD_EP2OUT_START, CMD_EP2OUT_STOP, CMD_PORT_CFG,
     CMD_REG_READ, CMD_REG_WRITE, CMD_PORT_READ, CMD_PORT_WRITE, CMD_IFCONFIG,
     CMD_MODE_IDLE, CMD_EP4IN_START, CMD_EP4IN_STOP, CMD_IR_CODE, CMD_IR_WBUF,
     CMD_IR_RBUF}
Decoded == Codes \cup {CMD_EP4AUTOINLEN}

CONSTANTS
    Programs,       \* what a process may do before it ends
    Garbage,        \* the values an uninitialised byte may have
    PacketSize,     \* of endpoint 1; bounds a queue that is sent
    MaxRuns         \* bounds the runs of tsniff

ASSUME GarbageAssumption == Garbage \subseteq Byte /\ Garbage # {}
ASSUME PacketAssumption == PacketSize \in 0 .. 255

-----------------------------------------------------------------------------
(* What the callers of capsts.c ask for.  A command is the sequence of the *)
(* arguments of a call of capsts_cmd_push, CMD_IR_WBUF's data among them.  *)

\* The number a byte stands for.
Value(byte) ==
    LET bit(n, v) == IF n \in byte THEN v ELSE 0 IN
    bit(0, 1) + bit(1, 2) + bit(2, 4) + bit(3, 8) + bit(4, 16) + bit(5, 32) + bit(6, 64) + bit(7, 128)

\* It has the arguments that capsts.h documents, and CMD_IR_WBUF some data.
IsCommand(cmd) ==
    /\ cmd \in Seq(Byte) /\ cmd # << >> /\ cmd[1] \in Codes
    /\ Len(cmd) = 1 + IF cmd[1] = CMD_IR_WBUF THEN 2 + Value(cmd[3])
                      ELSE IF cmd[1] \in {CMD_PORT_CFG, CMD_REG_WRITE, CMD_IR_CODE} THEN 2
                      ELSE IF cmd[1] \in {CMD_REG_READ, CMD_PORT_WRITE, CMD_IFCONFIG, CMD_IR_RBUF}
                           THEN 1
                      ELSE 0
    /\ cmd[1] = CMD_IR_WBUF => Len(cmd) > 3

\* A code of the remote control, its lower byte first.
IrCode == Byte \X Byte

Call == [op : {"skip", "push", "commit", "ir_commit"}, cmd : Seq(Byte), keys : Seq(IrCode)]

PushIf(cond, cmd) == [op |-> IF cond THEN "push" ELSE "skip", cmd |-> cmd, keys |-> << >>]
Push(cmd)         == PushIf(TRUE, cmd)
Commit            == [op |-> "commit", cmd |-> << >>, keys |-> << >>]
IrCommit(keys)    == [op |-> "ir_commit", cmd |-> << >>, keys |-> keys]

\* The firmware will read an argument of CMD_PORT_CFG that was not pushed, and
\* go on in what was pushed next; which has no arguments that are commands, but
\* CMD_EP4AUTOINLEN where its two arguments follow.
Harmless(cmd) ==
    \A n \in 2 .. Len(cmd) : cmd[n] \in Decoded => cmd[n] = CMD_EP4AUTOINLEN /\ n + 2 <= Len(cmd)

IsProgram(calls) ==
    /\ calls \in Seq(Call)
    /\ \A n \in DOMAIN calls : calls[n].op = "push" =>
          /\ IsCommand(calls[n].cmd)
          /\ calls[n].cmd[1] = CMD_PORT_CFG =>
                /\ n + 1 \in DOMAIN calls
                /\ calls[n + 1].op = "push" /\ Harmless(calls[n + 1].cmd)

\* Bug: the interface is configured before the mode is set.
ConfigureEarly ==
    <<Push(<<CMD_PORT_CFG, {}, PIO_START>>), Push(<<CMD_IFCONFIG, {7, 6, 5, 1, 0}>>),
      Push(<<CMD_MODE_IDLE>>), Commit>>

\* What run does for its options, or as far as the setup of its transfers,
\* which may fail.
Configure ==
    <<Push(<<CMD_PORT_CFG, {}, PIO_START>>), Push(<<CMD_MODE_IDLE>>),
      Push(<<CMD_IFCONFIG, {7, 6, 5, 1, 0}>>), Commit>>

StartCapture(option) ==
    <<PushIf(option.ts, <<CMD_EP6IN_START>>), PushIf(option.bcas, <<CMD_EP4IN_START>>),
      Push(<<CMD_PORT_WRITE, PIO_START>>), Commit>>

\* Bug: the B-CAS endpoint is not stopped.
StopTsOnly(option) ==
    <<PushIf(option.ts, <<CMD_EP6IN_STOP>>), PushIf(FALSE, <<CMD_EP4IN_STOP>>),
      Push(<<CMD_MODE_IDLE>>), Commit>>

StopCapture(option) ==
    <<PushIf(option.ts, <<CMD_EP6IN_STOP>>), PushIf(option.bcas, <<CMD_EP4IN_STOP>>),
      Push(<<CMD_MODE_IDLE>>), Commit>>

Option == [ts : BOOLEAN, bcas : BOOLEAN, keys : Seq(IrCode), setup : BOOLEAN]

RunProgram(option) ==
    [api    |-> FALSE,
     option |-> option,
     calls  |-> Configure \o <<IrCommit(option.keys)>>
                \o (IF option.setup THEN StartCapture(option) \o StopCapture(option) ELSE << >>)]

\* Anything else that could be done with the functions of capsts.h.
ApiProgram(calls) ==
    [api    |-> TRUE,
     option |-> [ts |-> FALSE, bcas |-> FALSE, keys |-> << >>, setup |-> FALSE],
     calls  |-> calls]

\* run opens the device for one of the two at least (main.c:926).
ASSUME ProgramsAssumption ==
    \A p \in Programs :
        \/ /\ p = ApiProgram(p.calls)
           /\ IsProgram(p.calls)
        \/ /\ p.option \in Option /\ (p.option.ts \/ p.option.bcas)
           /\ p = RunProgram(p.option)

-----------------------------------------------------------------------------

VARIABLES
    program,    \* what this process does
    n_calls,    \* how many of its calls have returned
    n_edges,    \* how many transfers capsts_ir_cmd_commit has made, two for each key
    st_cmd_queue,
    runs,       \* how many processes there were
    ep1,        \* the packet in EP1OUTBUF, until it is armed again
    polling,    \* TD_Poll is in its loop
    cmd_cnt,
    at,         \* the bytes it has read, the first autopointer
    addr_mask,
    reg,        \* registers and globals of the firmware
    executed,   \* history: the commands it executed from this packet
    lost,       \* history: a transfer of this process has failed
    tidy        \* history: earlier processes ended as they should

host == <<program, n_calls, n_edges, st_cmd_queue, runs, lost, tidy>>
poll == <<polling, cmd_cnt, at, addr_mask, executed>>
vars == <<host, ep1, poll, reg>>

\* A queue or a packet: its bytes and, as a history, the commands pushed.
None == [cmds |-> << >>, bytes |-> << >>]

\* The firmware's state once TD_Init is through.
Reset ==
    [IOD |-> {}, OED |-> {7, 6}, IFCONFIG |-> {7}, val_ifconfig |-> {},
     ep2 |-> FALSE, ep4 |-> FALSE, ep6 |-> FALSE,
     ir_code |-> <<{}, {}>>, ir_wbuf_len |-> 0]

Idle == polling = FALSE /\ cmd_cnt = 0 /\ at = 0 /\ addr_mask = {} /\ executed = << >>

Init ==
    /\ program \in Programs /\ n_calls = 0 /\ n_edges = 0 /\ st_cmd_queue = None /\ runs = 1
    /\ lost = FALSE /\ tidy = TRUE
    /\ ep1 = None /\ Idle
    /\ reg = Reset

-----------------------------------------------------------------------------
(* The host *)

\* The call that comes next.
Calls(op) == n_calls < Len(program.calls) /\ program.calls[n_calls + 1].op = op

Return == n_calls' = n_calls + 1

Skip ==
    /\ Calls("skip") /\ Return
    /\ UNCHANGED <<program, n_edges, st_cmd_queue, runs, lost, tidy, ep1, poll, reg>>

\* Bug: the argument of CMD_IFCONFIG is forgotten.
PushedFew(cmd) ==
    IF cmd[1] = CMD_IR_WBUF THEN Len(cmd) - 1
    ELSE IF cmd[1] \in {CMD_REG_WRITE, CMD_IR_CODE} THEN 2
    ELSE IF cmd[1] \in {CMD_PORT_CFG, CMD_REG_READ, CMD_PORT_WRITE, CMD_IR_RBUF} THEN 1
    ELSE 0

\* The number of arguments capsts_cmd_push appends to the queue.
Pushed(cmd) ==
    IF cmd[1] = CMD_IR_WBUF THEN Len(cmd) - 1
    ELSE IF cmd[1] \in {CMD_REG_WRITE, CMD_IR_CODE} THEN 2
    ELSE IF cmd[1] \in {CMD_PORT_CFG, CMD_REG_READ, CMD_PORT_WRITE, CMD_IFCONFIG, CMD_IR_RBUF}
         THEN 1
    ELSE 0

capsts_cmd_push ==
    LET cmd == program.calls[n_calls + 1].cmd IN
    /\ Calls("push") /\ Return
    /\ Len(st_cmd_queue.bytes) + Pushed(cmd) + 1 <= PacketSize
    /\ st_cmd_queue' = [cmds  |-> Append(st_cmd_queue.cmds, cmd),
                        bytes |-> st_cmd_queue.bytes \o SubSeq(cmd, 1, Pushed(cmd) + 1)]
    /\ UNCHANGED <<program, n_edges, runs, lost, tidy, ep1, poll, reg>>

\* A transfer, for which the endpoint must be armed, or which fails.
Transfer(packet) == ep1 = None /\ ep1' = packet /\ UNCHANGED lost
TransferFails    == lost' = TRUE /\ UNCHANGED ep1

\* There must be a queue.  It is gone whether it was sent or not.
capsts_cmd_commit ==
    /\ Calls("commit") /\ st_cmd_queue # None /\ Return
    /\ Transfer(st_cmd_queue) \/ TransferFails
    /\ st_cmd_queue' = None
    /\ UNCHANGED <<program, n_edges, runs, tidy, poll, reg>>

\* Each key is pressed and released.
Edge(keys, n) ==
    LET code == IF n % 2 = 0 THEN keys[(n \div 2) + 1] ELSE <<{}, {}>>
        cmd  == <<CMD_IR_CODE, code[1], code[2]>>
    IN  [cmds |-> <<cmd>>, bytes |-> cmd]

\* capsts_ir_cmd_commit makes its transfers until one fails.
IrTransfer ==
    LET keys == program.calls[n_calls + 1].keys IN
    /\ Calls("ir_commit") /\ n_edges < 2 * Len(keys)
    /\ \/ Transfer(Edge(keys, n_edges)) /\ n_edges' = n_edges + 1 /\ UNCHANGED n_calls
       \/ TransferFails /\ n_edges' = 0 /\ Return
    /\ UNCHANGED <<program, st_cmd_queue, runs, tidy, poll, reg>>

IrReturn ==
    /\ Calls("ir_commit") /\ n_edges = 2 * Len(program.calls[n_calls + 1].keys)
    /\ n_edges' = 0 /\ Return
    /\ UNCHANGED <<program, st_cmd_queue, runs, lost, tidy, ep1, poll, reg>>

\* The process has ended, or is killed, and another finds the device as it
\* was left, or loads the firmware again.
NextRun ==
    /\ runs < MaxRuns
    /\ runs' = runs + 1
    /\ program' \in Programs /\ n_calls' = 0 /\ n_edges' = 0 /\ st_cmd_queue' = None
    /\ lost' = FALSE
    /\ \/ /\ tidy' = (tidy /\ n_calls = Len(program.calls) /\ ~program.api /\ ~lost)
          /\ UNCHANGED <<ep1, poll, reg>>
       \/ /\ tidy' = TRUE
          /\ ep1' = None
          /\ polling' = FALSE /\ cmd_cnt' = 0 /\ at' = 0 /\ addr_mask' = {}
          /\ executed' = << >>
          /\ reg' = Reset

-----------------------------------------------------------------------------
(* TD_Poll.  What is read beyond the packet does not matter: WithinPacket. *)

Read(i) == IF at + i <= Len(ep1.bytes) THEN ep1.bytes[at + i] ELSE {}

\* addr_mask is on the stack or in a register: it has no value yet.
PollBegins ==
    /\ ep1 # None /\ ~polling
    /\ polling' = TRUE
    /\ cmd_cnt' = Len(ep1.bytes) /\ at' = 0
    /\ addr_mask' \in Garbage
    /\ executed' = << >>
    /\ UNCHANGED <<host, ep1, reg>>

\* One turn of the loop reads a command with n arguments.
Takes(n) ==
    /\ cmd_cnt' = (cmd_cnt - (n + 1)) % 256
    /\ at' = at + n + 1
    /\ executed' = Append(executed, [i \in 1 .. n + 1 |-> Read(i)])
    /\ UNCHANGED <<host, ep1, polling>>

Case(cmd) == polling /\ cmd_cnt # 0 /\ Read(1) = cmd

SetIrCode ==
    /\ Case(CMD_IR_CODE) /\ Takes(2)
    /\ reg' = [reg EXCEPT !.ir_code = <<Read(2), Read(3)>>]
    /\ UNCHANGED addr_mask

\* The data are copied by a loop that ends when the 8-bit length is zero
\* after the first.
IrWbuf ==
    LET len == IF Read(3) = {} THEN 256 ELSE Value(Read(3)) IN
    /\ Case(CMD_IR_WBUF)
    /\ cmd_cnt' = (cmd_cnt - (3 + Value(Read(3)))) % 256
    /\ at' = at + 3 + len
    /\ executed' = Append(executed, [i \in 1 .. len + 3 |-> Read(i)])
    /\ reg' = [reg EXCEPT !.ir_wbuf_len = (Value(Read(2)) + len) % 256]
    /\ UNCHANGED <<host, ep1, polling, addr_mask>>

IrRbuf == Case(CMD_IR_RBUF) /\ Takes(1) /\ UNCHANGED <<reg, addr_mask>>

RegWrite ==
    /\ Case(CMD_REG_WRITE) /\ Takes(2)
    /\ reg' = [reg EXCEPT !.IOD = MODE_REGW \cup (@ \cap addr_mask) \cup Read(2),
                          !.IFCONFIG = {7, 6, 5}]
    /\ UNCHANGED addr_mask

RegRead ==
    /\ Case(CMD_REG_READ) /\ Takes(1)
    /\ reg' = [reg EXCEPT !.IOD = MODE_REGR \cup (@ \cap addr_mask) \cup Read(2),
                          !.IFCONFIG = {7, 6, 5}]
    /\ UNCHANGED addr_mask

PortWrite ==
    /\ Case(CMD_PORT_WRITE) /\ Takes(1)
    /\ reg' = [reg EXCEPT !.IOD = (@ \ addr_mask) \cup Read(2)]
    /\ UNCHANGED addr_mask

PortRead == Case(CMD_PORT_READ) /\ Takes(0) /\ UNCHANGED <<reg, addr_mask>>

PortCfg ==
    LET mask == Read(2) \cup ModeBits IN
    /\ Case(CMD_PORT_CFG) /\ Takes(2)
    /\ reg' = [reg EXCEPT !.OED = Read(3) \cup mask]
    /\ addr_mask' = Bits \ mask

\* Bug: the argument is taken for a command.
IfConfigShort ==
    /\ Case(CMD_IFCONFIG) /\ Takes(0)
    /\ reg' = [reg EXCEPT !.val_ifconfig = Read(2)]
    /\ UNCHANGED addr_mask

IfConfig ==
    /\ Case(CMD_IFCONFIG) /\ Takes(1)
    /\ reg' = [reg EXCEPT !.val_ifconfig = Read(2)]
    /\ UNCHANGED addr_mask

Mode(mode) == mode \cup (reg.IOD \ ModeBits)

\* An endpoint's FIFO takes over from the port, or is cut off from it.
Ep6InStart ==
    /\ Case(CMD_EP6IN_START) /\ Takes(0)
    /\ reg' = [reg EXCEPT !.ep6 = TRUE, !.IFCONFIG = reg.val_ifconfig, !.IOD = Mode(MODE_START)]
    /\ UNCHANGED addr_mask

Ep4InStart ==
    /\ Case(CMD_EP4IN_START) /\ Takes(0)
    /\ reg' = [reg EXCEPT !.ep4 = TRUE, !.IFCONFIG = reg.val_ifconfig, !.IOD = Mode(MODE_START)]
    /\ UNCHANGED addr_mask

Ep2OutStart ==
    /\ Case(CMD_EP2OUT_START) /\ Takes(0)
    /\ reg' = [reg EXCEPT !.ep2 = TRUE, !.IFCONFIG = reg.val_ifconfig, !.IOD = Mode(MODE_START)]
    /\ UNCHANGED addr_mask

Ep6InStop ==
    Case(CMD_EP6IN_STOP) /\ Takes(0) /\ reg' = [reg EXCEPT !.ep6 = FALSE] /\ UNCHANGED addr_mask
Ep4InStop ==
    Case(CMD_EP4IN_STOP) /\ Takes(0) /\ reg' = [reg EXCEPT !.ep4 = FALSE] /\ UNCHANGED addr_mask
Ep2OutStop ==
    Case(CMD_EP2OUT_STOP) /\ Takes(0) /\ reg' = [reg EXCEPT !.ep2 = FALSE] /\ UNCHANGED addr_mask

\* The length of the packets of endpoint 4 is set, and its FIFO cut off.
Ep4AutoInLen ==
    /\ Case(CMD_EP4AUTOINLEN) /\ Takes(2)
    /\ reg' = [reg EXCEPT !.ep4 = FALSE]
    /\ UNCHANGED addr_mask

ModeIdle ==
    /\ Case(CMD_MODE_IDLE) /\ Takes(0)
    /\ reg' = [reg EXCEPT !.IOD = Mode(MODE_IDLE)]
    /\ UNCHANGED addr_mask

\* Any other byte is passed over.
NoCase ==
    /\ polling /\ cmd_cnt # 0 /\ Read(1) \notin Decoded
    /\ Takes(0)
    /\ UNCHANGED <<reg, addr_mask>>

\* Bug: the endpoint is not armed again.
LeaveBusy == UNCHANGED ep1

\* The endpoint is armed for the next packet.
Rearm == ep1' = None

PollEnds ==
    /\ polling /\ cmd_cnt = 0
    /\ Rearm
    /\ polling' = FALSE /\ at' = 0 /\ addr_mask' = {} /\ executed' = << >>
    /\ UNCHANGED <<host, cmd_cnt, reg>>

Command ==
    \/ NoCase
    \/ SetIrCode \/ IrWbuf \/ IrRbuf
    \/ RegWrite \/ RegRead \/ PortWrite \/ PortRead \/ PortCfg \/ IfConfig \/ ModeIdle
    \/ Ep6InStart \/ Ep6InStop \/ Ep4InStart \/ Ep4InStop \/ Ep2OutStart \/ Ep2OutStop
    \/ Ep4AutoInLen

TD_Poll == PollBegins \/ Command \/ PollEnds

Host == Skip \/ capsts_cmd_push \/ capsts_cmd_commit \/ IrTransfer \/ IrReturn \/ NextRun

Next == Host \/ TD_Poll

\* The task dispatcher calls TD_Poll for ever (fw.c:239-242).
Spec == Init /\ [][Next]_vars /\ WF_vars(TD_Poll)

-----------------------------------------------------------------------------
(* Properties *)

\* The counter does not wrap and no byte is read that is not of the packet,
\* even when an argument is missing from it (capsts.c:85, main.c:139-222).
WithinPacket == polling => at + cmd_cnt = Len(ep1.bytes)

Has(cmd) == \E i \in DOMAIN ep1.cmds : ep1.cmds[i][1] = cmd

\* Whatever is pushed but CMD_PORT_CFG, the firmware executes just that, in
\* that order and with those arguments (capsts.c:50-106, main.c:144-289).
ExecutesWhatIsPushed ==
    polling /\ ~Has(CMD_PORT_CFG) =>
        /\ IsPrefix(executed, ep1.cmds)
        /\ cmd_cnt = 0 => executed = ep1.cmds

\* The start has been committed, the stop not yet.
Capturing ==
    LET n == Len(program.calls) IN
    program.option.setup /\ n_calls \in n - Len(StopCapture(program.option)) .. n - 1

\* When the commands that start the capture are through, the endpoints that
\* are read send, with the clock that was set up by a command that follows
\* one that is not decoded, and the mode is that of a capture, whatever the
\* device was doing before; but an addr_mask that was never set may have
\* cleared the mode again (main.c:521-553; firmware main.c:134, 208).
CapturesWhenStarted ==
    polling /\ cmd_cnt = 0 /\ ~lost /\ Capturing =>
        /\ program.option.ts => reg.ep6
        /\ program.option.bcas => reg.ep4
        /\ reg.ep6 \/ reg.ep4 => reg.IFCONFIG = {7, 6, 5, 1, 0}
        /\ (program.option.ts \/ program.option.bcas) /\ addr_mask \cap ModeBits = {} =>
                reg.IOD \cap ModeBits = MODE_START

\* A run whose transfers all arrived leaves the endpoints that it used
\* stopped, and nothing sending, no key pressed and the mode idle if it
\* found the device so (main.c:699-704, capsts.c:190-212).
LeavesIdle ==
    ep1 = None /\ n_calls = Len(program.calls) /\ ~program.api /\ ~lost =>
        /\ program.option.ts /\ program.option.setup => ~reg.ep6
        /\ program.option.bcas /\ program.option.setup => ~reg.ep4
        /\ program.option.setup => reg.IOD \cap ModeBits = MODE_IDLE
        /\ tidy \/ program.option.keys # << >> => reg.ir_code = <<{}, {}>>
        /\ tidy => ~reg.ep6 /\ ~reg.ep4 /\ reg.IOD \cap ModeBits = MODE_IDLE

\* Every packet is decoded to its end, so that the endpoint can take the
\* next (firmware main.c:135-143, 291).
DecodesEveryPacket == ep1 # None ~> ep1 = None

\* The pins are configured by the two arguments of the command, of which
\* the header says that they are addr_mask and out_pins (capsts.h:23-27).
PinsAsPushed ==
    polling /\ cmd_cnt = 0 /\ ep1.cmds[1][1] = CMD_PORT_CFG =>
        reg.OED = ep1.cmds[1][2] \cup ep1.cmds[1][3] \cup ModeBits
=============================================================================
