-------------------------- MODULE FirmwareDispatcher --------------------------
(***************************************************************************)
(* The task dispatcher of the firmware (firmware/tsniff/fw.c): a loop that *)
(* polls the device, answers the USB request for which an interrupt has    *)
(* set GotSUD, and stops the processor when another has set Sleep.  The    *)
(* hooks DR_* and the interrupts are those of firmware/tsniff/main.c.      *)
(*                                                                         *)
(* The USB core is hardware: a SETUP packet replaces the one before in     *)
(* SETUPDAT, forgets what was to be answered, and is not acknowledged until *)
(* HSNAK is cleared.  The host gives up when it likes, and sends the next  *)
(* request as soon as one is answered, even while SetupCommand is at its   *)
(* last instructions; such a request is said to overtake.  Interrupts are  *)
(* served before the loop goes on.  A descriptor is its name, and so is    *)
(* its address.                                                            *)
(***************************************************************************)
EXTENDS Integers

CONSTANTS
    Requests,       \* what the host asks
    Endpoints,      \* the addresses of the endpoints it names
    NStrings,       \* string descriptors there are
    MaxPins,        \* bounds how often the WAKEUP pin is pulled
    None            \* no request, a model value

\* The endpoints of the descriptors (dscr.asm).
ASSUME EndpointsAssumption == Endpoints \subseteq {1, 129, 2, 132, 134}
ASSUME CountsAssumption == NStrings \in Nat /\ MaxPins \in Nat

Speed == {"full", "high"}
OtherSpeed(s) == IF s = "full" THEN "high" ELSE "full"

\* SETUPDAT: its bytes 0, 1, 2, 3 and 4, the parts of values a request looks at.
Request == [recipient : {"device", "interface", "endpoint", "other"},
            request   : {"GET_DESCRIPTOR", "GET_INTERFACE", "SET_INTERFACE",
                         "SET_CONFIGURATION", "GET_CONFIGURATION", "GET_STATUS",
                         "CLEAR_FEATURE", "SET_FEATURE", "VR_NAKALL_ON", "VR_NAKALL_OFF",
                         "other"},
            low       : 0 .. 255,
            high      : {"device", "qualifier", "configuration", "other_speed", "string",
                         "other"},
            index     : Endpoints]

ASSUME RequestsAssumption == Requests \subseteq Request /\ None \notin Request

EPCS_Offset_Lookup_Table == <<0, 1, 2, 2, 3, 3, 4, 4, 5, 5>>

\* Bug: the direction is left out.
epcsOfNumber(EP) == EPCS_Offset_Lookup_Table[2 * ((EP % 128) \div 2) + 1]

\* The macro epcs: the register of an endpoint.
epcs(EP) ==
    EPCS_Offset_Lookup_Table[2 * ((EP % 128) \div 2) + (IF EP > 128 THEN 1 ELSE 0) + 1]


VARIABLES
    pc,             \* where the loop is
    switch,         \* the request SetupCommand has read from SETUPDAT[1]
    pointer,        \* where the upper byte in SUDPTRH comes from
    GotSUD, Sleep, Rwuen, Configuration, AlternateSetting,
    halted,         \* the endpoints' registers whose stall bit is set
    nakall,         \* bmNAKALL of FIFORESET
    pConfigDscr, pOtherConfigDscr,
    type,           \* the type field of the descriptor of each speed
    SETUPDAT,       \* the core: the packet, what is armed on endpoint 0, its bits
    data, stall, hsnak,
    irq,            \* interrupts that are pending
    speed, bus,     \* the bus: its speed, "active" or "suspended"
    wu, pins,       \* the WAKEUP pin was pulled; how often
    asked,          \* the host: its request, whether that overtook one,
    overtaken,
    told            \* the states it knows the device to be in one of

loop     == <<pc, switch, pointer>>
flags    == <<GotSUD, Sleep>>
settings == <<Rwuen, Configuration, AlternateSetting, halted, nakall>>
dscrs    == <<pConfigDscr, pOtherConfigDscr, type>>
core     == <<SETUPDAT, data, stall, hsnak>>
wires    == <<irq, speed, bus, wu, pins>>
host     == <<asked, overtaken, told>>
vars     == <<loop, flags, settings, dscrs, core, wires, host>>

\* What the host can set, as it sees it.
Value == {0} \union {r.low : r \in Requests}
State == [Rwuen : BOOLEAN, Configuration : Value, AlternateSetting : Value,
          halted : SUBSET Endpoints, nakall : BOOLEAN]

Device == [Rwuen |-> Rwuen, Configuration |-> Configuration,
           AlternateSetting |-> AlternateSetting,
           halted |-> {e \in Endpoints : epcs(e) \in halted}, nakall |-> nakall]

\* The interrupts of a reset.
Reset(s) == IF s = "high" THEN {"URES", "HSGRANT"} ELSE {"URES"}

\* main has initialised everything, at the speed of the firmware before, and
\* EZUSB_Discon has brought the device back to the bus, which is reset.
Init ==
    /\ pc = "poll" /\ switch = "" /\ pointer = << >>
    /\ GotSUD = FALSE /\ Sleep = FALSE /\ Rwuen = FALSE
    /\ Configuration = 0 /\ AlternateSetting = 0
    /\ halted = {} /\ nakall = FALSE
    /\ speed \in Speed
    /\ pConfigDscr \in Speed /\ pOtherConfigDscr = OtherSpeed(pConfigDscr)
    /\ type = [s \in Speed |-> "CONFIG"]
    /\ SETUPDAT = None /\ data = << >> /\ stall = FALSE /\ hsnak = FALSE
    /\ irq = Reset(speed) /\ bus = "active" /\ wu = FALSE /\ pins = 0
    /\ asked = None /\ overtaken = FALSE
    /\ told = {Device}

-----------------------------------------------------------------------------
(* The host's view of its requests *)

\* What a request sets.
After(d, r) ==
    CASE r.request = "SET_CONFIGURATION" -> [d EXCEPT !.Configuration = r.low]
      [] r.request = "SET_INTERFACE"     -> [d EXCEPT !.AlternateSetting = r.low]
      [] r.request \in {"SET_FEATURE", "CLEAR_FEATURE"} /\ r.recipient = "device"
         /\ r.low = 1 -> [d EXCEPT !.Rwuen = (r.request = "SET_FEATURE")]
      [] r.request = "SET_FEATURE" /\ r.recipient = "endpoint" ->
            [d EXCEPT !.halted = @ \union {r.index}]
      [] r.request = "CLEAR_FEATURE" /\ r.recipient = "endpoint" /\ r.low = 0 ->
            [d EXCEPT !.halted = @ \ {r.index}]
      [] r.request = "VR_NAKALL_ON"  -> [d EXCEPT !.nakall = TRUE]
      [] r.request = "VR_NAKALL_OFF" -> [d EXCEPT !.nakall = FALSE]
      [] OTHER -> d

\* What it is answered: a descriptor, a value, nothing but an acknowledgement, or a
\* stall.
Answer(d, r) ==
    CASE r.request = "GET_DESCRIPTOR" ->
            CASE r.high \in {"device", "qualifier"} -> <<r.high>>
              [] r.high = "configuration" -> <<speed, "CONFIG">>
              [] r.high = "other_speed"   -> <<OtherSpeed(speed), "OTHERSPEED">>
              [] r.high = "string" /\ r.low < NStrings -> <<"string", r.low>>
              [] OTHER -> <<"stall">>
      [] r.request = "GET_INTERFACE"     -> <<"value", d.AlternateSetting>>
      [] r.request = "GET_CONFIGURATION" -> <<"value", d.Configuration>>
      [] r.request = "GET_STATUS" ->
            CASE r.recipient = "device"    -> <<"value", IF d.Rwuen THEN 2 ELSE 0>>
              [] r.recipient = "interface" -> <<"value", 0>>
              [] r.recipient = "endpoint"  -> <<"value", IF r.index \in d.halted THEN 1 ELSE 0>>
              [] OTHER -> <<"stall">>
      [] r.request = "CLEAR_FEATURE" ->
            IF \/ r.recipient = "device" /\ r.low # 1
               \/ r.recipient = "endpoint" /\ r.low # 0
            THEN <<"stall">> ELSE <<"done">>
      [] r.request = "SET_FEATURE" ->
            IF \/ r.recipient = "device" /\ r.low \notin {1, 2}
               \/ r.recipient \in {"interface", "other"}
            THEN <<"stall">> ELSE <<"done">>
      [] r.request = "other" -> <<"stall">>
      [] OTHER -> <<"done">>

Reads(r) == r.request \in {"GET_DESCRIPTOR", "GET_INTERFACE", "GET_CONFIGURATION", "GET_STATUS"}

\* What endpoint 0 answers: a stall at once, the rest when HSNAK is cleared.
Answered == stall \/ (~hsnak /\ (Reads(asked) => data # << >>))

Given == IF stall THEN <<"stall">> ELSE IF Reads(asked) THEN data ELSE <<"done">>

-----------------------------------------------------------------------------
(* The host and the bus *)

\* A SETUP packet.  After a reset the device is given the time to serve it.
Ask(r) ==
    /\ asked = None /\ bus = "active" /\ irq = {}
    /\ asked' = r
    /\ overtaken' = (pc \in {"act", "low", "acknowledge", "clear"})
    /\ told' = IF overtaken' THEN State ELSE told
    /\ SETUPDAT' = r /\ data' = << >> /\ stall' = FALSE /\ hsnak' = TRUE
    /\ irq' = {"SUDAV"}
    /\ UNCHANGED <<loop, flags, settings, dscrs, speed, bus, wu, pins>>

TakeAnswer ==
    /\ asked # None /\ Answered
    /\ asked' = None /\ overtaken' = FALSE
    /\ told' = IF overtaken THEN told
               ELSE {After(d, asked) : d \in {e \in told : Answer(e, asked) = Given}}
    /\ UNCHANGED <<loop, flags, settings, dscrs, core, wires>>

\* The host's knowledge when a request may have been executed or may be yet.
Unsure == IF asked = None THEN told ELSE told \union {After(d, asked) : d \in told}

\* A timeout, or the process that asks is killed.
GiveUp ==
    /\ asked # None
    /\ asked' = None /\ overtaken' = FALSE
    /\ told' = Unsure
    /\ UNCHANGED <<loop, flags, settings, dscrs, core, wires>>

\* A reset ends the request, and with it the speed is negotiated again.
BusReset ==
    /\ irq \intersect {"URES", "HSGRANT"} = {}
    /\ bus' = "active"
    /\ speed' \in Speed
    /\ irq' = (irq \ {"SUDAV"}) \union Reset(speed')
    /\ asked' = None /\ overtaken' = FALSE
    /\ told' = Unsure
    /\ UNCHANGED <<loop, flags, settings, dscrs, core, wu, pins>>

\* The host suspends a bus on which it asks nothing; it takes 3 ms, in which the
\* processor is awake or asleep.
Suspend ==
    /\ bus = "active" /\ asked = None /\ irq = {}
    /\ pc \notin {"woken", "resume"}
    /\ bus' = "suspended"
    /\ irq' = {"SUSP"}
    /\ UNCHANGED <<loop, flags, settings, dscrs, core, speed, wu, pins, host>>

Resume ==
    /\ bus = "suspended"
    /\ bus' = "active"
    /\ UNCHANGED <<loop, flags, settings, dscrs, core, irq, speed, wu, pins, host>>

PullPin ==
    /\ pins < MaxPins
    /\ wu' = TRUE /\ pins' = pins + 1
    /\ UNCHANGED <<loop, flags, settings, dscrs, core, irq, speed, bus, host>>

-----------------------------------------------------------------------------
(* Interrupts *)

ISR_Sudav ==
    /\ "SUDAV" \in irq
    /\ GotSUD' = TRUE
    /\ irq' = irq \ {"SUDAV"}
    /\ UNCHANGED <<Sleep, dscrs>>

ISR_Susp ==
    /\ "SUSP" \in irq
    /\ Sleep' = TRUE
    /\ irq' = irq \ {"SUSP"}
    /\ UNCHANGED <<GotSUD, dscrs>>

PointTo(s) ==
    /\ pConfigDscr' = s /\ pOtherConfigDscr' = OtherSpeed(s)
    /\ type' = [t \in Speed |-> IF t = s THEN "CONFIG" ELSE "OTHERSPEED"]

\* Bug: a reset leaves the descriptors as they are.
ISR_UresKeeping ==
    /\ "URES" \in irq
    /\ irq' = irq \ {"URES"}
    /\ UNCHANGED <<flags, dscrs>>

ISR_Ures ==
    /\ "URES" \in irq
    /\ PointTo("full")
    /\ irq' = irq \ {"URES"}
    /\ UNCHANGED flags

\* The one with the lower number is served first.
ISR_Highspeed ==
    /\ "HSGRANT" \in irq /\ "URES" \notin irq
    /\ IF speed = "high" THEN PointTo("high") ELSE UNCHANGED dscrs
    /\ irq' = irq \ {"HSGRANT"}
    /\ UNCHANGED flags

Interrupt ==
    /\ pc # "asleep"
    /\ ISR_Sudav \/ ISR_Susp \/ ISR_Ures \/ ISR_Highspeed
    /\ UNCHANGED <<loop, settings, core, speed, bus, wu, pins, host>>

-----------------------------------------------------------------------------
(* SetupCommand *)

\* SETUPDAT[1] chooses what is done with the rest.
Dispatch ==
    /\ pc = "setup"
    /\ pc' = "act" /\ switch' = SETUPDAT.request
    /\ UNCHANGED <<pointer, flags, settings, core>>

Case(requests) == pc = "act" /\ switch \in requests /\ pc' = "acknowledge"

Stalls == stall' = TRUE /\ UNCHANGED data
Puts(value) == data' = <<"value", value>> /\ UNCHANGED stall
Nothing == UNCHANGED <<data, stall>>

\* The descriptor's address goes to SUDPTRH and then to SUDPTRL.
GetDescriptor ==
    /\ pc = "act" /\ switch = "GET_DESCRIPTOR"
    /\ \/ /\ \/ SETUPDAT.high \in {"device", "qualifier"} /\ pointer' = <<SETUPDAT.high>>
             \/ SETUPDAT.high = "configuration" /\ pointer' = <<pConfigDscr>>
             \/ SETUPDAT.high = "other_speed" /\ pointer' = <<pOtherConfigDscr>>
             \/ SETUPDAT.high = "string" /\ SETUPDAT.low < NStrings
                /\ pointer' = <<"string", SETUPDAT.low>>
          /\ pc' = "low" /\ switch' = SETUPDAT.high
          /\ Nothing
       \/ /\ \/ SETUPDAT.high = "other"
             \/ SETUPDAT.high = "string" /\ SETUPDAT.low >= NStrings
          /\ pc' = "acknowledge"
          /\ Stalls
          /\ UNCHANGED <<pointer, switch>>
    /\ UNCHANGED <<flags, settings, SETUPDAT, hsnak>>

\* The pointers to the configurations are read again for the lower byte.
PointerLow ==
    /\ pc = "low"
    /\ LET low == CASE switch = "configuration" -> <<pConfigDscr>>
                    [] switch = "other_speed"   -> <<pOtherConfigDscr>>
                    [] OTHER                    -> pointer
       IN data' = IF low # pointer THEN <<"garbage">>
                  ELSE IF pointer[1] \in Speed THEN <<pointer[1], type[pointer[1]]>>
                  ELSE pointer
    /\ pc' = "acknowledge"
    /\ pointer' = << >>
    /\ UNCHANGED <<switch, flags, settings, SETUPDAT, stall, hsnak>>

GetSetting ==
    /\ \/ Case({"GET_INTERFACE"}) /\ Puts(AlternateSetting)
       \/ Case({"GET_CONFIGURATION"}) /\ Puts(Configuration)
    /\ UNCHANGED <<settings>>

SetSetting ==
    /\ \/ Case({"SET_INTERFACE"}) /\ AlternateSetting' = SETUPDAT.low /\ UNCHANGED Configuration
       \/ Case({"SET_CONFIGURATION"}) /\ Configuration' = SETUPDAT.low /\ UNCHANGED AlternateSetting
    /\ Nothing
    /\ UNCHANGED <<Rwuen, halted, nakall>>

GetStatus ==
    /\ Case({"GET_STATUS"})
    /\ CASE SETUPDAT.recipient = "device"    -> Puts(IF Rwuen THEN 2 ELSE 0)
         [] SETUPDAT.recipient = "interface" -> Puts(0)
         [] SETUPDAT.recipient = "endpoint"  -> Puts(IF epcs(SETUPDAT.index) \in halted THEN 1 ELSE 0)
         [] OTHER                            -> Stalls
    /\ UNCHANGED settings

ClearFeature ==
    /\ Case({"CLEAR_FEATURE"})
    /\ \/ /\ SETUPDAT.recipient = "device" /\ SETUPDAT.low = 1
          /\ Rwuen' = FALSE
          /\ Nothing /\ UNCHANGED halted
       \/ /\ SETUPDAT.recipient = "endpoint" /\ SETUPDAT.low = 0
          /\ halted' = halted \ {epcs(SETUPDAT.index)}
          /\ Nothing /\ UNCHANGED Rwuen
       \/ /\ \/ SETUPDAT.recipient = "device" /\ SETUPDAT.low # 1
             \/ SETUPDAT.recipient = "endpoint" /\ SETUPDAT.low # 0
          /\ Stalls /\ UNCHANGED <<Rwuen, halted>>
       \/ /\ SETUPDAT.recipient \in {"interface", "other"}
          /\ Nothing /\ UNCHANGED <<Rwuen, halted>>
    /\ UNCHANGED <<Configuration, AlternateSetting, nakall>>

SetFeature ==
    /\ Case({"SET_FEATURE"})
    /\ \/ /\ SETUPDAT.recipient = "device" /\ SETUPDAT.low = 1
          /\ Rwuen' = TRUE
          /\ Nothing /\ UNCHANGED halted
       \/ /\ SETUPDAT.recipient = "device" /\ SETUPDAT.low = 2
          /\ Nothing /\ UNCHANGED <<Rwuen, halted>>
       \/ /\ SETUPDAT.recipient = "endpoint"
          /\ halted' = halted \union {epcs(SETUPDAT.index)}
          /\ Nothing /\ UNCHANGED Rwuen
       \/ /\ \/ SETUPDAT.recipient = "device" /\ SETUPDAT.low \notin {1, 2}
             \/ SETUPDAT.recipient \in {"interface", "other"}
          /\ Stalls /\ UNCHANGED <<Rwuen, halted>>
    /\ UNCHANGED <<Configuration, AlternateSetting, nakall>>

\* DR_VendorCmnd looks at SETUPDAT[1] again.
VendorCommand ==
    /\ Case({"VR_NAKALL_ON", "VR_NAKALL_OFF", "other"})
    /\ IF SETUPDAT.request \in {"VR_NAKALL_ON", "VR_NAKALL_OFF"}
       THEN nakall' = (SETUPDAT.request = "VR_NAKALL_ON") /\ Nothing
       ELSE Stalls /\ UNCHANGED nakall
    /\ UNCHANGED <<Rwuen, Configuration, AlternateSetting, halted>>

Acknowledge ==
    /\ pc = "acknowledge"
    /\ hsnak' = FALSE
    /\ pc' = "clear" /\ switch' = ""
    /\ UNCHANGED <<pointer, flags, settings, SETUPDAT, data, stall>>

SetupCommand ==
    /\ \/ Dispatch \/ GetDescriptor \/ PointerLow \/ Acknowledge
       \/ /\ GetSetting \/ SetSetting \/ GetStatus \/ ClearFeature \/ SetFeature \/ VendorCommand
          /\ UNCHANGED <<switch, pointer, flags, SETUPDAT, hsnak>>
    /\ UNCHANGED <<bus, wu, told>>

-----------------------------------------------------------------------------
(* The loop of main *)

\* TD_Poll may execute a command that writes FIFORESET.  The host does not send it one
\* while a request is open.
Poll ==
    /\ pc = "poll" /\ pc' = "check"
    /\ \/ UNCHANGED <<nakall, told>>
       \/ /\ asked = None
          /\ nakall' = FALSE
          /\ told' = told \union {[d EXCEPT !.nakall = FALSE] : d \in told}
    /\ UNCHANGED <<switch, pointer, flags, Rwuen, Configuration, AlternateSetting, halted,
                   core, bus, wu>>

CheckSetup ==
    /\ pc = "check"
    /\ pc' = IF GotSUD THEN "setup" ELSE "sleep"
    /\ UNCHANGED <<switch, pointer, flags, settings, core, bus, wu, told>>

ClearGotSUD ==
    /\ pc = "clear"
    /\ GotSUD' = FALSE
    /\ pc' = "sleep"
    /\ UNCHANGED <<switch, pointer, Sleep, settings, core, bus, wu, told>>

\* TD_Suspend agrees to everything.
CheckSleep ==
    /\ pc = "sleep"
    /\ Sleep' = FALSE
    /\ pc' = IF Sleep THEN "susp" ELSE "poll"
    /\ UNCHANGED <<switch, pointer, GotSUD, settings, core, bus, wu, told>>

\* EZUSB_Susp clears the pin's flag and stops the processor, which activity of the bus
\* or the pin starts again.
EZUSB_Susp ==
    /\ pc = "susp"
    /\ wu' = FALSE
    /\ pc' = "asleep"
    /\ UNCHANGED <<switch, pointer, flags, settings, core, bus, told>>

WakeUp ==
    /\ pc = "asleep" /\ (bus = "active" \/ wu)
    /\ pc' = "woken"
    /\ UNCHANGED <<switch, pointer, flags, settings, core, bus, wu, told>>

\* Bug: the pin wakes it always.
CheckWakeupNever ==
    /\ pc = "woken"
    /\ pc' = "resume"
    /\ UNCHANGED <<switch, pointer, flags, settings, core, bus, wu, told>>

\* Bug: what woke it is not looked at.
CheckWakeupOfAny ==
    /\ pc = "woken"
    /\ pc' = IF ~Rwuen THEN "susp" ELSE "resume"
    /\ UNCHANGED <<switch, pointer, flags, settings, core, bus, wu, told>>

\* It is stopped again if the pin must not wake it.
CheckWakeup ==
    /\ pc = "woken"
    /\ pc' = IF ~Rwuen /\ wu THEN "susp" ELSE "resume"
    /\ UNCHANGED <<switch, pointer, flags, settings, core, bus, wu, told>>

\* EZUSB_Resume signals the pin's wakeup to the host.
EZUSB_Resume ==
    /\ pc = "resume"
    /\ bus' = IF wu THEN "active" ELSE bus
    /\ pc' = "poll"
    /\ UNCHANGED <<switch, pointer, flags, settings, core, wu, told>>

main ==
    /\ irq = {} \/ pc = "asleep"
    /\ \/ SetupCommand
       \/ Poll \/ CheckSetup \/ ClearGotSUD \/ CheckSleep
       \/ EZUSB_Susp \/ WakeUp \/ CheckWakeup \/ EZUSB_Resume
    /\ UNCHANGED <<dscrs, irq, speed, pins, asked, overtaken>>

Host == TakeAnswer \/ GiveUp \/ BusReset \/ Suspend \/ Resume \/ \E r \in Requests : Ask(r)

Next == main \/ Interrupt \/ Host \/ PullPin

\* The processor runs, and the host looks for the answer.
Spec ==
    /\ Init /\ [][Next]_vars
    /\ WF_vars(main) /\ WF_vars(Interrupt) /\ WF_vars(TakeAnswer)

-----------------------------------------------------------------------------
(* Properties *)

TypeOK ==
    /\ pc \in {"poll", "check", "setup", "act", "low", "acknowledge", "clear", "sleep",
               "susp", "asleep", "woken", "resume"}
    /\ {GotSUD, Sleep, Rwuen, nakall, stall, hsnak, wu, overtaken} \subseteq BOOLEAN
    /\ Configuration \in Value /\ AlternateSetting \in Value
    /\ halted \subseteq 0 .. 5
    /\ pConfigDscr \in Speed /\ pOtherConfigDscr = OtherSpeed(pConfigDscr)
    /\ type \in [Speed -> {"CONFIG", "OTHERSPEED"}]
    /\ SETUPDAT \in Request \union {None}
    /\ irq \subseteq {"SUDAV", "SUSP", "URES", "HSGRANT"}
    /\ speed \in Speed /\ bus \in {"active", "suspended"} /\ pins \in 0 .. MaxPins
    /\ asked \in Requests \union {None}
    /\ told \subseteq State

\* A request that does not overtake another is answered what was asked for: with the
\* descriptors of the speed at which the bus runs, and the settings that the host has
\* made, whatever requests it gave up before and however it reset or suspended the
\* bus (fw.c:305-431, main.c:449-474).
AnswersRight ==
    asked # None /\ ~overtaken /\ Answered => \E d \in told : Answer(d, asked) = Given

\* What was acknowledged is done, and nothing else: the device is in a state the host
\* knows of (fw.c:248; a request that overtakes is acknowledged without being looked
\* at, and leaves the host without knowledge).
DoesWhatItAcknowledges == asked = None => Device \in told

\* A suspended bus is woken only if the host allowed it (fw.c:257-265).
WakesIfAllowed == pc = "resume" /\ wu /\ bus = "suspended" => Rwuen

\* A request is answered, unless it overtook another one or was given up, although
\* the processor stops when the bus is suspended (fw.c:239-270).
EachAnswered == asked # None /\ ~overtaken ~> asked = None
=============================================================================
