----------------------- MODULE FirmwareDispatcherProofs -----------------------
(***************************************************************************)
(* Proofs about FirmwareDispatcher, for every set of requests and of       *)
(* endpoints and any number of strings and pulls of the pin.  The          *)
(* invariant says, for each point of the loop, what has become of the      *)
(* request in SETUPDAT and what the host knows of it.                      *)
(***************************************************************************)
EXTENDS FirmwareDispatcher, TLAPS

\* SetupCommand is behind its switch.
Behind == pc \in {"low", "acknowledge", "clear"}

\* The request in SETUPDAT is not executed yet.
Unserved == "SUDAV" \in irq \/ (GotSUD /\ ~Behind)

\* A request is in SETUPDAT when the loop looks at it, and it is the host's.
InSetup ==
    /\ pc \in {"setup", "act", "low", "acknowledge", "clear"} => GotSUD
    /\ GotSUD \/ "SUDAV" \in irq => SETUPDAT \in Requests
    /\ asked # None => SETUPDAT = asked

\* The descriptors are those of the speed, or an interrupt that changes them is
\* pending.
AtSpeed ==
    /\ asked # None => irq \subseteq {"SUDAV"}
    /\ "HSGRANT" \in irq => speed = "high"
    /\ "URES" \in irq /\ speed = "high" => "HSGRANT" \in irq
    /\ irq \intersect {"URES", "HSGRANT"} = {} =>
          /\ pConfigDscr = speed
          /\ type = [s \in Speed |-> IF s = speed THEN "CONFIG" ELSE "OTHERSPEED"]

\* Where no request is open, the host knows what is done and what may be yet.
Closed ==
    asked = None =>
        /\ Device \in told
        /\ Unserved => After(Device, SETUPDAT) \in told
        /\ pc = "act" /\ switch # SETUPDAT.request => told = State

Overtook == overtaken => asked # None /\ told = State

\* An open request before it is executed.
Waiting ==
    asked # None /\ ~overtaken /\ Unserved =>
        /\ Device \in told
        /\ hsnak /\ ~stall /\ data = << >>
        /\ pc = "act" => switch = asked.request
        /\ "SUDAV" \in irq => ~Behind /\ pc # "act"

\* The descriptor whose address is being written.
Pointed ==
    /\ asked.request = "GET_DESCRIPTOR" /\ switch = asked.high
    /\ \/ asked.high \in {"device", "qualifier"} /\ pointer = <<asked.high>>
       \/ asked.high = "configuration" /\ pointer = <<speed>>
       \/ asked.high = "other_speed" /\ pointer = <<OtherSpeed(speed)>>
       \/ /\ asked.high = "string" /\ asked.low < NStrings
          /\ pointer = <<"string", asked.low>>

\* An open request that was executed.
Served ==
    asked # None /\ ~overtaken /\ ~Unserved =>
        \E d \in told :
            /\ After(d, asked) = Device
            /\ pc # "low" => Answer(d, asked) = Given
            /\ pc = "low" => hsnak /\ ~stall /\ data = << >> /\ Pointed

Awake ==
    /\ bus = "suspended" /\ pc = "woken" => wu
    /\ bus = "suspended" /\ pc = "resume" => Rwuen

IInv == /\ TypeOK /\ InSetup /\ AtSpeed /\ Closed /\ Overtook /\ Waiting /\ Served
        /\ Awake

-----------------------------------------------------------------------------
(* The operators *)

\* No two endpoints of the device share a register.
LEMMA Registers ==
    /\ \A e \in Endpoints : epcs(e) \in 0 .. 5
    /\ \A e, f \in Endpoints : epcs(e) = epcs(f) => e = f
PROOF
<1>1. epcs(1) = 0
  BY DEF epcs, EPCS_Offset_Lookup_Table
<1>2. epcs(129) = 1
  BY DEF epcs, EPCS_Offset_Lookup_Table
<1>3. epcs(2) = 2
  BY DEF epcs, EPCS_Offset_Lookup_Table
<1>4. epcs(132) = 3
  BY DEF epcs, EPCS_Offset_Lookup_Table
<1>5. epcs(134) = 4
  BY DEF epcs, EPCS_Offset_Lookup_Table
<1> QED
  BY <1>1, <1>2, <1>3, <1>4, <1>5, EndpointsAssumption

\* The device is in one of the states the host can think of.
LEMMA DeviceInState ==
    ASSUME TypeOK PROVE Device \in State
PROOF
  BY DEF TypeOK, Device, State

LEMMA DeviceInStateNext ==
    ASSUME TypeOK' PROVE Device' \in State
PROOF
  BY DEF TypeOK, Device, State

\* A request leads from one of them to another.
LEMMA AfterInState ==
    ASSUME NEW d \in State, NEW r \in Requests PROVE After(d, r) \in State
PROOF
<1>1. r.low \in Value /\ r.index \in Endpoints
  BY RequestsAssumption DEF Value, Request
<1> QED
  BY <1>1 DEF After, State

-----------------------------------------------------------------------------
(* SetupCommand does what was asked for *)

\* What the actions of a request that sets something, or reads a value, have in common.
Kept == UNCHANGED <<switch, pointer, flags, SETUPDAT, hsnak>>

Execute ==
    /\ GetSetting \/ SetSetting \/ GetStatus \/ ClearFeature \/ SetFeature \/ VendorCommand
    /\ Kept

Given0(r) == IF stall THEN <<"stall">> ELSE IF Reads(r) THEN data ELSE <<"done">>

LEMMA GetSettingDoes ==
    ASSUME TypeOK, SETUPDAT \in Requests, switch = SETUPDAT.request, GetSetting, Kept
    PROVE  /\ Device' = After(Device, SETUPDAT)
           /\ ~stall => Given0(SETUPDAT)' = Answer(Device, SETUPDAT)
PROOF
  BY RequestsAssumption
  DEF GetSetting, Case, Puts, Device, After, Given0, Reads, Answer, Kept, settings

LEMMA SetSettingDoes ==
    ASSUME TypeOK, SETUPDAT \in Requests, switch = SETUPDAT.request, SetSetting, Kept
    PROVE  /\ Device' = After(Device, SETUPDAT)
           /\ ~stall => Given0(SETUPDAT)' = Answer(Device, SETUPDAT)
PROOF
  BY RequestsAssumption
  DEF SetSetting, Case, Nothing, Device, After, Given0, Reads, Answer, Kept

LEMMA GetStatusDoes ==
    ASSUME TypeOK, SETUPDAT \in Requests, switch = SETUPDAT.request, GetStatus, Kept
    PROVE  /\ Device' = After(Device, SETUPDAT)
           /\ ~stall => Given0(SETUPDAT)' = Answer(Device, SETUPDAT)
PROOF
  BY RequestsAssumption
  DEF GetStatus, Case, Puts, Stalls, Device, After, Given0, Reads, Answer, Kept, settings,
      Request

LEMMA ClearFeatureDoes ==
    ASSUME TypeOK, SETUPDAT \in Requests, switch = SETUPDAT.request, ClearFeature, Kept
    PROVE  /\ Device' = After(Device, SETUPDAT)
           /\ ~stall => Given0(SETUPDAT)' = Answer(Device, SETUPDAT)
PROOF
<1>1. SETUPDAT \in Request /\ SETUPDAT.index \in Endpoints
  BY RequestsAssumption DEF Request
<1>2. {e \in Endpoints : epcs(e) \in halted \ {epcs(SETUPDAT.index)}}
        = {e \in Endpoints : epcs(e) \in halted} \ {SETUPDAT.index}
  BY <1>1, Registers
<1>3. ~stall => Given0(SETUPDAT)' = Answer(Device, SETUPDAT)
  BY <1>1 DEF ClearFeature, Case, Nothing, Stalls, Given0, Reads, Answer, Kept, Request
<1>4. Device' = After(Device, SETUPDAT)
  BY <1>1, <1>2 DEF ClearFeature, Case, Device, After, Kept, Request
<1> QED
  BY <1>3, <1>4

LEMMA SetFeatureDoes ==
    ASSUME TypeOK, SETUPDAT \in Requests, switch = SETUPDAT.request, SetFeature, Kept
    PROVE  /\ Device' = After(Device, SETUPDAT)
           /\ ~stall => Given0(SETUPDAT)' = Answer(Device, SETUPDAT)
PROOF
<1>1. SETUPDAT \in Request /\ SETUPDAT.index \in Endpoints
  BY RequestsAssumption DEF Request
<1>2. {e \in Endpoints : epcs(e) \in halted \union {epcs(SETUPDAT.index)}}
        = {e \in Endpoints : epcs(e) \in halted} \union {SETUPDAT.index}
  BY <1>1, Registers
<1>3. ~stall => Given0(SETUPDAT)' = Answer(Device, SETUPDAT)
  BY <1>1 DEF SetFeature, Case, Nothing, Stalls, Given0, Reads, Answer, Kept, Request
<1>4. SETUPDAT.request = "SET_FEATURE"
      /\ UNCHANGED <<Configuration, AlternateSetting, nakall>>
  BY DEF SetFeature, Case
<1>5. CASE SETUPDAT.recipient = "endpoint"
  <2>1. After(Device, SETUPDAT)
          = [Device EXCEPT !.halted = @ \union {SETUPDAT.index}]
    BY <1>4, <1>5 DEF After
  <2>2. UNCHANGED Rwuen /\ halted' = halted \union {epcs(SETUPDAT.index)}
    BY <1>5 DEF SetFeature
  <2> QED
    BY <1>2, <1>3, <1>4, <2>1, <2>2 DEF Device
<1>6. CASE SETUPDAT.recipient = "device"
  <2>1. CASE SETUPDAT.low = 1
    <3>1. After(Device, SETUPDAT) = [Device EXCEPT !.Rwuen = TRUE]
      BY <1>4, <1>6, <2>1 DEF After
    <3>2. Rwuen' = TRUE /\ UNCHANGED halted
      BY <1>6, <2>1 DEF SetFeature
    <3> QED
      BY <1>3, <1>4, <3>1, <3>2 DEF Device
  <2>2. CASE SETUPDAT.low # 1
    <3>1. After(Device, SETUPDAT) = Device
      BY <1>4, <1>6, <2>2 DEF After
    <3>2. UNCHANGED <<Rwuen, halted>>
      BY <1>6, <2>2 DEF SetFeature
    <3> QED
      BY <1>3, <1>4, <3>1, <3>2 DEF Device
  <2> QED
    BY <2>1, <2>2
<1>7. CASE SETUPDAT.recipient \notin {"device", "endpoint"}
  <2>1. After(Device, SETUPDAT) = Device
    BY <1>4, <1>7 DEF After
  <2>2. UNCHANGED <<Rwuen, halted>>
    BY <1>7 DEF SetFeature
  <2> QED
    BY <1>3, <1>4, <2>1, <2>2 DEF Device
<1> QED
  BY <1>1, <1>5, <1>6, <1>7

LEMMA VendorCommandDoes ==
    ASSUME TypeOK, SETUPDAT \in Requests, switch = SETUPDAT.request, VendorCommand, Kept
    PROVE  /\ Device' = After(Device, SETUPDAT)
           /\ ~stall => Given0(SETUPDAT)' = Answer(Device, SETUPDAT)
PROOF
  BY RequestsAssumption
  DEF VendorCommand, Case, Nothing, Stalls, Device, After, Given0, Reads, Answer, Kept

-----------------------------------------------------------------------------
(* Types, and what is in SETUPDAT *)

LEMMA ToldStays ==
    ASSUME TypeOK, InSetup
    PROVE  Unsure \subseteq State /\ told \subseteq Unsure
PROOF
  BY AfterInState DEF Unsure, TypeOK

LEMMA ExecuteTypes ==
    ASSUME TypeOK, InSetup, Execute, UNCHANGED <<bus, wu, told>>,
           UNCHANGED <<dscrs, irq, speed, pins, asked, overtaken>>
    PROVE  TypeOK' /\ InSetup' /\ pc = "act" /\ pc' = "acknowledge"
PROOF
<1>1. pc = "act" /\ pc' = "acknowledge" /\ GotSUD
  BY DEF Execute, GetSetting, SetSetting, GetStatus, ClearFeature, SetFeature,
         VendorCommand, Case, InSetup
<1>2. /\ SETUPDAT \in Requests
      /\ SETUPDAT.low \in Value
      /\ SETUPDAT.index \in Endpoints
  BY <1>1, RequestsAssumption DEF InSetup, Value, Request
<1>3. epcs(SETUPDAT.index) \in 0 .. 5
  BY <1>2, Registers
<1>4. /\ {Rwuen', nakall', stall'} \subseteq BOOLEAN
      /\ Configuration' \in Value /\ AlternateSetting' \in Value
      /\ halted' \subseteq 0 .. 5
  <2> USE <1>2, <1>3 DEF TypeOK, Case
  <2>1. CASE GetSetting
    BY <2>1 DEF GetSetting, Puts, settings
  <2>2. CASE SetSetting
    BY <2>2 DEF SetSetting, Nothing
  <2>3. CASE GetStatus
    BY <2>3 DEF GetStatus, Puts, Stalls, settings
  <2>4. CASE ClearFeature
    BY <2>4 DEF ClearFeature, Nothing, Stalls
  <2>5. CASE SetFeature
    BY <2>5 DEF SetFeature, Nothing, Stalls
  <2>6. CASE VendorCommand
    BY <2>6 DEF VendorCommand, Nothing, Stalls
  <2> QED
    BY <2>1, <2>2, <2>3, <2>4, <2>5, <2>6 DEF Execute
<1>5. TypeOK'
  BY <1>1, <1>4 DEF TypeOK, Execute, Kept, flags, dscrs, State, Value
<1>6. InSetup'
  BY <1>1 DEF InSetup, Execute, Kept, flags
<1> QED
  BY <1>1, <1>5, <1>6

LEMMA TypeNext ==
    ASSUME TypeOK, InSetup, [Next]_vars
    PROVE  TypeOK' /\ InSetup'
PROOF
<1>1. CASE SetupCommand /\ main
  <2> USE <1>1 DEF main, loop, flags, settings, core, dscrs
  <2>1. CASE Dispatch
    BY <2>1 DEF Dispatch, SetupCommand, TypeOK, InSetup, State
  <2>2. CASE GetDescriptor
    BY <2>2 DEF GetDescriptor, Nothing, Stalls, SetupCommand, TypeOK, InSetup, State
  <2>3. CASE PointerLow
    BY <2>3 DEF PointerLow, SetupCommand, TypeOK, InSetup, State
  <2>4. CASE Acknowledge
    BY <2>4 DEF Acknowledge, SetupCommand, TypeOK, InSetup, State
  <2>5. CASE Execute
    BY <2>5, ExecuteTypes DEF SetupCommand
  <2> QED
    BY <2>1, <2>2, <2>3, <2>4, <2>5 DEF SetupCommand, Execute, Kept
<1>2. CASE main /\ ~SetupCommand
  <2> USE <1>2 DEF main, settings, core, dscrs
  <2>1. CASE Poll
    <3>1. \A d \in told : [d EXCEPT !.nakall = FALSE] \in State
      BY DEF TypeOK, State
    <3> QED
      BY <2>1, <3>1 DEF Poll, flags, TypeOK, InSetup
  <2>2. CASE CheckSetup
    BY <2>2 DEF CheckSetup, flags, TypeOK, InSetup
  <2>3. CASE ClearGotSUD
    BY <2>3 DEF ClearGotSUD, TypeOK, InSetup
  <2>4. CASE CheckSleep
    BY <2>4 DEF CheckSleep, TypeOK, InSetup
  <2>5. CASE EZUSB_Susp
    BY <2>5 DEF EZUSB_Susp, flags, TypeOK, InSetup
  <2>6. CASE WakeUp
    BY <2>6 DEF WakeUp, flags, TypeOK, InSetup
  <2>7. CASE CheckWakeup
    BY <2>7 DEF CheckWakeup, flags, TypeOK, InSetup
  <2>8. CASE EZUSB_Resume
    BY <2>8 DEF EZUSB_Resume, flags, TypeOK, InSetup
  <2> QED
    BY <2>1, <2>2, <2>3, <2>4, <2>5, <2>6, <2>7, <2>8
<1>3. CASE Interrupt
  <2> USE <1>3 DEF Interrupt, flags, dscrs, loop, settings, core, host
  <2>1. CASE ISR_Sudav
    BY <2>1 DEF ISR_Sudav, TypeOK, InSetup
  <2>2. CASE ISR_Susp
    BY <2>2 DEF ISR_Susp, TypeOK, InSetup
  <2>3. CASE ISR_Ures
    BY <2>3 DEF ISR_Ures, PointTo, OtherSpeed, Speed, TypeOK, InSetup
  <2>4. CASE ISR_Highspeed
    BY <2>4 DEF ISR_Highspeed, PointTo, OtherSpeed, Speed, TypeOK, InSetup
  <2> QED
    BY <2>1, <2>2, <2>3, <2>4
<1>4. CASE Host
  <2> USE DEF loop, flags, settings, dscrs, core
  <2>1. ASSUME NEW r \in Requests, Ask(r) PROVE TypeOK' /\ InSetup'
    <3>1. overtaken' \in BOOLEAN /\ told' \subseteq State
      BY <2>1 DEF Ask, TypeOK
    <3> QED
      BY <2>1, <3>1, RequestsAssumption DEF Ask, TypeOK, InSetup
  <2>2. CASE TakeAnswer
    <3>1. told' \subseteq State
      BY <2>2, AfterInState DEF TakeAnswer, TypeOK
    <3>2. /\ asked' = None /\ overtaken' = FALSE
          /\ UNCHANGED <<loop, flags, settings, dscrs, core, wires>>
      BY <2>2 DEF TakeAnswer
    <3> QED
      BY <3>1, <3>2 DEF wires, TypeOK, InSetup
  <2>3. CASE GiveUp
    <3>1. told' \subseteq State
      BY <2>3, ToldStays DEF GiveUp
    <3>2. /\ asked' = None /\ overtaken' = FALSE
          /\ UNCHANGED <<loop, flags, settings, dscrs, core, wires>>
      BY <2>3 DEF GiveUp
    <3> QED
      BY <3>1, <3>2 DEF wires, TypeOK, InSetup
  <2>4. CASE BusReset
    BY <2>4, ToldStays DEF BusReset, Reset, Speed, TypeOK, InSetup
  <2>5. CASE Suspend
    BY <2>5 DEF Suspend, host, TypeOK, InSetup
  <2>6. CASE Resume
    BY <2>6 DEF Resume, host, TypeOK, InSetup
  <2> QED
    BY <1>4, <2>1, <2>2, <2>3, <2>4, <2>5, <2>6 DEF Host
<1>5. CASE PullPin
  BY <1>5, CountsAssumption
  DEF PullPin, host, loop, flags, settings, dscrs, core, TypeOK, InSetup
<1>6. CASE UNCHANGED vars
  BY <1>6 DEF vars, loop, flags, settings, dscrs, core, wires, host, TypeOK, InSetup
<1> QED
  BY <1>1, <1>2, <1>3, <1>4, <1>5, <1>6 DEF Next, main

-----------------------------------------------------------------------------
(* The speed, and the wakeup *)

LEMMA AtSpeedNext ==
    ASSUME TypeOK, AtSpeed, [Next]_vars
    PROVE  AtSpeed'
PROOF
<1>1. CASE main
  BY <1>1 DEF main, dscrs, AtSpeed
<1>2. CASE Interrupt
  <2> USE <1>2 DEF Interrupt, dscrs, host
  <2>1. CASE ISR_Sudav
    BY <2>1 DEF ISR_Sudav, AtSpeed
  <2>2. CASE ISR_Susp
    BY <2>2 DEF ISR_Susp, AtSpeed
  <2>3. CASE ISR_Ures
    BY <2>3 DEF ISR_Ures, PointTo, Speed, TypeOK, AtSpeed
  <2>4. CASE ISR_Highspeed
    BY <2>4 DEF ISR_Highspeed, PointTo, Speed, TypeOK, AtSpeed
  <2> QED
    BY <2>1, <2>2, <2>3, <2>4
<1>3. CASE Host
  <2> USE DEF dscrs
  <2>1. ASSUME NEW r \in Requests, Ask(r) PROVE AtSpeed'
    BY <2>1 DEF Ask, AtSpeed
  <2>2. CASE TakeAnswer
    BY <2>2 DEF TakeAnswer, wires, AtSpeed
  <2>3. CASE GiveUp
    BY <2>3 DEF GiveUp, wires, AtSpeed
  <2>4. CASE BusReset
    BY <2>4 DEF BusReset, Reset, Speed, AtSpeed
  <2>5. CASE Suspend
    BY <2>5 DEF Suspend, host, AtSpeed
  <2>6. CASE Resume
    BY <2>6 DEF Resume, host, AtSpeed
  <2> QED
    BY <1>3, <2>1, <2>2, <2>3, <2>4, <2>5, <2>6 DEF Host
<1>4. CASE PullPin
  BY <1>4 DEF PullPin, dscrs, host, AtSpeed
<1>5. CASE UNCHANGED vars
  BY <1>5 DEF vars, dscrs, wires, host, AtSpeed
<1> QED
  BY <1>1, <1>2, <1>3, <1>4, <1>5 DEF Next

LEMMA AwakeNext ==
    ASSUME TypeOK, Awake, [Next]_vars
    PROVE  Awake'
PROOF
<1>1. CASE main /\ SetupCommand
  <2>1. pc' \in {"act", "low", "acknowledge", "clear"}
    BY <1>1 DEF SetupCommand, Dispatch, GetDescriptor, PointerLow, Acknowledge, GetSetting,
                SetSetting, GetStatus, ClearFeature, SetFeature, VendorCommand, Case
  <2> QED
    BY <2>1 DEF Awake
<1>2. CASE main /\ ~SetupCommand
  <2> USE <1>2 DEF main, settings
  <2>1. CASE Poll \/ CheckSetup \/ ClearGotSUD \/ CheckSleep \/ EZUSB_Susp
    BY <2>1 DEF Poll, CheckSetup, ClearGotSUD, CheckSleep, EZUSB_Susp, Awake
  <2>2. CASE WakeUp
    BY <2>2 DEF WakeUp, TypeOK, Awake
  <2>3. CASE CheckWakeup
    BY <2>3 DEF CheckWakeup, Awake
  <2>4. CASE EZUSB_Resume
    BY <2>4 DEF EZUSB_Resume, Awake
  <2> QED
    BY <2>1, <2>2, <2>3, <2>4
<1>3. CASE Interrupt
  BY <1>3 DEF Interrupt, loop, settings, Awake
<1>4. CASE Host
  <2> USE DEF loop, settings, wires
  <2>1. CASE TakeAnswer \/ GiveUp \/ \E r \in Requests : Ask(r)
    BY <2>1 DEF TakeAnswer, GiveUp, Ask, Awake
  <2>2. CASE BusReset \/ Suspend \/ Resume
    BY <2>2 DEF BusReset, Suspend, Resume, Awake
  <2> QED
    BY <1>4, <2>1, <2>2 DEF Host
<1>5. CASE PullPin
  BY <1>5 DEF PullPin, loop, settings, TypeOK, Awake
<1>6. CASE UNCHANGED vars
  BY <1>6 DEF vars, loop, settings, wires, Awake
<1> QED
  BY <1>1, <1>2, <1>3, <1>4, <1>5, <1>6 DEF Next

-----------------------------------------------------------------------------
(* What the host knows *)

Known == Closed /\ Overtook /\ Waiting /\ Served

\* Steps that neither ask nor execute nor answer anything.
Quiet ==
    /\ UNCHANGED <<settings, asked, overtaken, told, SETUPDAT, data, stall, speed>>
    /\ Unserved' => Unserved
    /\ asked # None /\ ~overtaken /\ Unserved => Unserved' /\ UNCHANGED hsnak
    /\ pc' = "act" => switch' = SETUPDAT.request \/ UNCHANGED <<pc, switch>>
    /\ pc = "low" \/ pc' = "low" => UNCHANGED <<pc, switch, pointer, hsnak>>
    /\ "SUDAV" \in irq' => "SUDAV" \in irq /\ (UNCHANGED pc \/ (~Behind' /\ pc' # "act"))

LEMMA SameAnswer ==
    ASSUME UNCHANGED speed, NEW d, NEW r
    PROVE  Answer(d, r)' = Answer(d, r)
PROOF
  BY DEF Answer

LEMMA QuietKnows ==
    ASSUME TypeOK, InSetup, Known, Quiet
    PROVE  Known'
PROOF
<1>1. Device' = Device
  BY DEF Quiet, Device, settings
<1>2. Overtook'
  BY DEF Quiet, Known, Overtook
<1>3. Closed'
  BY <1>1 DEF Quiet, Known, Closed
<1>4. Waiting'
  BY <1>1 DEF Quiet, Known, Waiting, InSetup, Behind
<1>5. Served'
  <2> SUFFICES ASSUME asked # None, ~overtaken, ~Unserved' PROVE Served'
    BY DEF Served, Quiet
  <2>1. PICK d \in told :
          /\ After(d, asked) = Device
          /\ pc # "low" => Answer(d, asked) = Given
          /\ pc = "low" => hsnak /\ ~stall /\ data = << >> /\ Pointed
    BY DEF Quiet, Known, Served
  <2>2. After(d, asked)' = Device'
    BY <1>1, <2>1 DEF Quiet
  <2>3. pc' # "low" => Answer(d, asked)' = Given'
    BY <2>1 DEF Quiet, Answer, Given, Reads
  <2>4. pc' = "low" => (hsnak /\ ~stall /\ data = << >> /\ Pointed)'
    BY <2>1 DEF Quiet, Pointed
  <2>5. d \in told'
    BY DEF Quiet
  <2> QED
    BY <2>2, <2>3, <2>4, <2>5 DEF Served
<1> QED
  BY <1>2, <1>3, <1>4, <1>5 DEF Known

\* The steps of main that are quiet.
LEMMA MainQuiet ==
    ASSUME TypeOK, InSetup, Known, main,
           \/ (Dispatch \/ Acknowledge) /\ UNCHANGED <<bus, wu, told>>
           \/ CheckSetup \/ ClearGotSUD \/ CheckSleep \/ EZUSB_Susp \/ WakeUp
           \/ CheckWakeup \/ EZUSB_Resume
    PROVE  Known'
PROOF
<1> USE DEF main, flags, Behind, Unserved, Quiet
<1>1. CASE Dispatch /\ UNCHANGED <<bus, wu, told>>
  <2>1. Quiet
    BY <1>1 DEF Dispatch, core
  <2> QED
    BY <2>1, QuietKnows
<1>2. CASE Acknowledge /\ UNCHANGED <<bus, wu, told>>
  <2>1. Quiet
    BY <1>2 DEF Acknowledge
  <2> QED
    BY <2>1, QuietKnows
<1>3. CASE CheckSetup
  <2>1. Quiet
    BY <1>3 DEF CheckSetup, core
  <2> QED
    BY <2>1, QuietKnows
<1>4. CASE ClearGotSUD
  <2>1. Quiet
    BY <1>4, InSetup DEF ClearGotSUD, core, TypeOK
  <2> QED
    BY <2>1, QuietKnows
<1>5. CASE CheckSleep
  <2>1. Quiet
    BY <1>5 DEF CheckSleep, core
  <2> QED
    BY <2>1, QuietKnows
<1>6. CASE EZUSB_Susp \/ WakeUp \/ CheckWakeup \/ EZUSB_Resume
  <2>1. Quiet
    BY <1>6 DEF EZUSB_Susp, WakeUp, CheckWakeup, EZUSB_Resume, core
  <2> QED
    BY <2>1, QuietKnows
<1> QED
  BY <1>1, <1>2, <1>3, <1>4, <1>5, <1>6

\* TD_Poll clears NAKALL, and the host knows that it may.
LEMMA PollClears ==
    ASSUME Poll, nakall' = FALSE
    PROVE  Device' = [Device EXCEPT !.nakall = FALSE]
PROOF
<1>1. /\ Rwuen' = Rwuen /\ Configuration' = Configuration
      /\ AlternateSetting' = AlternateSetting /\ halted' = halted
  BY DEF Poll
<1>2. {e \in Endpoints : epcs(e) \in halted}' = {e \in Endpoints : epcs(e) \in halted}
  BY <1>1
<1>3. ASSUME NEW d, d = [Device EXCEPT !.nakall = FALSE] PROVE Device' = d
  BY <1>1, <1>2, <1>3 DEF Device
<1> QED
  BY <1>3

LEMMA PollKnows ==
    ASSUME TypeOK, InSetup, Known, main, Poll
    PROVE  Known'
PROOF
<1> USE DEF main, Poll, flags, core, dscrs
<1>1. CASE UNCHANGED <<nakall, told>>
  <2>1. Quiet
    BY <1>1 DEF Quiet, Behind, Unserved, settings
  <2> QED
    BY <2>1, QuietKnows
<1>2. CASE asked = None /\ nakall' = FALSE
           /\ told' = told \union {[d EXCEPT !.nakall = FALSE] : d \in told}
  <2>1. Device' = [Device EXCEPT !.nakall = FALSE]
    BY <1>2, PollClears
  <2>2. Device \in told /\ (Unserved => After(Device, SETUPDAT) \in told)
    BY <1>2 DEF Known, Closed
  <2>3. Device' \in told'
    BY <1>2, <2>1, <2>2
  <2>4. ASSUME Unserved PROVE After(Device', SETUPDAT) \in told'
    <3>1. CASE SETUPDAT.request \in {"VR_NAKALL_ON", "VR_NAKALL_OFF"}
      <4>1. After(Device', SETUPDAT) = After(Device, SETUPDAT)
        BY <2>1, <3>1 DEF After, Device
      <4> QED
        BY <1>2, <2>2, <2>4, <4>1
    <3>2. CASE SETUPDAT.request \notin {"VR_NAKALL_ON", "VR_NAKALL_OFF"}
      <4>1. After(Device', SETUPDAT) = [After(Device, SETUPDAT) EXCEPT !.nakall = FALSE]
        BY <2>1, <3>2 DEF After, Device
      <4> QED
        BY <1>2, <2>2, <2>4, <4>1
    <3> QED
      BY <3>1, <3>2
  <2>5. Closed'
    BY <1>2, <2>3, <2>4 DEF Closed, Unserved, Behind
  <2> QED
    BY <1>2, <2>5 DEF Known, Overtook, Waiting, Served
<1> QED
  BY <1>1, <1>2

LEMMA InterruptKnows ==
    ASSUME TypeOK, InSetup, Known, Interrupt
    PROVE  Known'
PROOF
<1>1. Quiet
  <2> USE DEF Interrupt, Quiet, Behind, Unserved, loop, core, host, flags
  <2>1. CASE ISR_Sudav
    BY <2>1 DEF ISR_Sudav, Known, Waiting
  <2>2. CASE ISR_Susp
    BY <2>2 DEF ISR_Susp
  <2>3. CASE ISR_Ures
    BY <2>3 DEF ISR_Ures
  <2>4. CASE ISR_Highspeed
    BY <2>4 DEF ISR_Highspeed
  <2> QED
    BY <2>1, <2>2, <2>3, <2>4
<1> QED
  BY <1>1, QuietKnows

LEMMA BusKnows ==
    ASSUME TypeOK, InSetup, Known, Suspend \/ Resume \/ PullPin \/ UNCHANGED vars
    PROVE  Known'
PROOF
<1>1. Quiet
  <2> USE DEF Quiet, Behind, Unserved, loop, core, host, flags, wires
  <2>1. CASE Suspend
    BY <2>1 DEF Suspend
  <2>2. CASE Resume
    BY <2>2 DEF Resume
  <2>3. CASE PullPin
    BY <2>3 DEF PullPin
  <2>4. CASE UNCHANGED vars
    BY <2>4 DEF vars
  <2> QED
    BY <2>1, <2>2, <2>3, <2>4
<1> QED
  BY <1>1, QuietKnows

LEMMA ExecuteDoes ==
    ASSUME TypeOK, SETUPDAT \in Requests, switch = SETUPDAT.request, Execute
    PROVE  /\ Device' = After(Device, SETUPDAT)
           /\ ~stall => Given0(SETUPDAT)' = Answer(Device, SETUPDAT)
PROOF
  BY GetSettingDoes, SetSettingDoes, GetStatusDoes, ClearFeatureDoes, SetFeatureDoes,
     VendorCommandDoes DEF Execute

\* A request that is executed, in one step: whatever the device becomes is a state the
\* host reckons with, and the answer is right.
LEMMA ExecuteKnows ==
    ASSUME TypeOK, InSetup, Known, Execute, irq = {}, UNCHANGED <<bus, wu, told>>,
           UNCHANGED <<dscrs, irq, speed, pins, asked, overtaken>>
    PROVE  Known'
PROOF
<1>1. TypeOK' /\ pc = "act" /\ pc' = "acknowledge"
  BY ExecuteTypes
<1>2. GotSUD /\ SETUPDAT \in Requests /\ Unserved /\ ~Unserved'
  BY <1>1 DEF InSetup, Unserved, Behind
<1>3. Device' \in State
  BY <1>1, DeviceInStateNext
<1>4. Overtook'
  BY DEF Known, Overtook
<1>5. Closed'
  <2> SUFFICES ASSUME asked = None PROVE Device' \in told
    BY <1>1, <1>2 DEF Closed
  <2>1. CASE switch = SETUPDAT.request
    BY <1>2, <2>1, ExecuteDoes DEF Known, Closed
  <2>2. CASE switch # SETUPDAT.request
    BY <1>1, <1>2, <1>3, <2>2 DEF Known, Closed
  <2> QED
    BY <2>1, <2>2
<1>6. Waiting'
  BY <1>2 DEF Waiting
<1>7. Served'
  <2> SUFFICES ASSUME asked # None, ~overtaken PROVE Served'
    BY DEF Served
  <2>1. Device \in told /\ ~stall /\ switch = SETUPDAT.request /\ SETUPDAT = asked
    BY <1>1, <1>2 DEF Known, Waiting, InSetup
  <2>2. After(Device, asked) = Device' /\ Given0(asked)' = Answer(Device, asked)
    BY <1>2, <2>1, ExecuteDoes DEF Execute, Kept
  <2>3. PICK d \in told : d = Device
    BY <2>1
  <2>4. After(d, asked)' = Device' /\ Answer(d, asked)' = Given'
    BY <2>2, <2>3, SameAnswer DEF Given, Given0, Answer
  <2> QED
    BY <1>1, <2>4 DEF Served
<1> QED
  BY <1>4, <1>5, <1>6, <1>7 DEF Known

\* The address of a descriptor is written, or there is none.
LEMMA DescriptorKnows ==
    ASSUME TypeOK, InSetup, AtSpeed, Known, GetDescriptor, irq = {},
           UNCHANGED <<bus, wu, told>>,
           UNCHANGED <<dscrs, irq, speed, pins, asked, overtaken>>
    PROVE  Known'
PROOF
<1>1. /\ pc = "act" /\ pc' \in {"low", "acknowledge"} /\ switch = "GET_DESCRIPTOR"
      /\ UNCHANGED <<settings, GotSUD, SETUPDAT, hsnak>>
  BY DEF GetDescriptor, flags
<1>2. GotSUD /\ SETUPDAT \in Requests /\ Unserved /\ ~Unserved' /\ pc' # "act"
  BY <1>1 DEF InSetup, Unserved, Behind
<1>3. Device' = Device /\ Device \in State
  BY <1>1, DeviceInState DEF Device, settings
<1>4. Closed'
  BY <1>1, <1>2, <1>3 DEF Known, Closed
<1>5. Served'
  <2> SUFFICES ASSUME asked # None, ~overtaken PROVE Served'
    BY DEF Served
  <2>1. /\ Device \in told /\ hsnak /\ ~stall /\ data = << >>
        /\ asked.request = "GET_DESCRIPTOR" /\ SETUPDAT = asked
    BY <1>1, <1>2 DEF Known, Waiting, InSetup
  <2>2. pConfigDscr = speed /\ pOtherConfigDscr = OtherSpeed(speed)
    BY DEF AtSpeed, TypeOK
  <2>3. PICK d \in told : d = Device
    BY <2>1
  <2>4. After(d, asked)' = Device'
    BY <1>3, <2>1, <2>3 DEF After
  <2>5. asked \in Request
    BY <1>2, <2>1, RequestsAssumption
  <2>6. CASE pc' = "low"
    <3>1. hsnak' /\ ~stall' /\ data' = << >>
      BY <1>1, <2>1, <2>6 DEF GetDescriptor, Nothing
    <3>2. Pointed'
      BY <2>1, <2>2, <2>6 DEF GetDescriptor, Pointed, OtherSpeed
    <3> QED
      BY <2>4, <2>6, <3>1, <3>2 DEF Served
  <2>7. CASE pc' = "acknowledge"
    <3>1. /\ stall'
          /\ asked.high = "other" \/ (asked.high = "string" /\ ~(asked.low < NStrings))
      <4>1. /\ stall' = TRUE
            /\ asked.high = "other" \/ (asked.high = "string" /\ asked.low >= NStrings)
        BY <2>1, <2>7 DEF GetDescriptor, Stalls
      <4>2. asked.low \in Nat /\ NStrings \in Nat
        BY <2>5, CountsAssumption DEF Request
      <4> QED
        BY <4>1, <4>2
    <3>2. Answer(d, asked)' = <<"stall">>
      BY <2>1, <3>1 DEF Answer
    <3> QED
      BY <2>4, <2>7, <3>1, <3>2 DEF Served, Given
  <2> QED
    BY <1>1, <2>6, <2>7
<1>6. Overtook' /\ Waiting'
  BY <1>2 DEF Known, Overtook, Waiting
<1> QED
  BY <1>4, <1>5, <1>6 DEF Known

LEMMA PointerKnows ==
    ASSUME TypeOK, InSetup, AtSpeed, Known, PointerLow, irq = {},
           UNCHANGED <<bus, wu, told>>,
           UNCHANGED <<dscrs, irq, speed, pins, asked, overtaken>>
    PROVE  Known'
PROOF
<1>1. /\ pc = "low" /\ pc' = "acknowledge"
      /\ UNCHANGED <<settings, GotSUD, SETUPDAT, stall>>
  BY DEF PointerLow, flags
<1>2. ~Unserved /\ ~Unserved'
  BY <1>1 DEF Unserved, Behind
<1>3. Device' = Device
  BY <1>1 DEF Device, settings
<1>4. Closed'
  BY <1>1, <1>2, <1>3 DEF Known, Closed
<1>5. Served'
  <2> SUFFICES ASSUME asked # None, ~overtaken PROVE Served'
    BY DEF Served
  <2>1. PICK d \in told : After(d, asked) = Device /\ ~stall /\ Pointed
    BY <1>1, <1>2 DEF Known, Served
  <2>2. /\ pConfigDscr = speed /\ pOtherConfigDscr = OtherSpeed(speed) /\ speed \in Speed
        /\ type = [s \in Speed |-> IF s = speed THEN "CONFIG" ELSE "OTHERSPEED"]
    BY DEF AtSpeed, TypeOK
  <2>3. Answer(d, asked)' = data'
    <3> USE <2>1, <2>2 DEF PointerLow, Answer, Pointed
    <3>1. CASE asked.high \in {"device", "qualifier"}
      BY <3>1 DEF Speed
    <3>2. CASE asked.high = "configuration"
      BY <3>2
    <3>3. CASE asked.high = "other_speed"
      BY <3>3 DEF OtherSpeed, Speed
    <3>4. CASE asked.high = "string"
      BY <3>4 DEF Speed
    <3> QED
      BY <3>1, <3>2, <3>3, <3>4
  <2>4. Answer(d, asked)' = Given'
    BY <1>1, <2>1, <2>3 DEF Given, Reads, Pointed
  <2>5. After(d, asked)' = Device'
    BY <1>3, <2>1
  <2> QED
    BY <1>1, <2>4, <2>5 DEF Served
<1>6. Overtook' /\ Waiting'
  BY <1>2 DEF Known, Overtook, Waiting
<1> QED
  BY <1>4, <1>5, <1>6 DEF Known

LEMMA MainKnows ==
    ASSUME TypeOK, InSetup, AtSpeed, Known, main
    PROVE  Known'
PROOF
<1>1. CASE SetupCommand
  <2>1. pc # "asleep" /\ UNCHANGED <<bus, wu, told>>
    BY <1>1 DEF SetupCommand, Dispatch, GetDescriptor, PointerLow, Acknowledge, GetSetting,
                SetSetting, GetStatus, ClearFeature, SetFeature, VendorCommand, Case
  <2>2. irq = {} /\ UNCHANGED <<dscrs, irq, speed, pins, asked, overtaken>>
    BY <2>1 DEF main
  <2> QED
    BY <1>1, <2>1, <2>2, MainQuiet, DescriptorKnows, PointerKnows, ExecuteKnows
    DEF SetupCommand, Execute, Kept
<1> QED
  BY <1>1, MainQuiet, PollKnows DEF main

LEMMA HostKnows ==
    ASSUME TypeOK, InSetup, Known, Host
    PROVE  Known'
PROOF
<1>1. ASSUME NEW r \in Requests, Ask(r) PROVE Known'
  <2>1. /\ asked = None /\ asked' = r /\ asked' # None /\ Unserved'
        /\ hsnak' = TRUE /\ stall' = FALSE /\ data' = << >>
        /\ overtaken' = (pc \in {"act", "low", "acknowledge", "clear"})
        /\ UNCHANGED <<pc, switch, settings>>
    BY <1>1, RequestsAssumption DEF Ask, Unserved, loop
  <2>2. told' = IF overtaken' THEN State ELSE told
    BY <1>1 DEF Ask
  <2>3. Device' = Device /\ Device \in told
    BY <2>1 DEF Device, settings, Known, Closed
  <2>4. Closed' /\ Overtook' /\ Served'
    BY <2>1, <2>2 DEF Closed, Overtook, Served
  <2>5. Waiting'
    BY <2>1, <2>2, <2>3 DEF Waiting, Behind
  <2> QED
    BY <2>4, <2>5 DEF Known
<1>2. CASE TakeAnswer
  <2>1. /\ asked # None /\ Answered /\ asked' = None /\ overtaken' = FALSE
        /\ UNCHANGED <<pc, switch, GotSUD, settings, SETUPDAT, irq>>
    BY <1>2 DEF TakeAnswer, loop, flags, core, wires
  <2>2. told' = IF overtaken THEN told
                ELSE {After(d, asked) : d \in {e \in told : Answer(e, asked) = Given}}
    BY <1>2 DEF TakeAnswer
  <2>3. Device' = Device /\ Unserved' = Unserved
    BY <2>1 DEF Device, settings, Unserved, Behind
  <2>4. Overtook' /\ Waiting' /\ Served'
    BY <2>1 DEF Overtook, Waiting, Served
  <2>5. CASE overtaken
    <3>1. told' = State
      BY <2>2, <2>5 DEF Known, Overtook
    <3>2. GotSUD \/ "SUDAV" \in irq => After(Device, SETUPDAT) \in State
      BY AfterInState, DeviceInState DEF InSetup
    <3>3. Closed'
      BY <2>1, <2>3, <3>1, <3>2, DeviceInState DEF Closed, Unserved
    <3> QED
      BY <2>4, <3>3 DEF Known
  <2>6. CASE ~overtaken
    <3>1. ~Unserved
      BY <2>1, <2>6 DEF Known, Waiting, Answered
    <3>2. pc # "low"
      BY <2>1, <2>6, <3>1 DEF Known, Served, Answered, Pointed, Reads
    <3>3. \E d \in told : After(d, asked) = Device /\ Answer(d, asked) = Given
      BY <2>1, <2>6, <3>1, <3>2 DEF Known, Served
    <3>4. Device \in told'
      BY <2>2, <2>6, <3>3
    <3>5. pc # "act"
      BY <3>1 DEF Unserved, Behind, InSetup
    <3>6. Closed'
      BY <2>1, <2>3, <3>1, <3>4, <3>5 DEF Closed
    <3> QED
      BY <2>4, <3>6 DEF Known
  <2> QED
    BY <2>5, <2>6
<1>3. ASSUME asked' = None, overtaken' = FALSE, told' = Unsure,
             UNCHANGED <<pc, switch, GotSUD, settings, SETUPDAT>>,
             Unserved' => Unserved
      PROVE  Known'
  <2>1. Device' = Device
    BY <1>3 DEF Device, settings
  <2>2. told' \subseteq State /\ told \subseteq told'
    BY <1>3, ToldStays
  <2>3. Overtook' /\ Waiting' /\ Served'
    BY <1>3 DEF Overtook, Waiting, Served
  <2>4. CASE asked = None
    BY <1>3, <2>1, <2>2, <2>3, <2>4 DEF Known, Closed, TypeOK
  <2>5. CASE overtaken
    <3>1. told' = State
      BY <2>2, <2>5 DEF Known, Overtook
    <3>2. GotSUD \/ "SUDAV" \in irq => After(Device, SETUPDAT) \in State
      BY AfterInState, DeviceInState DEF InSetup
    <3> QED
      BY <1>3, <2>1, <2>3, <3>1, <3>2, DeviceInState DEF Known, Closed, Unserved
  <2>6. CASE asked # None /\ ~overtaken
    <3>1. told' = told \union {After(d, asked) : d \in told} /\ asked = SETUPDAT
      BY <1>3, <2>6 DEF Unsure, InSetup
    <3>2. CASE Unserved
      BY <1>3, <2>1, <2>3, <2>6, <3>1, <3>2 DEF Known, Closed, Waiting
    <3>3. CASE ~Unserved
      <4>1. pc # "act"
        BY <3>3 DEF Unserved, Behind, InSetup
      <4>2. \E d \in told : After(d, asked) = Device
        BY <2>6, <3>3 DEF Known, Served
      <4> QED
        BY <1>3, <2>1, <2>3, <3>1, <3>3, <4>1, <4>2 DEF Known, Closed
    <3> QED
      BY <3>2, <3>3
  <2> QED
    BY <2>4, <2>5, <2>6
<1>4. CASE GiveUp
  <2>1. /\ asked' = None /\ overtaken' = FALSE /\ told' = Unsure
        /\ UNCHANGED <<pc, switch, GotSUD, settings, SETUPDAT, irq>>
    BY <1>4 DEF GiveUp, loop, flags, core, wires
  <2> QED
    BY <1>3, <2>1 DEF Unserved, Behind
<1>5. CASE BusReset
  <2>1. /\ asked' = None /\ overtaken' = FALSE /\ told' = Unsure /\ "SUDAV" \notin irq'
        /\ UNCHANGED <<pc, switch, GotSUD, settings, SETUPDAT>>
    BY <1>5 DEF BusReset, Reset, loop, flags, core
  <2> QED
    BY <1>3, <2>1 DEF Unserved, Behind
<1> QED
  BY <1>1, <1>2, <1>4, <1>5, BusKnows DEF Host

-----------------------------------------------------------------------------
(* The invariant *)

LEMMA Initially == Init => IInv
PROOF
<1> SUFFICES ASSUME Init PROVE IInv
  OBVIOUS
<1>1. TypeOK
  <2>1. Device \in State
    BY DEF Init, Device, State, Value
  <2>2. /\ irq \subseteq {"SUDAV", "SUSP", "URES", "HSGRANT"}
        /\ speed \in Speed /\ bus \in {"active", "suspended"} /\ pins \in 0 .. MaxPins
    <3>1. irq = Reset(speed) /\ speed \in Speed /\ bus = "active" /\ pins = 0
      BY DEF Init
    <3>2. irq \subseteq {"SUDAV", "SUSP", "URES", "HSGRANT"}
      BY <3>1 DEF Reset
    <3> QED
      BY <3>1, <3>2, CountsAssumption
  <2>3. /\ {GotSUD, Sleep, Rwuen, nakall, stall, hsnak, wu, overtaken} \subseteq BOOLEAN
        /\ Configuration \in Value /\ AlternateSetting \in Value
    BY DEF Init, Value
  <2>4. /\ pConfigDscr \in Speed /\ pOtherConfigDscr = OtherSpeed(pConfigDscr)
        /\ type \in [Speed -> {"CONFIG", "OTHERSPEED"}]
    BY DEF Init
  <2> QED
    BY <2>1, <2>2, <2>3, <2>4 DEF Init, TypeOK
<1>2. InSetup /\ AtSpeed /\ Closed /\ Overtook /\ Waiting /\ Served /\ Awake
  BY DEF Init, Reset, Speed, InSetup, AtSpeed, Closed, Overtook, Waiting, Served, Awake,
         Unserved
<1> QED
  BY <1>1, <1>2 DEF IInv

LEMMA Inductive == IInv /\ [Next]_vars => IInv'
PROOF
<1> SUFFICES ASSUME IInv, [Next]_vars PROVE IInv'
  OBVIOUS
<1>1. TypeOK' /\ InSetup'
  BY TypeNext DEF IInv
<1>2. AtSpeed' /\ Awake'
  BY AtSpeedNext, AwakeNext DEF IInv
<1>3. Known'
  BY MainKnows, InterruptKnows, HostKnows, BusKnows DEF IInv, Known, Next
<1> QED
  BY <1>1, <1>2, <1>3 DEF IInv, Known

\* The invariant holds in every state of the dispatcher and its host (fw.c:145-270).
THEOREM Invariance == Spec => []IInv
PROOF
  BY Initially, Inductive, PTL DEF Spec

\* The types, among them that the two configurations are always those of the two speeds
\* (main.c:442-476).
THEOREM TypeCorrect == Spec => []TypeOK
PROOF
<1>1. IInv => TypeOK
  BY DEF IInv
<1> QED
  BY Invariance, <1>1, PTL

\* A request that does not overtake another is answered what was asked for, whatever
\* requests, resets and suspensions came before it (fw.c:292-430).
THEOREM AnswersWhatIsAsked == Spec => []AnswersRight
PROOF
<1>1. IInv => AnswersRight
  <2> SUFFICES ASSUME IInv, asked # None, ~overtaken, Answered
               PROVE  \E d \in told : Answer(d, asked) = Given
    BY DEF AnswersRight
  <2>1. ~Unserved
    BY DEF IInv, Waiting, Answered
  <2>2. pc # "low"
    BY <2>1 DEF IInv, Served, Answered, Pointed, Reads
  <2> QED
    BY <2>1, <2>2 DEF IInv, Served
<1> QED
  BY Invariance, <1>1, PTL

\* What the device has acknowledged it has done, and nothing that was not asked
\* (fw.c:245-249).
THEOREM DoesNothingElse == Spec => []DoesWhatItAcknowledges
PROOF
<1>1. IInv => DoesWhatItAcknowledges
  BY DEF IInv, Closed, DoesWhatItAcknowledges
<1> QED
  BY Invariance, <1>1, PTL

\* A suspended host is woken only by a device it has allowed to (fw.c:261-265).
THEOREM WakesOnlyIfAllowed == Spec => []WakesIfAllowed
PROOF
<1>1. IInv => WakesIfAllowed
  BY DEF IInv, Awake, WakesIfAllowed
<1> QED
  BY Invariance, <1>1, PTL
=============================================================================
