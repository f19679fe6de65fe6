----------------------------- MODULE Enumeration -----------------------------
(***************************************************************************)
(* cusbfx2_open of lib/cusbfx2.c: a device is searched for by its id and   *)
(* opened; if it does not run the firmware, that is uploaded record by     *)
(* record, and the device searched for again while it restarts.            *)
(*                                                                         *)
(* The firmware's part is EZUSB_Discon (firmware/lib/discon.c): once it    *)
(* runs it leaves the bus for 1500 ms.  Time is counted in the waits of    *)
(* cusbfx2_open, 500 ms; everything else the host does takes none.  Of a   *)
(* device there is what its 8051 runs and whether it is on the bus; each   *)
(* time it comes to the bus is an attachment of its own, and a handle      *)
(* belongs to one.  The results of the control transfers are not looked at *)
(* by the program, so that any of them may be lost.                        *)
(*                                                                         *)
(* libusb_open returns 0 for success, which the program takes for failure  *)
(* (cusbfx2.c:100): an interface is claimed only when the device could not *)
(* be opened, through a handle that is NULL.                               *)
(*                                                                         *)
(* The names are such that the module can be extended together with        *)
(* UsbTransfer, which is about the rest of the file.                       *)
(***************************************************************************)
EXTENDS Integers, FiniteSets

CONSTANTS
    Device,         \* devices of this kind that are connected
    NRecords,       \* records of the firmware image, the last of which restarts
    RetryMax,       \* CUSBFX2_REENUM_RETRY_MAX
    AwayMin,        \* the least a restarting device is away, in waits
    AwayMax,        \* the most
    NoHandle

ASSUME TimesAssumption ==
    /\ RetryMax \in Nat /\ AwayMin \in Nat /\ AwayMax \in Nat
    /\ AwayMin <= AwayMax /\ AwayMax + 1 < RetryMax
ASSUME ImageAssumption == NRecords \in Nat \ {0}
ASSUME NoHandleAssumption == NoHandle \notin Device \X Nat

VARIABLES
    pc,             \* where cusbfx2_open is
    is_force_load,
    count,          \* its i: how often the search was repeated; the record to be sent
    usb_handle,     \* a device and its attachment
    opened,         \* history: handles opened and not closed
    uploaded,       \* history: the handle through which the firmware was sent
    unlisted,       \* history: repeated searches that could not have the list of devices
    fw,             \* what each device's 8051 does
    memory,         \* the records of the image in its memory
    on_bus,         \* whether the device is on the bus
    attachment,     \* how often it has come to the bus
    matches,        \* it has the id that is searched for
    away            \* for how long it has not been on the bus

opener == <<pc, count, usb_handle, opened, uploaded, unlisted>>
device == <<fw, memory, on_bus, attachment, matches, away>>
opening_vars == <<opener, is_force_load, device>>

Handle == Device \X Nat

\* The 8051 runs the firmware, something else, a part of the firmware, or nothing.
\* A device that restarts is still on the bus as it was before.
Firmware == {"right", "other", "broken", "stopped", "restarting"}

Image == 1 .. NRecords - 1

OpeningInit ==
    /\ pc = "search" /\ count = 0
    /\ is_force_load \in BOOLEAN
    /\ usb_handle = NoHandle /\ opened = {} /\ uploaded = NoHandle /\ unlisted = 0
    /\ fw \in [Device -> {"right", "other"}]
    /\ memory = [d \in Device |-> {}]
    /\ on_bus = [d \in Device |-> TRUE]
    /\ attachment = [d \in Device |-> 0]
    /\ matches \in [Device -> BOOLEAN]
    /\ away = [d \in Device |-> 0]

-----------------------------------------------------------------------------
(* cusbfx2_find_open *)

\* The first in the list of the devices that have the id.
Candidates == {d \in Device : on_bus[d] /\ matches[d]}

Open(d) ==
    /\ usb_handle' = <<d, attachment[d]>>
    /\ opened' = opened \union {usb_handle'}

\* libusb_open fails, and the interface of no handle is claimed.
ClaimsNull ==
    /\ pc \in {"search", "research"} /\ (pc = "research" => count < RetryMax)
    /\ Candidates # {}
    /\ pc' = "crashed"
    /\ UNCHANGED <<count, usb_handle, opened, uploaded, unlisted, is_force_load, device>>

-----------------------------------------------------------------------------
(* cusbfx2_open *)

\* There is no such device, or the list of the devices cannot be had, or it is found.
FirstSearch ==
    /\ pc = "search"
    /\ \/ /\ pc' = "failed"
          /\ UNCHANGED <<usb_handle, opened>>
       \/ \E d \in Candidates : Open(d) /\ pc' = "check"
    /\ UNCHANGED <<count, uploaded, unlisted, is_force_load, device>>

\* The manufacturer's string tells the firmware.  If it cannot be read it is what
\* happens to be on the stack.
Check ==
    /\ pc = "check"
    /\ \E matched \in BOOLEAN, read \in BOOLEAN :
          /\ read => (matched <=> fw[usb_handle[1]] = "right")
          /\ IF ~is_force_load /\ matched
             THEN pc' = "open" /\ UNCHANGED uploaded
             ELSE pc' = "stop" /\ uploaded' = usb_handle
    /\ UNCHANGED <<count, usb_handle, opened, unlisted, is_force_load, device>>

\* cusbfx2_load_firmware stops the 8051,
Stop ==
    /\ pc = "stop"
    /\ \E d \in Device :
          /\ d = usb_handle[1]
          /\ \/ UNCHANGED <<fw, memory>>
             \/ /\ fw' = [fw EXCEPT ![d] = "stopped"]
                /\ memory' = [memory EXCEPT ![d] = {}]
    /\ pc' = "write" /\ count' = 1
    /\ UNCHANGED <<usb_handle, opened, uploaded, unlisted, is_force_load, on_bus,
                   attachment, matches, away>>

\* writes the image to its memory, and lets it go again with the last record.  A
\* 8051 that was not stopped runs what is written over its program.
Write ==
    /\ pc = "write" /\ count <= NRecords
    /\ \E d \in Device :
          /\ d = usb_handle[1]
          /\ \/ UNCHANGED <<fw, memory>>
             \/ /\ count \in Image
                /\ memory' = [memory EXCEPT ![d] = @ \union {count}]
                /\ fw' = [fw EXCEPT ![d] = IF @ = "stopped" THEN @ ELSE "broken"]
             \/ /\ count = NRecords
                /\ fw' = [fw EXCEPT ![d] = IF @ = "stopped" /\ memory[d] = Image
                                           THEN "restarting" ELSE "broken"]
                /\ UNCHANGED memory
    /\ count' = count + 1
    /\ UNCHANGED <<pc, usb_handle, opened, uploaded, unlisted, is_force_load, on_bus,
                   attachment, matches, away>>

\* Bug: the handle is not closed before the device is searched for again.
CloseNothing ==
    /\ pc = "write" /\ count > NRecords
    /\ usb_handle' = NoHandle
    /\ pc' = "research" /\ count' = 0
    /\ UNCHANGED <<opened, uploaded, unlisted, is_force_load, device>>

Close ==
    /\ pc = "write" /\ count > NRecords
    /\ opened' = opened \ {usb_handle}
    /\ usb_handle' = NoHandle
    /\ pc' = "research" /\ count' = 0
    /\ UNCHANGED <<uploaded, unlisted, is_force_load, device>>

\* Bug: the search is repeated without a pause.
SearchAgainAtOnce ==
    /\ pc = "research"
    /\ \/ /\ count < RetryMax
          /\ \E d \in Candidates : Open(d)
          /\ pc' = "open"
          /\ UNCHANGED <<count, unlisted>>
       \/ /\ count < RetryMax
          /\ \/ Candidates = {} /\ UNCHANGED unlisted
             \/ unlisted' = unlisted + 1
          /\ count' = count + 1 /\ pc' = "research"
          /\ UNCHANGED <<usb_handle, opened>>
       \/ /\ count = RetryMax
          /\ pc' = "failed"
          /\ UNCHANGED <<count, usb_handle, opened, unlisted>>
    /\ UNCHANGED <<uploaded, is_force_load, device>>

\* Bug: the repetitions are not counted.
SearchAgainEver ==
    /\ pc = "research"
    /\ \/ /\ count < RetryMax
          /\ \E d \in Candidates : Open(d)
          /\ pc' = "open"
          /\ UNCHANGED <<count, unlisted>>
       \/ /\ count < RetryMax
          /\ \/ Candidates = {} /\ UNCHANGED unlisted
             \/ unlisted' = IF unlisted < RetryMax THEN unlisted + 1 ELSE unlisted
          /\ pc' = "sleep"
          /\ UNCHANGED <<count, usb_handle, opened>>
       \/ /\ count = RetryMax
          /\ pc' = "failed"
          /\ UNCHANGED <<count, usb_handle, opened, unlisted>>
    /\ UNCHANGED <<uploaded, is_force_load, device>>

\* The device is searched for again, with a pause when it is not there or the list of
\* the devices cannot be had.
SearchAgain ==
    /\ pc = "research"
    /\ \/ /\ count < RetryMax
          /\ \E d \in Candidates : Open(d)
          /\ pc' = "open"
          /\ UNCHANGED <<count, unlisted>>
       \/ /\ count < RetryMax
          /\ \/ Candidates = {} /\ UNCHANGED unlisted
             \/ unlisted' = unlisted + 1
          /\ count' = count + 1 /\ pc' = "sleep"
          /\ UNCHANGED <<usb_handle, opened>>
       \/ /\ count = RetryMax
          /\ pc' = "failed"
          /\ UNCHANGED <<count, usb_handle, opened, unlisted>>
    /\ UNCHANGED <<uploaded, is_force_load, device>>

-----------------------------------------------------------------------------
(* Devices *)

\* The firmware has set itself up and leaves the bus: EZUSB_Discon.
Leave(d) ==
    /\ fw[d] = "restarting"
    /\ fw' = [fw EXCEPT ![d] = "right"]
    /\ on_bus' = [on_bus EXCEPT ![d] = FALSE]
    /\ away' = [away EXCEPT ![d] = 0]
    /\ UNCHANGED <<opener, is_force_load, memory, attachment, matches>>

\* It comes back and is enumerated with the id that was written into the image.
Return(d) ==
    /\ fw[d] = "right" /\ ~on_bus[d] /\ away[d] >= AwayMin
    /\ on_bus' = [on_bus EXCEPT ![d] = TRUE]
    /\ attachment' = [attachment EXCEPT ![d] = @ + 1]
    /\ matches' = [matches EXCEPT ![d] = TRUE]
    /\ UNCHANGED <<opener, is_force_load, fw, memory, away>>

\* What runs a part of the image may leave the bus for good.
Vanish(d) ==
    /\ fw[d] = "broken" /\ on_bus[d]
    /\ on_bus' = [on_bus EXCEPT ![d] = FALSE]
    /\ UNCHANGED <<opener, is_force_load, fw, memory, attachment, matches, away>>

\* g_usleep: a device that restarts has left the bus within 500 ms, and is back
\* after AwayMax of them.
Pause ==
    /\ pc = "sleep"
    /\ \A d \in Device : /\ fw[d] # "restarting"
                         /\ fw[d] = "right" /\ ~on_bus[d] => away[d] < AwayMax
    /\ away' = [d \in Device |-> IF fw[d] = "right" /\ ~on_bus[d] THEN away[d] + 1 ELSE away[d]]
    /\ pc' = "research"
    /\ UNCHANGED <<count, usb_handle, opened, uploaded, unlisted, is_force_load, fw, memory,
                   on_bus, attachment, matches>>

Host == FirstSearch \/ Check \/ Stop \/ Write \/ Close \/ SearchAgain \/ ClaimsNull

Restart(d) == Leave(d) \/ Return(d)

OpeningNext == Host \/ Pause \/ \E d \in Device : Restart(d) \/ Vanish(d)

\* cusbfx2_open runs on, pauses end, and devices keep their times.
OpeningSpec ==
    /\ OpeningInit /\ [][OpeningNext]_opening_vars
    /\ WF_opening_vars(Host) /\ WF_opening_vars(Pause)
    /\ \A d \in Device : WF_opening_vars(Restart(d))

-----------------------------------------------------------------------------
(* Properties *)

OpeningTypeOK ==
    /\ pc \in {"search", "check", "stop", "write", "research", "sleep", "open", "failed",
               "crashed"}
    /\ is_force_load \in BOOLEAN
    /\ count \in Nat /\ (pc \in {"research", "sleep"} => count <= RetryMax)
    /\ usb_handle \in Handle \union {NoHandle}
    /\ uploaded \in Handle \union {NoHandle}
    /\ opened \subseteq Handle
    /\ unlisted \in Nat
    /\ fw \in [Device -> Firmware]
    /\ memory \in [Device -> SUBSET Image]
    /\ on_bus \in [Device -> BOOLEAN]
    /\ attachment \in [Device -> Nat]
    /\ matches \in [Device -> BOOLEAN]
    /\ away \in [Device -> 0 .. AwayMax]

\* cusbfx2_open leaves no handle behind that it does not return: the one it opened
\* first is closed before the search for the second (cusbfx2.c:247), and a failure
\* leaves none.
HandlesBalanced ==
    pc # "crashed" =>
        opened = IF pc \in {"check", "stop", "write", "open"} THEN {usb_handle} ELSE {}

\* A device that restarts is waited for long enough: after an upload the search is
\* given up only if the device runs neither what it ran before nor the firmware, or
\* if the list of devices failed as often as there are retries to spare
\* (cusbfx2.c:249-255 and discon.c).
FindsRestarted ==
    pc = "failed" /\ uploaded # NoHandle =>
        \/ fw[uploaded[1]] \in {"broken", "stopped"}
        \/ unlisted >= RetryMax - AwayMax - 1

\* cusbfx2_open comes to an end.
OpeningEnds == <>(pc \in {"open", "failed", "crashed"})
=============================================================================
