-------------------------- MODULE MCFirmwareDispatcher --------------------------
(***************************************************************************)
(* Bounds for the dispatcher of the firmware: one request of each kind, two *)
(* endpoints of one number, and one string.  A behaviour takes its requests *)
(* from one of four groups, for a request depends on those of its own, and  *)
(* the processor sleeps in one of them, which has the remote wakeup.        *)
(***************************************************************************)
EXTENDS FirmwareDispatcher

Asks(recipients, requests, lows, highs, indices) ==
    [recipient : recipients, request : requests, low : lows, high : highs, index : indices]

Descriptors ==
    Asks({"device"}, {"GET_DESCRIPTOR"}, {0},
         {"qualifier", "configuration", "other_speed", "string"}, {1})
    \union Asks({"device"}, {"GET_DESCRIPTOR"}, {1}, {"string"}, {1})

Choices ==
    Asks({"interface"}, {"SET_CONFIGURATION", "GET_CONFIGURATION", "SET_INTERFACE",
                         "GET_INTERFACE", "VR_NAKALL_ON", "VR_NAKALL_OFF"},
         {1}, {"other"}, {1})

Halts ==
    Asks({"endpoint"}, {"GET_STATUS", "SET_FEATURE", "CLEAR_FEATURE"}, {0}, {"other"},
         Endpoints)

Features ==
    Asks({"device"}, {"GET_STATUS", "SET_FEATURE", "CLEAR_FEATURE", "other"}, {1},
         {"other"}, {1})
    \union Asks({"interface"}, {"SET_FEATURE", "CLEAR_FEATURE"}, {0}, {"other"}, {1})

Groups == {Descriptors, Choices, Halts, Features}
MCRequests == UNION Groups

VARIABLE group

MCInit == Init /\ group \in Groups

MCNext ==
    /\ Next
    /\ asked' \in group \union {None}
    /\ group # Features => pins' = 0 /\ bus' = "active"
    /\ UNCHANGED group

MCSpec ==
    /\ MCInit /\ [][MCNext]_<<vars, group>>
    /\ WF_vars(main) /\ WF_vars(Interrupt) /\ WF_vars(TakeAnswer)
=============================================================================
