CONSTANTS
    Programs <- MCPrograms
    Garbage <- MCGarbage
    PacketSize = 64
    MaxRuns = 2
SPECIFICATION Spec
INVARIANT
    PinsAsPushed
CHECK_DEADLOCK FALSE
