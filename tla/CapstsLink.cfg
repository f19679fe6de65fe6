CONSTANTS
    Programs <- MCPrograms
    Garbage <- MCGarbage
    PacketSize = 64
    MaxRuns = 2
SPECIFICATION Spec
INVARIANTS
    WithinPacket
    ExecutesWhatIsPushed
    CapturesWhenStarted
    LeavesIdle
PROPERTY
    DecodesEveryPacket
\* The last process ends.
CHECK_DEADLOCK FALSE
