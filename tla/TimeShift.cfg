CONSTANTS
    TsDelay = 3
    Setting <- MCSetting
    MaxSet = 2
    MaxNow = 10
    MaxChunks = 4
SPECIFICATION Spec
INVARIANTS
    AgedEnough
    NotHeldBack
\* Time ends.
CHECK_DEADLOCK FALSE
