CONSTANTS
    Device = {d1, d2}
    NRecords = 3
    RetryMax = 10
    AwayMin = 3
    AwayMax = 5
    NoHandle = NoHandle
SPECIFICATION OpeningSpec
INVARIANTS
    HandlesBalanced
    FindsRestarted
PROPERTIES
    OpeningEnds
\* cusbfx2_open returns.
CHECK_DEADLOCK FALSE
