CONSTANTS
    e1 = e1
    e2 = e2
    c1 = c1
    c2 = c2
    c3 = c3
    c4 = c4
    NoCell = NoCell
    NoEcm = NoEcm
    NoResult = NoResult
    Failed = Failed
    Garbage = Garbage
    Ecm <- MCEcm
    Cells <- MCCells
    QueueLen = 2
    MaxArrived = 4
SPECIFICATION Spec
INVARIANTS
    KeysMatch
    HistoryIsLatest
    NoPacketLost
    LookupServes
PROPERTIES
    LookupEnds
\* The card may be released.
CHECK_DEADLOCK FALSE
