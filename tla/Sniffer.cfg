CONSTANTS
    TsLen = 3
    BufSize = 2
    BufferCount = 2
    MaxEcm = 2
SPECIFICATION Spec
INVARIANTS
    DecodesFromFirstKey
    UsedWhileAlive
    EachOnceAfterSignal
PROPERTIES
    Ends
    PipeSpec
\* The program ends.
CHECK_DEADLOCK FALSE
