CONSTANTS
    N = 3
    NoCell = NoCell
    NoResult = NoResult
    Failed = Failed
    Garbage = Garbage
    Cells = {c1, c2, c3, c4}
    QueueLen = 3
    MaxArrived = 4
    ByteCount <- MCByteCount
    HeaderSize <- MCHeaderSize
    Command <- MCCommand
    MinSize <- MCMinSize
    XorByte <- MCXorByte
    Streams <- MCStreams
    Received <- MCReceived
    Transfer = {6, 30}
    ResponseLen = 3
    ResponseStart <- MCStart
SPECIFICATION PathSpec
INVARIANTS
    OneWrongKeyPerLoss
    CatchesUp
PROPERTIES
    CardIsServed
CHECK_DEADLOCK FALSE
