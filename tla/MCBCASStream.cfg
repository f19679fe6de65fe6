CONSTANTS
    ByteCount <- MCByteCount
    HeaderSize <- MCHeaderSize
    Command <- MCCommand
    MinSize <- MCMinSize
    XorByte <- MCXorByte
    Streams <- MCAllStreams
SPECIFICATION MCSpec
INVARIANTS
    PacketsIntact
    ChunkingIrrelevant
PROPERTIES
    PushReturns
    FeedSpec
\* The stream ends.
CHECK_DEADLOCK FALSE
