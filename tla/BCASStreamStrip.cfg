CONSTANTS
    ByteCount <- MCByteCount
    HeaderSize <- MCHeaderSize
    Command <- MCCommand
    MinSize <- MCMinSize
    XorByte <- MCXorByte
    Streams <- MCStreams
SPECIFICATION Spec
PROPERTY
    StripsOnlyParsed
CHECK_DEADLOCK FALSE
