CONSTANTS
    TsCount = 2
    Size = 2
    MaxSent = 2
SPECIFICATION Spec
INVARIANTS
    NoneReportedFreed
    EveryoneWaits
PROPERTIES
    FeedSpec
    Ends
\* The program ends.
CHECK_DEADLOCK FALSE
