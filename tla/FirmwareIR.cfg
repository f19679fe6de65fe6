CONSTANTS
    Keys <- MCKeys
    ByteBits = 2
    Bytes = 4
    Waves <- MCWaves
    Interval = 3
    HeaderLow = 2
    HeaderHigh = 2
    Low = 1
    One = 2
    Zero = 1
    Hold = 41
    Pause = 5
    MaxRun = 4
SPECIFICATION MCSpec
INVARIANTS
    KeyReceived
    SendsOnlyWhatIsAsked
PROPERTIES
    PlaysWithinLength
    RecordsRuns
