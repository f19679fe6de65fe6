SPECIFICATION MCSpec
CONSTANTS
    Requests <- MCRequests
    Endpoints = {1, 129}
    NStrings = 1
    MaxPins = 1
    None = None
INVARIANTS
    AnswersRight
    DoesWhatItAcknowledges
    WakesIfAllowed
PROPERTY EachAnswered
