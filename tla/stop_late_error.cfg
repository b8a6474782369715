SPECIFICATION Spec
CONSTANTS
    NumChats = 1
    MaxMsgs = 1
    MaxGen = 2
    FetchLimit = 1
    OffTopic <- None
    PollFaults = TRUE
    Operations <- ListenerOps
    MaxRequests = 4
    ExportLimits <- NoExport
    MaxExport = 0
    Oversized <- None
    LongTexts = FALSE
INVARIANTS
    StopIsFinal
