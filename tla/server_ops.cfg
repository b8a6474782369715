SPECIFICATION Spec
CONSTANTS
    NumChats = 2
    MaxMsgs = 1
    MaxGen = 1
    FetchLimit = 1
    OffTopic <- FirstOffTopic
    PollFaults = FALSE
    Operations <- AllOps
    MaxRequests = 3
    ExportLimits <- SomeExports
    MaxExport = 2
    Oversized <- None
    LongTexts = TRUE
INVARIANTS
    OneTerminal
    ExportFramed
