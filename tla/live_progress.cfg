SPECIFICATION FairSpec
CONSTANTS
    NumChats = 1
    MaxMsgs = 2
    MaxGen = 2
    FetchLimit = 1
    OffTopic <- None
    PollFaults = TRUE
    Operations <- ListenerOps
    MaxRequests = 3
    ExportLimits <- NoExport
    MaxExport = 0
    Oversized <- None
    LongTexts = FALSE
PROPERTIES
    RequestsEnd
    ShutdownExits
    MessagesDelivered
    FailureReported
INVARIANT
    InOrder
