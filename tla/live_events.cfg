SPECIFICATION Spec
CONSTANTS
    NumChats = 1
    MaxMsgs = 2
    MaxGen = 2
    FetchLimit = 2
    OffTopic <- None
    PollFaults = TRUE
    Operations <- ListenerOps
    MaxRequests = 4
    ExportLimits <- NoExport
    MaxExport = 0
    Oversized <- FirstOversized
    LongTexts = FALSE
PROPERTY ImplementsFeed
INVARIANTS
    TypeOK
    AtMostOnePoller
    ExitStopsPolling
    EventsAfterAccept
    NoStrandedRecords
    ExitCodeTellsFatal
