SPECIFICATION FairSpec
CONSTANTS
    a = a
    b = b
    Callers <- One
    CallerOps <- Queries
    MaxSessions = 1
    MaxCalls = 1
    MaxEvents = 0
    MaxLive = 1
    StdinRoom = 8
    StdoutRoom = 1
    MaxQueued = 1
    MaxKept = 1
    Timeouts = TRUE
    Crashes = TRUE
    Throws = TRUE
INVARIANTS TypeOK StopLeavesNoWorker KeptIsAwaited
PROPERTIES
    Correlated
    StopEnds
    RequestsReturn
CHECK_DEADLOCK FALSE
