SPECIFICATION FairSpec
CONSTANTS
    a = a
    b = b
    Callers <- One
    CallerOps <- Queries
    MaxSessions = 1
    MaxCalls = 1
    MaxEvents = 0
    MaxLive = 0
    StdinRoom = 1
    StdoutRoom = 1
    MaxQueued = 9
    MaxKept = 9
    Timeouts = TRUE
    Crashes = FALSE
    Throws = FALSE
PROPERTIES
    StopEnds
CHECK_DEADLOCK FALSE
