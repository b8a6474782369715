SPECIFICATION Spec
CONSTANTS
    a = a
    b = b
    Callers <- Two
    CallerOps <- Queries
    MaxSessions = 2
    MaxCalls = 1
    MaxEvents = 0
    MaxLive = 0
    StdinRoom = 3
    StdoutRoom = 2
    MaxQueued = 9
    MaxKept = 9
    Timeouts = TRUE
    Crashes = FALSE
    Throws = FALSE
PROPERTIES
    Correlated
