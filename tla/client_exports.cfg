SPECIFICATION Spec
CONSTANTS
    a = a
    b = b
    Callers <- Two
    CallerOps <- Both
    MaxSessions = 1
    MaxCalls = 2
    MaxEvents = 1
    MaxLive = 0
    StdinRoom = 2
    StdoutRoom = 1
    MaxQueued = 1
    MaxKept = 9
    Timeouts = FALSE
    Crashes = TRUE
    Throws = TRUE
SYMMETRY Swaps
INVARIANTS
    CallbackWithinRequest
PROPERTIES
    ExportComplete
CHECK_DEADLOCK FALSE
