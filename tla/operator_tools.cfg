SPECIFICATION Spec
CONSTANTS
    Second = 2
    Day = 4
    Int32Max = 2
    Jobs <- FileJobs
    Earlier <- OldLines
    MaxRuns = 2
    Phones = {p, q}
    MaxCodes = 3
    MaxRequests = 6
    Messages <- UpToThree
    Unit <- Seconds
    DefaultUnit = "m"
    MaxLength = 3
INVARIANTS
    ExportSelects
    FinalIsComplete
    ExitCodesTell
    LoginConsistent
    MatchesSettled
CHECK_DEADLOCK FALSE
