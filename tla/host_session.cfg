SPECIFICATION FairSpec
CONSTANTS
    User = user
    Helper = helper
    MaxSessions = 2
    MaxRequests = 2
    MaxLive = 1
    MaxMessages = 1
INVARIANTS
    TypeOK
    InStepOrBroken
    NoOrphan
    HelperLetsGo
PROPERTIES
    AnswersItsRequest
    BrokenIsSilent
    ListenerHears
    StartsAndCloses
CHECK_DEADLOCK FALSE
