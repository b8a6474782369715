SPECIFICATION FairSpec
CONSTANTS
    main = main
    poller = poller
    Main = main
    Pollers <- OnePoller
    Capacity = 1
    MaxStreams = 2
    MaxItems = 3
INVARIANTS
    TypeOK
    NobodyForgotten
    ClosedIsClean
PROPERTIES
    ImplementsStreams
    EveryCallReturns
