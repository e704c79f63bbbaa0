SPECIFICATION FairSpec
CONSTANTS
    MaxOpens = 2
    PingAttempts = 2
    MaxOps = 4
    Name <- MCName
    OptionLists <- MCOptionLists
INVARIANTS
    TypeOK
    ErrorsMarked
    FailureExplained
    WriteHonest
    GetHonest
    HooksHonest
    OpenedIsConnected
PROPERTIES
    CreateEnds
    WatcherStops
CHECK_DEADLOCK FALSE
