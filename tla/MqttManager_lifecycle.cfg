SPECIFICATION Spec
CONSTANTS
    b1 = b1
    b2 = b2
    GlobalBrokers = {b1, b2}
    ReplayBrokers = {b2}
    Host <- OwnHost
    Server <- OneServer
    Timeout = 3
    RetryInterval = 2
    MaxPing = 2
    MaxFaults = 2
INVARIANTS
    TypeOK
    StartUpBounded
    StatusTruthful
PROPERTIES
    StalledFeedShows
    EveryBrokerServed
    ShutdownEnds
CHECK_DEADLOCK FALSE
