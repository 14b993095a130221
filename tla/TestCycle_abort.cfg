SPECIFICATION Spec
CONSTANTS
    TicksPerSecond = 1
    TestInterval = 2
    TimeLag = 0
    t1 = t1
    t2 = t2
    c1 = c1
    c2 = c2
    m1 = m1
    m2 = m2
    Missing = Missing
    Idle = Idle
    Dead = Dead
    TopicList <- TwoTopics
    TargetList <- OneTarget
    Messages <- OneMessage
    PubTime <- OneTime
    Indexed <- OnBoth
    Routed <- OnBoth
    RedisFails = FALSE
    MaxJunk = 0
    MaxClaim = 1
    MaxPages = 1
    Overshoot = 0
    MaxCycles = 2
    MaxClock = 8
    Brokers = {b1}
    Signals = FALSE
INVARIANTS
    AbortedMeansUndelivered
