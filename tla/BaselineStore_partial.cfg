SPECIFICATION Spec
CONSTANTS
    TicksPerSecond = 1
    TestInterval = 1
    TimeLag = 1
    i1 = i1
    i2 = i2
    p1 = p1
    p2 = p2
    NoId = NoId
    Ids <- TwoIds
    PatternList <- TwoPatterns
    Matching <- Overlapping
    PubTime <- Times
    Threads = {b1}
    Ahead = 0
    Slack = 2
    MaxClock = 6
INVARIANTS
    IndexedEverywhere
