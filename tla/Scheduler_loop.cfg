SPECIFICATION FairSpec
CONSTANTS
    TicksPerSecond = 2
    TestInterval = 1
    TimeLag = 1
    WakeLag = 1
    StartLag = 1
    Adjustments <- BothWays
    MaxSkew = 2
    MaxClock = 7
INVARIANTS
    TypeOK
    CyclesSpaced
    OverlapBounded
    GapBounded
    AtMostOneCycleAfterStop
PROPERTIES
    StopEndsRun
