SPECIFICATION Spec
CONSTANTS
    TicksPerSecond = 2
    TestInterval = 1
    TimeLag = 1
    WakeLag = 0
    StartLag = 1
    Adjustments <- NoAdjustment
    MaxSkew = 1
    MaxClock = 9
INVARIANTS
    WindowsPartition
