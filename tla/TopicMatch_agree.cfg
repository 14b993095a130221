SPECIFICATION Spec
CONSTANTS
    Levels = {"a", "b"}
    MaxLevels = 3
INVARIANTS
    BaselineIsRequested
    WildcardIsExact
    ReplayIsAwaited
