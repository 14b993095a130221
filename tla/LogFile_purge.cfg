SPECIFICATION Spec
CONSTANTS
    MaxAge = 0
    MaxRecords = 4
    MaxClock = 1
INVARIANTS
    TypeOK
    LossAccountedFor
    WholeAndInOrder
    ResultsKeepTheirWindow
    ConnectionsKeepTheirRestart
CHECK_DEADLOCK FALSE
