SPECIFICATION Spec
CONSTANTS
    b1 = b1
    b2 = b2
    GlobalBrokers = {b1}
    ReplayBrokers = {b2}
    Host <- OneHost
    Server <- OneServer
    Timeout = 0
    RetryInterval = 0
    MaxPing = 0
    MaxFaults = 0
PROPERTY EveryUniqueBrokerServed
CHECK_DEADLOCK FALSE
