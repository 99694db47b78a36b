SPECIFICATION MarketSpec
CONSTANTS
    Instances = {"i1", "i2"}
    Requests = {"r1", "r2"}
    Scenarios <- MCScenarios
    OneSource = {"r2"}
    Ttl = 2
    StaleLife = 3
    FailureLife = 1
    MaxClock = 5
INVARIANTS
    MarketTypeOK
    OneRefreshPerInstance
PROPERTIES
    OneAttemptPerMarker
    
    EveryRequestEnds
CHECK_DEADLOCK FALSE
