SPECIFICATION ReadsSpec
CONSTANTS
    Callers = {"c1", "c2"}
    Servers = {"s1", "s2"}
    Plans <- MCPlans
    Batch = 2
    MaxAddresses = 5
    Owned = {"a1", "a2"}
    TheAddress = "a1"
    OwnerSets <- MCOwnerSets
    Limits = {1, 2}
    MaxRows = 4
    MaxTip = 3
    Unit = 2
    Week = 2
    Monday = 1
    LiveUpTo = 2
    WeeklyAfter = 4
    DailyMin = 1
    WeeklyMin = 1
    Skew = 1
    MaxInstant = 6
    MaxBlocks = 3
    Proposals = {"p1", "p2"}
    Voters = {"v1", "v2"}
    Weight <- MCWeight
    Outcomes = {"yes"}
    Signals = {"funding"}
    SuperblockInterval = 2
    FirstHeight = 3
    MaxHeight = 4
    MaxVotes = 2
    MaxSyncFaults = 1
    Second = 2
    Presets = {1, 2}
    MaxTime = 2
    Windows <- MCWindows
INVARIANTS
    ReadsTypeOK
    KnownIsUsed
    ReplyIsTheWallet
    
    OnlyTiesAreSkipped
    EndIsTheEnd
    WindowIsExact
    
PROPERTIES
    EveryScanEnds
    NewCycleStartsEmpty
CHECK_DEADLOCK FALSE
