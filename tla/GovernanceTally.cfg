SPECIFICATION GovernanceSpec
CONSTANTS
    Proposals = {"p1"}
    Voters = {"v1", "v2"}
    Weight <- MCWeight
    Outcomes = {"yes", "no"}
    Signals = {"funding"}
    SuperblockInterval = 2
    FirstHeight = 3
    MaxHeight = 4
    MaxVotes = 2
    MaxSyncFaults = 0
    Second = 2
    Presets = {1, 2}
    MaxTime = 4
    Windows <- MCWindows
INVARIANT SeriesEndsAtTally
CHECK_DEADLOCK FALSE
