SPECIFICATION FairSpec
CONSTANTS
    r1 = r1
    r2 = r2
    Types = {cleanup}
    cleanup = cleanup
    Scheduled = {}
    Runners = {r1, r2}
    MaxTasks = 2
    MaxClock = 2
    LockTTL = 1
    Interval = 1
    Skew <- NoSkew
    ClaimStall = 1
    MaxStall = 0
    MaxFaults = 1
    Horizon = 0
    NoLock = NoLock
    NoRunner = NoRunner
    NoType = NoType
    NoTask = NoTask
INVARIANTS
    RunningIsLeased
PROPERTIES
    RunningEnds
    PendingEnds
CHECK_DEADLOCK FALSE
