SPECIFICATION FairSpec
CONSTANTS
    r1 = r1
    r2 = r2
    Types = {cleanup}
    cleanup = cleanup
    Scheduled = {cleanup}
    Runners = {r1, r2}
    MaxTasks = 1
    MaxClock = 4
    LockTTL = 1
    Interval = 1
    Skew <- NoSkew
    ClaimStall = 4
    MaxStall = 0
    MaxFaults = 0
    Horizon = 1
    NoLock = NoLock
    NoRunner = NoRunner
    NoType = NoType
    NoTask = NoTask
PROPERTIES
    RunningEnds
