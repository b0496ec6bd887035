SPECIFICATION Spec
CONSTANTS
    r1 = r1
    r2 = r2
    Types = {cleanup}
    cleanup = cleanup
    Scheduled = {cleanup}
    Runners = {r1, r2}
    MaxTasks = 2
    MaxClock = 3
    LockTTL = 1
    Interval = 1
    Skew <- NoSkew
    ClaimStall = 4
    MaxStall = 1
    MaxFaults = 1
    Horizon = 3
    NoLock = NoLock
    NoRunner = NoRunner
    NoType = NoType
    NoTask = NoTask
SYMMETRY RunnerSymmetry
INVARIANTS
    TypeOK
    OneActivePerType
PROPERTIES
    ExecutedOnce
    TerminalIsFinal
    LostLeaseStaysLost
