SPECIFICATION OwnSpec
CONSTANTS
    p1 = p1
    p2 = p2
    Procs = {p1, p2}
    TTL = 2
    Grace = 9
    Expires = 9
    MaxClock = 4
    MaxVer = 2
    MaxGen = 1
    MaxUser = 2
SYMMETRY ProcSymmetry
INVARIANT AdvanceKeepsSession
CHECK_DEADLOCK FALSE
