SPECIFICATION Spec
CONSTANTS
    p1 = p1
    p2 = p2
    Procs = {p1, p2}
    TTL = 2
    Grace = 1
    Expires = 3
    MaxClock = 3
    MaxVer = 2
    MaxGen = 1
    MaxUser = 2
SYMMETRY ProcSymmetry
INVARIANTS
    TypeOK
    RevokedIsDenied
PROPERTIES
    ImplementsAuthority
CHECK_DEADLOCK FALSE
