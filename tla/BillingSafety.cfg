SPECIFICATION Spec
CONSTANTS
    r1 = r1
    r2 = r2
    Requests = {r1, r2}
    NumSubs = 1
    SubTotal <- OneSub
    Overflow <- Lenient
    Wallet0 = 3
    Token0 = 4
    Unlimited = FALSE
    TrustQuota = 2
    Preferences <- AllPreferences
    Kinds = {"sync", "task"}
    Playgrounds = {TRUE, FALSE}
    PreQuotas = {0, 2}
    ActualQuotas = {1, 3}
    MaxActual = 0
    Fee = 1
    MaxAttempts = 3
    MaxFaults = 0
    MaxResets = 0
    SaveMayFail = FALSE
SYMMETRY RequestSymmetry
INVARIANTS
    ExactCharge
    BooksBalance
PROPERTIES
    OnlyTheFeeFollows
CHECK_DEADLOCK FALSE
