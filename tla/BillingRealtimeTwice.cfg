SPECIFICATION Spec
CONSTANTS
    r1 = r1
    r2 = r2
    Requests = {r1}
    NumSubs = 1
    SubTotal <- OneSub
    Overflow <- Lenient
    Wallet0 = 3
    Token0 = 4
    Unlimited = FALSE
    TrustQuota = 2
    Preferences <- AllPreferences
    Kinds = {"realtime"}
    Playgrounds = {FALSE}
    PreQuotas = {0, 2}
    ActualQuotas = {1, 3}
    MaxActual = 1
    Fee = 1
    MaxAttempts = 3
    MaxFaults = 0
    MaxResets = 0
    SaveMayFail = FALSE
INVARIANTS
    ExactRealtimeCharge
CHECK_DEADLOCK FALSE
