SPECIFICATION Spec
CONSTANTS
    r1 = r1
    r2 = r2
    Requests = {r1}
    NumSubs = 1
    SubTotal <- OneSub
    Overflow <- Lenient
    Wallet0 = 3
    Token0 = 4
    Unlimited = FALSE
    TrustQuota = 2
    Preferences <- SubscriptionPreferences
    Kinds = {"sync", "task"}
    Playgrounds = {FALSE}
    PreQuotas = {0, 2}
    ActualQuotas = {1, 3}
    MaxActual = 0
    Fee = 1
    MaxAttempts = 3
    MaxFaults = 1
    MaxResets = 0
    SaveMayFail = TRUE
INVARIANTS
    NeverOverRefunded
CHECK_DEADLOCK FALSE
