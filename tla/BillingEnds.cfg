SPECIFICATION FairSpec
CONSTANTS
    r1 = r1
    r2 = r2
    Requests = {r1, r2}
    NumSubs = 1
    SubTotal <- OneSub
    Overflow <- Lenient
    Wallet0 = 3
    Token0 = 4
    Unlimited = FALSE
    TrustQuota = 2
    Preferences = {"subscription_first"}
    Kinds = {"sync", "realtime"}
    Playgrounds = {FALSE}
    PreQuotas = {2}
    ActualQuotas = {1}
    MaxActual = 1
    Fee = 1
    MaxAttempts = 3
    MaxFaults = 1
    MaxResets = 0
    SaveMayFail = TRUE
PROPERTIES
    RequestEnds
CHECK_DEADLOCK FALSE
