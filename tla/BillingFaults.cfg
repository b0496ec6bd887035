SPECIFICATION Spec
CONSTANTS
    r1 = r1
    r2 = r2
    Requests = {r1, r2}
    NumSubs = 2
    SubTotal <- TwoSubs
    Overflow <- SecondStrict
    Wallet0 = 3
    Token0 = 4
    Unlimited = FALSE
    TrustQuota = 2
    Preferences = {"subscription_first"}
    Kinds = {"sync", "realtime"}
    Playgrounds = {FALSE}
    PreQuotas = {2}
    ActualQuotas = {1, 3}
    MaxActual = 1
    Fee = 1
    MaxAttempts = 3
    MaxFaults = 1
    MaxResets = 1
    SaveMayFail = FALSE
SYMMETRY RequestSymmetry
INVARIANTS
    TypeOK
    NeverOverRefunded
    SubscriptionWithinTotal
CHECK_DEADLOCK FALSE
