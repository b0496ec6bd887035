SPECIFICATION FairSpec
CONSTANTS
    t1 = t1
    p1 = p1
    p2 = p2
    Tasks = {t1}
    Kinds = {"suno", "video", "legacy"}
    Pollers = {p1, p2}
    Quotas = {0, 2}
    Actuals = {0, 1, 3}
    TimeoutOn = TRUE
    AnyProgress = TRUE
    BadAnswers = TRUE
    ChannelsGo = TRUE
    MaxFaults = 2
    NoStatus = NoStatus
INVARIANTS
    TypeOK
    NeverRefundedTwice
    QuotaIsTruth
PROPERTIES
    PolledFailureIsRefunded
    TaskEnds
CHECK_DEADLOCK FALSE
