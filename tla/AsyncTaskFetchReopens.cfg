SPECIFICATION Spec
CONSTANTS
    t1 = t1
    p1 = p1
    p2 = p2
    Tasks = {t1}
    Kinds = {"gemini"}
    Pollers = {p1}
    Quotas = {0, 2}
    Actuals = {0, 1, 3}
    TimeoutOn = TRUE
    AnyProgress = FALSE
    BadAnswers = FALSE
    ChannelsGo = FALSE
    MaxFaults = 0
    NoStatus = NoStatus
INVARIANTS
    NeverRefundedTwice
CHECK_DEADLOCK FALSE
