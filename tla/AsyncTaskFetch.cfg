SPECIFICATION Spec
CONSTANTS
    t1 = t1
    p1 = p1
    p2 = p2
    Tasks = {t1}
    Kinds = {"gemini", "video"}
    Pollers = {p1, p2}
    Quotas = {0, 2}
    Actuals = {0, 1, 3}
    TimeoutOn = FALSE
    AnyProgress = TRUE
    BadAnswers = FALSE
    ChannelsGo = FALSE
    MaxFaults = 2
    NoStatus = NoStatus
SYMMETRY PollerSymmetry
INVARIANTS
    NeverRefundedTwice
PROPERTIES
    OutcomeIsFinal
CHECK_DEADLOCK FALSE
