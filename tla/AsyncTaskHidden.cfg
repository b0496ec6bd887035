SPECIFICATION FairSpec
CONSTANTS
    t1 = t1
    p1 = p1
    p2 = p2
    Tasks = {t1}
    Kinds = {"video"}
    Pollers = {p1}
    Quotas = {0, 2}
    Actuals = {0, 1, 3}
    TimeoutOn = TRUE
    AnyProgress = TRUE
    BadAnswers = FALSE
    ChannelsGo = FALSE
    MaxFaults = 0
    NoStatus = NoStatus
PROPERTIES
    EveryTaskEnds
CHECK_DEADLOCK FALSE
