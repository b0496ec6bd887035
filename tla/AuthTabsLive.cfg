SPECIFICATION FairSpec
CONSTANTS
    t1 = t1
    t2 = t2
    Tabs = {t1, t2}
    NoTab = NoTab
    MaxLogins <- Logins
    MaxRace = 1
    MaxLosses = 0
PROPERTIES
    TabsSettle
