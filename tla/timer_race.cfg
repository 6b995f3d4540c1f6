SPECIFICATION Spec
CONSTANTS
    e1 = e1
    e2 = e2
    e3 = e3
    e4 = e4
    e5 = e5
    e6 = e6
    t1 = t1
    t2 = t2
    Entries = {e1, e2, e3, e4, e5, e6}
    NoEntry = NoEntry
    Threads = {t1, t2}
    NoThread = NoThread
    Size = 1
    MaxPerPoll = 2
    Racy = TRUE
    Configs <- RacyConfigs
INVARIANTS
    ScheduledOnce
CHECK_DEADLOCK FALSE
