SPECIFICATION Spec
CONSTANTS
    t1 = t1
    t2 = t2
    Threads = {t1, t2}
    Reliables = {TRUE, FALSE}
    Configs <- PendingConfigs
INVARIANTS
    DeferredIsSent
CHECK_DEADLOCK FALSE
