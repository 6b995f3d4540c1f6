SPECIFICATION FairSpec
CONSTANTS
    t1 = t1
    t2 = t2
    Threads = {t1, t2}
    Reliables = {TRUE, FALSE}
    Configs <- AllConfigs
INVARIANTS
    OneSend
    RefCounted
    NoUseAfterDestroy
    KeepsRetransmitting
    FinalIsAcked
PROPERTIES
    StateNeverGoesBack
    NoStaleRetransmission
    EventuallyDestroyed
CHECK_DEADLOCK FALSE
