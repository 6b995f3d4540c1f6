SPECIFICATION FairSpec
CONSTANTS
    r1 = r1
    r2 = r2
    r3 = r3
    t1 = t1
    t2 = t2
    Reqs = {r1, r2, r3}
    NoReq = NoReq
    Threads = {t1, t2}
    MaxTransmit = 2
    MaxAuthRetry = 1
    Nonces = {n1, n2}
    NoNonce = NoNonce
    MaxManual = 1
    Configs <- AllConfigs
INVARIANTS
    RefCounted
    ToldOnce
    NotForgotten
    NoUseAfterFree
PROPERTIES
    EventuallyTold
    EventuallyGone
CHECK_DEADLOCK FALSE
