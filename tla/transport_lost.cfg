SPECIFICATION Spec
CONSTANTS
    Tps = {t1, t2}
    NoTp = NoTp
    Keys = {k1}
    Msgs = {m1, m2}
    NoMsg = NoMsg
    a = a
    b = b
    t1 = t1
    t2 = t2
    m1 = m1
    m2 = m2
    Threads = {a, b}
    NoThread = NoThread
    MaxUsers = 2
    Configs <- MCExpires
INVARIANTS
    PendingIsHeld
CHECK_DEADLOCK FALSE
