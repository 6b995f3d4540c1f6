SPECIFICATION Spec
CONSTANTS
    t1 = t1
    t2 = t2
    h1 = h1
    x1 = x1
    x2 = x2
    Threads = {t1, t2}
    NoThread = NoThread
    Own = Own
    Ext = {x1, x2}
    End = End
    Handlers = {h1}
    MaxDepth = 2
    MaxRefs = 1
    Configs <- MCConfigs
INVARIANTS
    HolderHasAll
    NothingKept
    NoDeadlock
    HandlersRunAtTheEnd
PROPERTIES
    ImplementsRefLock
    LastOneOut
