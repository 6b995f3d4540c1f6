SPECIFICATION Spec
CONSTANTS
    MaxCount = 4
    Missing = Missing
    Discarded = Discarded
    SeqMod = 8
    MaxMisorder = 4
    MaxDropout = 6
    InitCycle = 2
    StableLimit = 1
    MaxBurst = 2
    MinGap = 1
    MinBurst = 1
    ProMaxBurst = 3
    T1 = 2
    T2 = 6
    Invalid <- MCInvalid
    Configs <- MCConfigs
INVARIANTS
    RingExact
    PutFits
PROPERTIES
    PlayedInOrder
    RemovesAsAsked
    PrefetchEnds
CHECK_DEADLOCK FALSE
