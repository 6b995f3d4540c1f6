SPECIFICATION Spec
CONSTANTS
    Peers = {a, b}
    a = a
    b = b
    NoSdp = NoSdp
    MaxOffers = 3
    Configs <- MCConfigs
INVARIANTS
    MediaAgree
    OneAnswerComing
    SdpHeld
PROPERTIES
    VersionsFresh
    NegotiationEnds
CHECK_DEADLOCK FALSE
