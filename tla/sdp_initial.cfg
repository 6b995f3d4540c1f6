SPECIFICATION Spec
CONSTANTS
    Peers = {a, b}
    a = a
    b = b
    NoSdp = NoSdp
    MaxOffers = 3
    Configs <- MCDefault
PROPERTIES
    InitialRetained
CHECK_DEADLOCK FALSE
