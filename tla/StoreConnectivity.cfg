SPECIFICATION Spec
CONSTANTS
    Receipt = {b1, b2, b3}
    MaxTime = 3
    BufferAge = 1
    MaxSkew = 1
    Flush = 2
    LiveWindow = 2
    StaleWindow = 3
SYMMETRY Symmetry
CHECK_DEADLOCK FALSE
INVARIANTS
    NewestReceiptDecides
    LiveIsHonest
    SettledReceiptIsLive
