CONSTANTS
    a = a
    b = b
    c = c
    NoTx = NoTx
    Tx <- Three
    VERSION_MAX = 1
    Modes <- NoModes
    Exits <- Three
    Restarts <- None
    StoreBuffer = 1
SPECIFICATION FairSpec
INVARIANTS ThreadsCount
PROPERTIES BarrierOpens
CHECK_DEADLOCK FALSE
