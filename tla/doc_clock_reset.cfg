CONSTANTS
    a = a
    b = b
    c = c
    NoTx = NoTx
    Tx <- Three
    VERSION_MAX = 1
    Modes <- TwoParallel
    Exits <- None
    Restarts <- None
    StoreBuffer = 0
SPECIFICATION FairSpec
PROPERTIES BarrierReached
CHECK_DEADLOCK FALSE
