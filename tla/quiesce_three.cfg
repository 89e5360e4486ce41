CONSTANTS
    a = a
    b = b
    c = c
    NoTx = NoTx
    Tx <- Three
    VERSION_MAX = 1
    Modes <- OneSerial
    Exits <- None
    Restarts <- None
    StoreBuffer = 0
SPECIFICATION FairSpec
PROPERTIES BarrierOpens BarrierReached Quiesces
CHECK_DEADLOCK FALSE
