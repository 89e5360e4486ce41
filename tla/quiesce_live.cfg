CONSTANTS
    a = a
    b = b
    c = c
    NoTx = NoTx
    Tx <- Two
    VERSION_MAX = 1
    Modes <- OneSerial
    Exits <- None
    Restarts <- None
    StoreBuffer = 1
SPECIFICATION FairSpec
PROPERTIES BarrierOpens BarrierReached Quiesces
CHECK_DEADLOCK FALSE
