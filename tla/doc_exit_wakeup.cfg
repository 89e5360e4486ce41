CONSTANTS
    a = a
    b = b
    c = c
    NoTx = NoTx
    Tx <- Two
    VERSION_MAX = 1
    Modes <- OneSerial
    Exits <- OnlyA
    Restarts <- None
    StoreBuffer = 0
SPECIFICATION FairSpec
PROPERTIES BarrierOpens
CHECK_DEADLOCK FALSE
