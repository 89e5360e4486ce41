CONSTANTS
    a = a
    b = b
    c = c
    NoTx = NoTx
    Tx <- Two
    VERSION_MAX = 2
    Modes <- OneSerial
    Exits <- None
    Restarts <- None
    StoreBuffer = 0
SPECIFICATION Spec
INVARIANTS SerialAlone
CHECK_DEADLOCK FALSE
