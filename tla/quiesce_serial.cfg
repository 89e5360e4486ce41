CONSTANTS
    a = a
    b = b
    c = c
    NoTx = NoTx
    Tx <- Three
    VERSION_MAX = 1
    Modes <- MixedModes
    Exits <- OnlyC
    Restarts <- OnlyA
    StoreBuffer = 0
SPECIFICATION Spec
INVARIANTS ThreadsCount HolderBlocks SerialExcludesNewcomers
PROPERTIES RolloverAlone
CHECK_DEADLOCK FALSE
