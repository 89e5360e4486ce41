SPECIFICATION Spec
CONSTANTS
  Tx = {t1, t2}
  NoTx = NoTx
  LOCK_UNIT = LOCK_UNIT
  lo = lo
  hi = hi
  init = init
  new = new
  Addr = {0, 2}
  WORDS_PER_LOCK = 2
  LOCK_ARRAY_SIZE = 2
  Byte = {lo}
  Val = {init, new}
  InitWord <- MemInit
  Stores <- AnyWord
  Mask <- WholeWords
  VERSION_MAX = 2
  RW_SET_SIZE = 2
  Features = {}
  MaxLog = 2
SYMMETRY Symmetry
INVARIANTS TypeOK LockOwner CommittedMemory SnapshotReads ConsistentLoads Serializable ClockBound
PROPERTIES VersionsGrow
