SPECIFICATION DSpec
CONSTANTS
  Designs = {"etl", "ctl", "wt"}
  Tx = {t1, t2}
  NoTx = NoTx
  LOCK_UNIT = LOCK_UNIT
  lo = lo
  hi = hi
  init = init
  new = new
  Addr = {0, 1}
  WORDS_PER_LOCK = 2
  LOCK_ARRAY_SIZE = 1
  Byte = {lo, hi}
  Val = {init, new}
  InitWord <- MemInit
  Stores <- NewWord
  Mask <- OneByte
  VERSION_MAX = 1
  RW_SET_SIZE = 1
  Features = {"abort", "read_only"}
  MaxLog = 3
  INCARNATION_MAX = 1
  MaxLogWt = 2
SYMMETRY Symmetry
INVARIANTS Owners CommittedMemory SnapshotReads BytesKept ClockBounds
PROPERTIES WordsNeverReturn
