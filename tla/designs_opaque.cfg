SPECIFICATION DSpec
CONSTANTS
  Designs = {"etl", "ctl", "wt"}
  Tx = {t1, t2}
  NoTx = NoTx
  LOCK_UNIT = LOCK_UNIT
  lo = lo
  hi = hi
  init = init
  new = new
  Addr = {0, 2}
  WORDS_PER_LOCK = 2
  LOCK_ARRAY_SIZE = 2
  Byte = {lo}
  Val = {init, t1, t2}
  InitWord <- MemInit
  Stores <- OwnWord
  Mask <- WholeWords
  VERSION_MAX = 1
  RW_SET_SIZE = 2
  Features = {"irrevocable", "irrevocable_next"}
  MaxLog = 2
  INCARNATION_MAX = 1
  MaxLogWt = 2
SYMMETRY Symmetry
INVARIANTS IrrevocableStable IrrevocableUnique
PROPERTIES IrrevocableNeverAborts Opaque
