SPECIFICATION Spec
CONSTANTS
  Tx = {t1, t2}
  NoTx = NoTx
  LOCK_UNIT = LOCK_UNIT
  lo = lo
  hi = hi
  init = init
  new = new
  Addr = {0, 2}
  WORDS_PER_LOCK = 2
  LOCK_ARRAY_SIZE = 2
  Byte = {lo}
  Val = {init, new}
  InitWord <- MemInit
  Stores <- NewWord
  Mask <- WholeWords
  VERSION_MAX = 1
  RW_SET_SIZE = 1
  Features = {"irrevocable", "irrevocable_next"}
  MaxLog = 3
SYMMETRY Symmetry
PROPERTIES IrrevocableNeverAborts
