SPECIFICATION Spec
CONSTANTS
  Tx = {t1, t2}
  NoTx = NoTx
  LOCK_UNIT = LOCK_UNIT
  lo = lo
  hi = hi
  init = init
  new = new
  Addr = {0, 1}
  WORDS_PER_LOCK = 1
  LOCK_ARRAY_SIZE = 2
  Byte = {lo}
  Val = {init, new}
  InitWord <- MemInit
  Stores <- NewWord
  Mask <- WholeWords
  VERSION_MAX = 2
  RW_SET_SIZE = 3
  Features = {}
  MaxLog = 2
  INCARNATION_MAX = 0
SYMMETRY Symmetry
INVARIANTS ClockOvershoot
