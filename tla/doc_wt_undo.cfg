SPECIFICATION Spec
CONSTANTS
  Tx = {t1, t2}
  NoTx = NoTx
  LOCK_UNIT = LOCK_UNIT
  lo = lo
  hi = hi
  init = init
  new = new
  Addr = {0, 1}
  WORDS_PER_LOCK = 2
  LOCK_ARRAY_SIZE = 1
  Byte = {lo}
  Val = {init, new}
  InitWord <- MemInit
  Stores <- NewWord
  Mask <- OrNone
  VERSION_MAX = 1
  RW_SET_SIZE = 3
  Features = {"abort"}
  MaxLog = 3
  INCARNATION_MAX = 1
SYMMETRY Symmetry
INVARIANTS CommittedMemory
