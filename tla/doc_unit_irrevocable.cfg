SPECIFICATION UnitSpec
CONSTANTS
  Tx = {t1, t2}
  NoTx = NoTx
  LOCK_UNIT = LOCK_UNIT
  lo = lo
  init = init
  new = new
  unitword = unitword
  Addr = {0, 1}
  WORDS_PER_LOCK = 1
  LOCK_ARRAY_SIZE = 2
  Byte = {lo}
  Val = {init, new, unitword}
  InitWord <- MemInit
  Stores <- NewWord
  Mask <- WholeWords
  VERSION_MAX = 1
  RW_SET_SIZE = 2
  Features = {"irrevocable"}
  MaxLog = 2
  UnitThreads = {t1}
  UnitWord <- UnitNew
  UnitAddr = {0}
INVARIANTS IrrevocableStable
CHECK_DEADLOCK FALSE
