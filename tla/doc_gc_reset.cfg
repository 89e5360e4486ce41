SPECIFICATION Spec
CONSTANTS
  Tx = {t1, t2}
  Block = {b1}
  MAX_GC_THREADS = 2
  VERSION_MAX = 1
  ClockMax = 2
  Scenarios <- JoinAndReset
SYMMETRY Symmetry
CHECK_DEADLOCK FALSE
PROPERTIES ResetStopped
