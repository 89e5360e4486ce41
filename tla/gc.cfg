SPECIFICATION Spec
CONSTANTS
  Tx = {t1, t2}
  Block = {b1, b2}
  MAX_GC_THREADS = 2
  VERSION_MAX = 3
  ClockMax = 4
  Scenarios <- JoinOrReset
SYMMETRY Symmetry
CHECK_DEADLOCK FALSE
INVARIANTS NoDangling Accounted SlotOwner
