SPECIFICATION Spec
CONSTANTS
  t1 = t1
  t2 = t2
  NoTx = NoTx
  LogType = {"word", "bytes"}
  LateThreads = FALSE
INVARIANTS AbortsCounted
SYMMETRY Symmetry
CHECK_DEADLOCK FALSE
