SPECIFICATION Spec
CONSTANTS
  t1 = t1
  t2 = t2
  NoTx = NoTx
  LogType = {"word", "narrow"}
  LateThreads = FALSE
INVARIANT UndoRestores
SYMMETRY Symmetry
CHECK_DEADLOCK FALSE
