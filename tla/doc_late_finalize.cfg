SPECIFICATION Spec
CONSTANTS
  t1 = t1
  t2 = t2
  NoTx = NoTx
  LogType = {"word"}
  LateThreads = TRUE
INVARIANT DescriptorsListed
SYMMETRY Symmetry
CHECK_DEADLOCK FALSE
