SPECIFICATION Spec
CONSTANTS
  t1 = t1
  t2 = t2
  NoTx = NoTx
  LogType = {"word", "bytes"}
  LateThreads = FALSE
INVARIANTS GlobalStats SamplesAccounted UndoRestores LogBlocks CallbacksRun DescriptorsListed PercentilesSound ClonesFound BytesExact
SYMMETRY Symmetry
CHECK_DEADLOCK FALSE
