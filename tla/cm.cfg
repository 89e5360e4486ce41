SPECIFICATION Spec
CONSTANTS
  Tx = {1, 2}
  Addr = {0, 1}
  Manager = {"timestamp", "order"}
  Visible = {TRUE, FALSE}
  vr_threshold = 1
  MaxStarts <- OneEach
  COUNTER_MAX = 3
  CountsWrap = FALSE
  MaxLog = 2
CHECK_DEADLOCK FALSE
INVARIANTS LocksKept NoLockLeft CommittedMemory VisibleSerializable
