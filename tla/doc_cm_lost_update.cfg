SPECIFICATION Spec
CONSTANTS
  Tx = {1, 2}
  Addr = {0}
  Manager = {"timestamp"}
  Visible = {TRUE, FALSE}
  vr_threshold = 1
  MaxStarts <- OneAndTwo
  COUNTER_MAX = 3
  CountsWrap = FALSE
  MaxLog = 2
CHECK_DEADLOCK FALSE
INVARIANTS Serializable
