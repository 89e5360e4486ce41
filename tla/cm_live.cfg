SPECIFICATION FairSpec
CONSTANTS
  Tx = {1, 2}
  Addr = {0}
  Manager = {"timestamp", "order"}
  Visible = {TRUE, FALSE}
  vr_threshold = 1
  MaxStarts <- OneEach
  COUNTER_MAX = 3
  CountsWrap = TRUE
  MaxLog = 2
CHECK_DEADLOCK FALSE
PROPERTIES TurnComes KillEnds
