CONSTANTS
  Keys = {k1, k2}
  max_flows = 1
  idle_timeout = 1
  window_sec = 2
  QueueSize = 2
  MaxPackets = 3
  MaxTime = 2
SPECIFICATION FairSpec
INVARIANTS
  TypeOK
  RatiosAtMostOne
  FinalizedComplete
  FinalizedIdle
  FinalizedOnce
PROPERTIES
  IdleFlowsLeave
CHECK_DEADLOCK FALSE
