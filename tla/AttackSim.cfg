CONSTANTS
  Threads = {t1, t2}
  Vectors = {syn_flood, port_scan}
  NoVector = NoVector
  Durations = {0, 1, 2}
  MaxSent = 3
SPECIFICATION FairSpec
INVARIANTS
  TypeOK
  LatestRuns
  AbortedStops
PROPERTIES
  AttackEnds
