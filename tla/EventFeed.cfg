CONSTANTS
  Rules = {ip1, ip2}
  Fetches = {f1, f2}
  EVENTS_LIMIT = 2
  MAX_STREAM_ROWS = 2
  MAX_TABLE_ROWS = 1
  MaxChanges = 3
  MaxLost = 1
SPECIFICATION FairSpec
INVARIANTS
  TypeOK
PROPERTIES
  GoneForGood
  EventsSeen
  RulesShown
