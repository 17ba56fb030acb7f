CONSTANTS
  IPs = {ip1, ip2, ip3}
  Exempt = {ip3}
  Loop = loop
  Operators = {}
  Endpoints = {}
  RULE_TTL_DEFAULT = 3
  RULE_TTL_MAX = 4
  RULE_CLEANUP_INTERVAL = 1
  MAX_KERNEL_RULES = 1
  Scores = {1}
  MaxFaults = 0
  MaxCrashes = 0
  SIMULATION_MODE = FALSE
SPECIFICATION FairSpec
INVARIANTS
  BlackholeTracked
  DropEnforced
PROPERTIES
  ImplementsFairRuleTable
