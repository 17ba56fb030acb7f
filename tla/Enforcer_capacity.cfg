CONSTANTS
  IPs = {ip1, ip2, ip3}
  Exempt = {}
  Loop = loop
  Operators = {op1}
  Endpoints = {"unblock", "flush"}
  RULE_TTL_DEFAULT = 1
  RULE_TTL_MAX = 1
  RULE_CLEANUP_INTERVAL = 1
  MAX_KERNEL_RULES = 2
  Scores = {1, 2}
  MaxFaults = 0
  MaxCrashes = 1
  SIMULATION_MODE = TRUE
SPECIFICATION Spec
SYMMETRY Symmetry
INVARIANTS
  CapacityRespected
PROPERTIES
  EvictionSparesHigher
  ImplementsRuleTable
