CONSTANTS
  IPs = {ip1}
  Exempt = {}
  Loop = loop
  Operators = {}
  Endpoints = {}
  RULE_TTL_DEFAULT = 4
  RULE_TTL_MAX = 6
  RULE_CLEANUP_INTERVAL = 1
  MAX_KERNEL_RULES = 1
  Scores = {1}
  MaxFaults = 0
  MaxCrashes = 0
  SIMULATION_MODE = FALSE
SPECIFICATION Spec
INVARIANTS
  BlockedForTtl
