CONSTANTS
  IPs = {ip1}
  Exempt = {}
  Loop = loop
  Operators = {op1, op2}
  Endpoints = {"unblock"}
  RULE_TTL_DEFAULT = 2
  RULE_TTL_MAX = 3
  RULE_CLEANUP_INTERVAL = 1
  MAX_KERNEL_RULES = 1
  Scores = {1}
  MaxFaults = 1
  MaxCrashes = 1
  SIMULATION_MODE = FALSE
SPECIFICATION Spec
SYMMETRY Symmetry
INVARIANTS
  TypeOK
  ElementExpiresFirst
  RateLimitEnforced
