CONSTANTS
  Loop = loop
  Campaigns = {c1}
  IPs = {ip1, ip2, ip3}
  Exempt = {ip3}
  Policy = {"DROP_IP", "RATE_LIMIT_IP"}
  FEATURE_QUEUE_MAXSIZE = 2
  ACTION_QUEUE_MAXSIZE = 1
  MAX_KERNEL_RULES = 1
  History = 2
  MaxFlows = 3
SPECIFICATION FairSpec
INVARIANTS
  TypeOK
  InOrder
  RuleExplained
  ThirdBlockHealed
PROPERTIES
  FlowsSettled
CHECK_DEADLOCK FALSE
