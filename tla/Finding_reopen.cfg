CONSTANTS
  dns = dns
  other = other
  Ports = {other}
  Catalog = {}
  Protocol <- MCProtocol
  Requests = {r1}
  MaxFaults = 0
  MaxFlushes = 0
  MaxClicks = 2
  MaxLost = 0
SPECIFICATION Spec
INVARIANTS
  KernelAgrees
