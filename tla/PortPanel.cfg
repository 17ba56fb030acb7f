CONSTANTS
  dns = dns
  other = other
  Ports = {dns, other}
  Catalog = {dns}
  Protocol <- MCProtocol
  Requests = {r1, r2}
  MaxFaults = 1
  MaxFlushes = 1
  MaxClicks = 3
  MaxLost = 1
SPECIFICATION Spec
SYMMETRY Symmetry
INVARIANTS
  TypeOK
  QuarantineEnforced
  PanelCurrent
