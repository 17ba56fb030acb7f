CONSTANTS
  IPs = {ip1}
  QueueSize = 2
  BATCH_SIZE = 2
  MaxEvents = 4
  MaxErrors = 1
  MaxCrashes = 1
SPECIFICATION FairSpec
INVARIANTS
  TypeOK
  StopFlushes
PROPERTIES
  ImplementsEventLog
  EventuallyStored
