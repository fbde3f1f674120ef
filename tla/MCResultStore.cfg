CONSTANTS
  c1 = c1
  c2 = c2
  Callers <- MCCallers
  BatchSize = 2
  QueueFactor = 1
  MinQueue = 1
  Retention = 1
  MaxClock = 3
  MaxErrors = 1
  MaxCrashes = 1
SPECIFICATION FairSpec
INVARIANTS TypeOK StoredOnce CallerOrderKept CloseKeepsAccepted
PROPERTIES AcceptedSettles CloseReturns ExpiredRowsGo Implements
CHECK_DEADLOCK FALSE
