CONSTANTS
  c1 = c1
  c2 = c2
  h1 = h1
  Handlers <- MCHandlers
  MaxCount = 2
  MaxWorkers = 2
  Conns <- MCOneConn
  MaxSlots = 1
  ReadTimeout = 2
  MaxMessages = 1
SPECIFICATION Spec
INVARIANTS RunsToTheEnd
CHECK_DEADLOCK FALSE
