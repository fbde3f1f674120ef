CONSTANTS
  c1 = c1
  c2 = c2
  h1 = h1
  Handlers <- MCHandlers
  MaxCount = 2
  MaxWorkers = 2
  Conns <- MCConns
  MaxSlots = 2
  ReadTimeout = 0
  MaxMessages = 2
SPECIFICATION Spec
SYMMETRY MCSymmetry
INVARIANTS SlotsConserved EndsOnce StopsSoon
CHECK_DEADLOCK FALSE
