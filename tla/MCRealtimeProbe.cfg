CONSTANTS
  MaxRuns = 3
  MaxResults = 2
  Kinds <- MCKinds
SPECIFICATION FairSpec
INVARIANTS TypeOK ReportIsOfRun RequestedOnce EndedMeansOver StopReaches
PROPERTIES BusyEnds
CHECK_DEADLOCK FALSE
