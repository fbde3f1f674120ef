CONSTANTS
  e1 = e1
  e2 = e2
  Nobody = Nobody
  NRules = 1
  Evals <- MCEvals
  Configs <- MCConfigs
  Samples <- MCAllSamples
  MaxTime = 3
  MaxRuns = 3
  MaxSaves = 0
SPECIFICATION Spec
INVARIANTS RecoversFromAlert
CHECK_DEADLOCK FALSE
