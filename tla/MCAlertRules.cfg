CONSTANTS
  e1 = e1
  e2 = e2
  Nobody = Nobody
  NRules = 1
  Evals <- MCEvals
  Configs <- MCConfigs
  Samples <- MCSamples
  MaxTime = 3
  MaxRuns = 3
  MaxSaves = 1
SPECIFICATION FairSpec
INVARIANTS StreakCountsBreaches SeenIsCurrent
PROPERTIES CooldownHolds EvaluationEnds
CHECK_DEADLOCK FALSE
