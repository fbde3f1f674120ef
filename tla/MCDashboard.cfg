CONSTANTS
  t1 = t1
  t2 = t2
  t3 = t3
  Targets <- MCTargets
  MaxTracked = 2
  MaxRules = 3
  MaxWrites = 2
  MaxLive = 1
  Mixes <- MCMixes
SPECIFICATION FairSpec
INVARIANTS RulesListed StableMeansWell
PROPERTIES AlertShows
CHECK_DEADLOCK FALSE
