SPECIFICATION FairSpec
CONSTANTS
  p1 = p1
  p2 = p2
  w1 = w1
  t1 = t1
  Projects <- MCProjects
  Lanes <- MixedLanes
  Tier3Lanes <- MCTier3
  ProjectOf <- MCProjectOf
  GlobalCap = 1
  ProjectCap = 2
  MaxCost = 1
  MaxRuns = 3
  MaxUserWrites = 1
  MaxRestarts = 2
  MaxFailures = 1
CHECK_DEADLOCK FALSE
INVARIANTS PauseLetsOneRunFinish OvershootBounded FirstAuthLatchHolds LedgerExact
PROPERTY RecordsNotBlocked
