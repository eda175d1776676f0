SPECIFICATION FairSpec
CONSTANTS
  a = a
  b = b
  leader = leader
  Callers <- Three
  Teammates <- Two
  Starts <- Contents
  MaxId = 2
  MaxOps = 2
  MaxTroubles = 1
CHECK_DEADLOCK FALSE
INVARIANTS ClaimedOnce IdsFresh BlockersRespected ResetSparesWork
PROPERTIES CompletedStays CallsEnd
