SPECIFICATION FairSpec
CONSTANTS
  a = a
  b = b
  Controllers <- Two
  MaxWindows = 2
  MaxTroubles = 1
CHECK_DEADLOCK FALSE
INVARIANTS ClaimsExclude WindowRunsOnce
PROPERTIES WindowKept ReflectionEnds
