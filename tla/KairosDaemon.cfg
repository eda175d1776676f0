SPECIFICATION FairSpec
CONSTANTS
  p1 = p1
  p2 = p2
  Projects <- OneProject
  MaxEdits = 2
CHECK_DEADLOCK FALSE
INVARIANTS WorkersMatch ShutdownComplete NoReflectionAfterStop
PROPERTY RegistryConverges
