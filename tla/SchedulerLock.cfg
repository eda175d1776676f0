SPECIFICATION LockFairSpec
CONSTANTS
  s1 = s1
  s2 = s2
  s3 = s3
  Sessions <- ThreeSessions
  MaxDeaths = 1
CHECK_DEADLOCK FALSE
INVARIANTS OneOwnerUnlessMistaken StoppedLeavesNoLock
PROPERTY TakeOver
