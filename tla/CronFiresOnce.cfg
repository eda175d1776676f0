SPECIFICATION Spec
CONSTANTS
  o = o
  r = r
  OneShots <- JustO
  Recurring <- JustR
  Later <- None
  Period <- Periods
  MaxAge = 3
  MaxTime = 2
  MaxCrashes = 0
  MaxFailures = 0
CHECK_DEADLOCK FALSE
INVARIANT OneShotFiresOnce
