SPECIFICATION FairSpec
CONSTANTS
  o = o
  r = r
  OneShots <- JustO
  Recurring <- JustR
  Later <- JustR
  Period <- Periods
  MaxAge = 2
  MaxTime = 2
  MaxCrashes = 1
  MaxFailures = 1
CHECK_DEADLOCK FALSE
INVARIANT RecurringKeepsPace
PROPERTY DueTaskServed
