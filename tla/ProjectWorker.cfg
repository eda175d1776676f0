SPECIFICATION FairSpec
CONSTANTS
  one = one
  two = two
  rec = rec
  NoTask = NoTask
  Tasks <- MCTasks
  OneShots <- MCOneShots
  MaxFires = 2
INVARIANTS OneDrainAtATime NoLostWakeup StopAwaitsRun
PROPERTIES CoalescesFires StopReturns
