SPECIFICATION FileSpec
CONSTANTS
  one = one
  two = two
  rec = rec
  Tasks <- MCTasks
  OneShots <- MCOneShots
  Late <- MCLate
  MaxFires = 2
INVARIANT CleanupExact
