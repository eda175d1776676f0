SPECIFICATION FairSpec
CONSTANTS
    Inputs = {1, 2, 3, 4}
    Kindings <- MCKindings
    MaxTurns = 3
    MaxCancels = 1
INVARIANTS GuardHeld NothingLost TakenOnce
PROPERTY Served
CHECK_DEADLOCK FALSE
