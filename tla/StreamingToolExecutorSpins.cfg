SPECIFICATION FairSpec
CONSTANTS
    MaxCalls = 3
    MaxAttempts = 2
    Streams <- MCStreams
    Talkers = {1}
PROPERTY RemainingAlwaysReturns
CHECK_DEADLOCK FALSE
