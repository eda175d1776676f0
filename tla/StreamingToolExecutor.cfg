SPECIFICATION FairSpec
CONSTANTS
    MaxCalls = 3
    MaxAttempts = 2
    Streams <- MCStreams
    Talkers = {1}
INVARIANTS WorksAlone StartOrder AnsweredOnce
PROPERTIES DiscardedStaySilent RemainingReturns
CHECK_DEADLOCK FALSE
