SPECIFICATION FairSpec
CONSTANTS
    N = 2
    Killers = {k1}
    MaxKills = 1
INVARIANTS StreamsOutliveCommand FlagAndByteAgree
PROPERTIES WaitReturns CancelReaches
CHECK_DEADLOCK FALSE
