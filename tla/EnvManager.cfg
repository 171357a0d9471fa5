SPECIFICATION FairSpec
CONSTANTS
    Tids = {t1, t2}
    NumNames = 2
    NumValues = 1
    MaxEnvs = 3
    MaxCalls = 2
INVARIANTS CopyIsSnapshot FoundByItsThread 
PROPERTIES CallsReturn
CHECK_DEADLOCK FALSE
