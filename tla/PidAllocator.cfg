SPECIFICATION FairSpec
CONSTANTS
    Threads = {t1, t2, t3}
    MaxPids = 3
    MaxOps = 4
INVARIANTS OwnersShareNothing ReferencesCounted NothingLost
PROPERTIES AllocateReturns
