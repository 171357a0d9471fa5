SPECIFICATION FairSpec
CONSTANTS
    Roots = {r1, r2}
    Commands = {c1, c2}
    IOS_MAX_THREADS = 3
    Dirs = {d1}
    Home = d1
    MaxDepth = 2
    MaxOps = 3
INVARIANTS OwnChdirSurvives
PROPERTIES SentinelUnlessStrayed NoEarlyReturnUnlessStrayed EventuallyQuiescent
