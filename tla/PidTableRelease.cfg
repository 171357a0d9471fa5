SPECIFICATION Spec
CONSTANTS
    Roots = {r1, r2}
    Commands = {c1}
    IOS_MAX_THREADS = 2
    Dirs = {d1}
    Home = d1
    MaxDepth = 1
    MaxOps = 2
PROPERTIES NoEarlyReturn
