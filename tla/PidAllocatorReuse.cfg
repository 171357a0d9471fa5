SPECIFICATION Spec
CONSTANTS
    Threads = {t1, t2}
    MaxPids = 2
    MaxOps = 6
INVARIANTS UniqueOwner
