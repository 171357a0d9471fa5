SPECIFICATION Spec
CONSTANTS
    Threads = {t1, t2}
    Ids = {i1}
    MaxSessions = 3
    MaxOps = 4
INVARIANTS ReferencePinsSession
