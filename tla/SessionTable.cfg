SPECIFICATION Spec
CONSTANTS
    Threads = {t1, t2, t3}
    Ids = {i1, i2}
    MaxSessions = 3
    MaxOps = 6
SYMMETRY Interchangeable
INVARIANTS PinnedUnlessRaced OneOpenSession CountsAgree NoOrphanUnlessOvertaken
