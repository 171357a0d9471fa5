\* Waiters for dropped items and a pool that was shut down may stop for good.
SPECIFICATION FairSpec
CONSTANTS
    c1 = c1
    c2 = c2
    Workers = {w1}
    Submitters = {c1, c2}
    Users = {u1, u2}
    priority <- MCPriority
    max_queue_size = 8
    MaxCalls = 4
    MaxExits = 1
INVARIANTS ReferencesExact
PROPERTIES SubmitReturns WaitReturns ShutdownReturns
CHECK_DEADLOCK FALSE
