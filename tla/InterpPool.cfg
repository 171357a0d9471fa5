SPECIFICATION FairSpec
CONSTANTS
    Agents = {a1, a2}
    DefaultSize = 1
    ConfigSizes = {2}
    WordBits = 2
    Disturb = TRUE
    MaxOps = 4
INVARIANTS TypeOK MutualExclusion AdmittedFindsSlot CapacityConserved
PROPERTIES ImplementsSlotPool AcquireReturns CallsReturn
