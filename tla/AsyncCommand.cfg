SPECIFICATION FairAsyncSpec
CONSTANTS
    Clients = {c1, c2, c3}
    MaxCalls = 4
INVARIANTS HandleOutlivesUseOnceStarted CallbackOnce
PROPERTIES AllDelivered StatusFinal
