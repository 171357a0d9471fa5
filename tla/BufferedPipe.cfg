SPECIFICATION FairSpec
CONSTANTS
    Capacity = 3
    Sizes = {1, 3}
    MaxBytes = 4
    MaxReads = 3
    MaxSpurious = 1
INVARIANTS EofIsFinal
PROPERTIES ImplementsByteQueue ReaderServed WriterServed
