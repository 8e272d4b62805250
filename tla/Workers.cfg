SPECIFICATION LiveSpec
CONSTANTS
    Instances = {i1, i2}
    Loans = {l1, l2}
    BatchSize = 2
    MaxFaults = 2
    User = user
    None = None
INVARIANTS
    TypeOK
    MovedOnce
PROPERTIES
    ImplementsPromise
CHECK_DEADLOCK FALSE
