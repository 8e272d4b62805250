SPECIFICATION Spec
CONSTANTS
    Attempts = {a1, a2, a3, a4}
    checkout = checkout
    report = report
    giveback = giveback
    open = open
    Keys <- MCKeys
    KindOf <- MCKindOf
    Limit = 2
    MaxFaults = 2
    Counter = counter
    None = None
SYMMETRY Alike
INVARIANTS
    TypeOK
    EffectOnce
    NothingStranded
CHECK_DEADLOCK FALSE
