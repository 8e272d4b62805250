SPECIFICATION LiveSpec
CONSTANTS
    Workers = {w1, w2}
    d1 = d1
    d2 = d2
    Deployments = {d1, d2}
    Asked <- MCAsked
    Original = original
    Torn = torn
    Mixed = mixed
    Broken = broken
    MaxCrashes = 1
    None = None
INVARIANTS
    TypeOK
    AcceptedIsInstalled
    FailedIsRolledBack
PROPERTIES
    WeightsStay
    AcceptedIsServed
    ServiceReturns
CHECK_DEADLOCK FALSE
