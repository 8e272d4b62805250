SPECIFICATION Spec
CONSTANTS
    Logins = {l1, l2}
    Refreshes = {r1, r2}
    Admins = {m1}
    MaxAttempts = 2
    MaxSessions = 1
    MaxTokens = 3
    MaxFaults = 1
    None = None
SYMMETRY Alike
INVARIANTS
    TypeOK
    OneTokenPerSession
    RefreshedWhileWelcome
CHECK_DEADLOCK FALSE
