SPECIFICATION LiveSpec
CONSTANTS
    pickup = pickup
    giveback = giveback
    loan1 = loan1
    loan2 = loan2
    Openings = {pickup, giveback}
    Photos = {ph1, ph2}
    LoanOf <- MCLoanOf
    TypeOf <- MCTypeOf
    MaxCrashes = 1
    None = None
INVARIANTS
    TypeOK
    EntryHasImage
    QueuedUntilAccepted
PROPERTIES
    QueueDrains
CHECK_DEADLOCK FALSE
