SPECIFICATION Spec
CONSTANTS
    pickup = pickup
    giveback = giveback
    loan1 = loan1
    loan2 = loan2
    Openings = {pickup, giveback}
    Photos = {ph1, ph2}
    LoanOf <- MCLoanOf
    TypeOf <- MCTypeOf
    MaxCrashes = 0
    None = None
INVARIANT
    PhotoNamesItsSession
CHECK_DEADLOCK FALSE
