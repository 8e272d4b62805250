SPECIFICATION Spec
CONSTANTS
    Users = {u1}
    Assets = {a1}
    Lockers = {k1, k2}
    Kiosks = {kiosk}
    Loans = {l1, l2}
    Handlers = {h1, h2}
    Admins = {}
    MaxConcurrentLoans = 3
    AssetPatches = {"AVAILABLE"}
    LockerPatches = {}
    Relocations = {}
    ShelfStatus = "OCCUPIED"
    Shelf <- OwnLocker
    KioskOf <- OneKiosk
    Seed <- NoSeed
    NoUser = NoUser
    NoAsset = NoAsset
    NoLocker = NoLocker
    NoLoan = NoLoan
    k1 = k1
    k2 = k2
    k3 = k3
    kiosk = kiosk
    a1 = a1
    a2 = a2
    u1 = u1
    l1 = l1
SYMMETRY RowSymmetry
INVARIANTS TypeOK OneHolder BorrowableMeansFree OnLoanOutOfLocker EvidenceKept
PROPERTIES SettledStaysSettled ImplementsCustody
