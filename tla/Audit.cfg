SPECIFICATION Spec
CONSTANTS
    Writers = {t1, t2}
    Payloads = {p1, p2}
    MaxRows = 3
    MaxDamage = 1
    None = None
SYMMETRY Interchangeable
INVARIANTS
    TypeOK
    DamageIsNoticed
    NoFalseAlarm
    BatchesAgree
CHECK_DEADLOCK FALSE
