SPECIFICATION Spec
CONSTANTS
    r1 = r1
    r2 = r2
    r3 = r3
    Repairs = {r1, r2, r3}
SYMMETRY Symmetry
INVARIANTS RepairIsConsistent TracksKeepTheirTimeline
PROPERTY ReplacedOnlyAfterValidation
CHECK_DEADLOCK FALSE
