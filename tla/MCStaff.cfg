SPECIFICATION Spec
CONSTANTS
    Employees = {e1, e2}
    Requests = {r1, r2}
    NoEmployee = NoEmployee
    Nobody = Nobody
    MaxNumber = 3
    HandNumbers = {1, 2}
SYMMETRY Symmetry
CHECK_DEADLOCK FALSE
INVARIANTS
    SomebodyManages
    LocksAreOrdered
    NumbersNeverCollide
