SPECIFICATION Spec
CONSTANTS
    Tasks = {t1, t2}
    Assignments = {a1, a2, a3}
    Technicians = {e1, e2}
    NoTask = NoTask
    NoAssignment = NoAssignment
    MaxRevision = 1
SYMMETRY Symmetry
INVARIANT
    AllTasksDoneIsReevaluated
