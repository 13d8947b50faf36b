SPECIFICATION Spec
CONSTANTS
    Tasks = {t1, t2}
    Assignments = {a1, a2, a3, a4}
    Technicians = {e1, e2}
    NoTask = NoTask
    NoAssignment = NoAssignment
    MaxRevision = 2
SYMMETRY Symmetry
INVARIANTS
    TypeOK
    StoredStatusIsDerived
    ConfirmationWaitsForAllTasks
    OpenWorkOnlyWhileDispatchable
    NoOpenWorkOnDoneTask
    OneActiveAssignment
    OpenWorkIsOfCurrentCycle
    RevisionShowsWork
    DefectsAreClosedWork
PROPERTIES
    ClosedCyclesAreFrozen
    LifecycleSpec
