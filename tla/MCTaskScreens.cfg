SPECIFICATION MCSpec
CONSTANTS
    Tasks = {t1}
    Assignments = {a1, a2}
    Technicians = {e1, e2}
    NoTask = NoTask
    NoAssignment = NoAssignment
    MaxRevision = 1
    Lead = Lead
    Nothing = Nothing
    NoAnswer = NoAnswer
    MaxVersion = 5
SYMMETRY MCSymmetry
CONSTRAINT FewAside
INVARIANTS
    TechnicianOnlyMeetsChanges
    OpenWorkIsOffered
PROPERTIES
    LeadIsRefusedForCause
