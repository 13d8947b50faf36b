SPECIFICATION Spec
CONSTANTS
    Kinds = {"employee", "product", "service", "customer", "group", "department", "gift"}
    Capabilities <- MCCapabilities
    MaxVersion = 3
    NoRow = NoRow
    Failed = Failed
    Closed = Closed
    Idle = Idle
CHECK_DEADLOCK FALSE
INVARIANTS
    SavesWhatItShowed
    ConfirmsWhatItShowed
    OwnWorkIsFresh
