SPECIFICATION Spec
CONSTANTS
    Orders = {o1, o2}
    MaxVersion = 3
    MaxTexts = 2
    MaxQueue = 2
    Starts = {"DRAFT", "PENDING_DISPATCH"}
    OthersMoves <- MCSent
    NoOrder = NoOrder
    NoRow = NoRow
    Away = Away
    Idle = Idle
INVARIANTS
    QueuedWritesNeverMeetThemselves
    OneOrderPerForm
PROPERTIES
    UnsavedTextSurvives
CHECK_DEADLOCK FALSE
