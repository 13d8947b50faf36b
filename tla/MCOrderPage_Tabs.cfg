SPECIFICATION Spec
CONSTANTS
    Orders = {o1, o2}
    MaxVersion = 4
    MaxTexts = 2
    MaxQueue = 1
    Starts = {"AWAITING_CONFIRMATION"}
    OthersMoves <- MCRevised
    NoOrder = NoOrder
    NoRow = NoRow
    Away = Away
    Idle = Idle
INVARIANT CompleteFindsItsPhoto
CHECK_DEADLOCK FALSE
