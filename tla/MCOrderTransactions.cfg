SPECIFICATION Spec
CONSTANTS
    OrderScreens = {o1}
    TaskSheets = {}
    MyLists = {m1}
    NoScreen = NoScreen
    MaxVersion = 3
    MaxAnswers = 1
INVARIANTS
    TypeOK
    NoBlindOverwrite
    EarlyReadIsCurrent
    NoTornScreen
PROPERTIES
    CacheNeverGoesBack
    EveryCommandEnds
