SPECIFICATION Spec
CONSTANTS
    OrderScreens = {o1}
    TaskSheets = {t1}
    MyLists = {}
    NoScreen = NoScreen
    MaxVersion = 2
    MaxAnswers = 2
INVARIANTS
    TaskSheetNeverOverwrites
