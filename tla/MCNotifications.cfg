SPECIFICATION MCSpec
CONSTANTS
    Notes = {n1, n2}
    Nothing = Nothing
    Old = n1
INVARIANTS
    WhatWasToldIsShown
PROPERTIES
    ScreensNeverGoBack
    BadgeCatchesUp
