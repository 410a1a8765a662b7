CONSTANTS
    MaxOpen = 2
    MaxPages = 2
    MaxEdits = 2
    MaxIds = 1
    MaxFaults = 0
    MaxBackIns = 0
SPECIFICATION Spec
INVARIANTS
    OwnKeptMeansKept
PROPERTIES
    OnlyMisledTouchOthersWork
CHECK_DEADLOCK FALSE
