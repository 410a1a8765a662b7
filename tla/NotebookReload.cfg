CONSTANTS
    MaxOpen = 1
    MaxPages = 2
    MaxEdits = 2
    MaxIds = 2
    MaxFaults = 1
    MaxBackIns = 1
SPECIFICATION Spec
INVARIANTS
    TypeOK
    KeptMeansKept
    EditsAreKeptOrComing
    NoDuplicateRecord
PROPERTIES
    SavedSurvives
    UnreadableSpared
CHECK_DEADLOCK FALSE
