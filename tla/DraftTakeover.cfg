CONSTANTS
    MaxOpen = 2
    MaxPages = 3
    MaxEdits = 3
    MaxIds = 1
    MaxFaults = 0
    MaxBackIns = 0
SPECIFICATION Spec
PROPERTIES
    OthersWorkSpared
CHECK_DEADLOCK FALSE
