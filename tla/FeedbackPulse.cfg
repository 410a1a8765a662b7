CONSTANTS
    t1 = t1
    t2 = t2
    Tabs <- MCTabs
    Writers <- MCWriters
    FeedbackLimit = 1
    PulseLimit = 1
    Window = 1
    MaxDays = 1
    MaxReleases = 2
    MaxTexts = 1
    MaxPosts = 2
    MaxPrompts = 2
    MaxFaults = 1
SPECIFICATION Spec
INVARIANTS
    CadenceCeiling
    AcknowledgedIsStored
    PulsesSound
CHECK_DEADLOCK FALSE
