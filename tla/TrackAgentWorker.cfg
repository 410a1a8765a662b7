CONSTANTS
    n1 = n1
    question = question
    r1 = r1
    r2 = r2
    Notes = {n1, question}
    OutOfScope = {question}
    Heard <- MCHeard
    Words <- MCWords
    Marks = {"plus", "minus"}
    SoftOneClick <- MCSoft
    LowValue <- MCLowValue
    Provider = "ai_json"
    Riders = {r1, r2}
    Users = {r1}
    OpenAccess = FALSE
    Typed <- MCTyped
    MaxParses = 2
    MaxSaves = 2
    MaxEvents = 1
    HalvesUp <- MCHalvesUp
    Inputs <- MCInputs
    Reruns <- MCReruns
    MaxRuns = 2
    MaxLost = 1
SPECIFICATION WorkerSpec
INVARIANTS
    StoredAsReviewed
    NoteOfRows
    ReadBackIsOwn
    HeardSurvives
    AdviceBounded
    ConfidenceEarned
    AdviceOfLatestRun
PROPERTIES
    PageSettles
CHECK_DEADLOCK FALSE
