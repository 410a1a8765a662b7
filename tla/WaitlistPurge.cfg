CONSTANTS
    r1 = r1
    r2 = r2
    Requests = {r1}
    EmailLimit = 2
    ClientLimit = 2
    MaxSignups = 2
    MaxConfirms = 2
    MaxUnsubscribes = 1
    MaxJumps = 2
    MaxCrashes = 1
SPECIFICATION Spec
INVARIANTS
    ConfirmedCanLeave
PROPERTIES
    PurgeCompletes
