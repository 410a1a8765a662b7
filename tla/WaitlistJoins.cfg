CONSTANTS
    r1 = r1
    r2 = r2
    Requests = {r1, r2}
    EmailLimit = 3
    ClientLimit = 4
    MaxSignups = 1
    MaxConfirms = 4
    MaxUnsubscribes = 2
    MaxJumps = 0
    MaxCrashes = 0
SPECIFICATION Spec
INVARIANTS
    TypeOK
    MailWithinLimit
    OneWelcomePerLink
PROPERTIES
    RejoinTakesNewerLink
SYMMETRY Symmetry
