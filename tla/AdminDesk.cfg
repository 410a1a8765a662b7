CONSTANTS
    us = us
    intl = intl
    o1 = o1
    o2 = o2
    b1 = b1
    b2 = b2
    Signups = {us, intl}
    International = {intl}
    Operators = {o1, o2}
    Runs = {b1, b2}
    RequestedLimit = 2
    MaxEffort = 10
    MaxMoves = 2
SYMMETRY Peers
SPECIFICATION Spec
INVARIANTS
    DecisionsChain
    OneInvitationMail
    OutcomesAreTrue
    CompletedRunsAddUp
CHECK_DEADLOCK FALSE
