CONSTANTS
    r1 = r1
    r2 = r2
    phone = phone
    laptop = laptop
    BrowserOf <- TwoBrowsers
    Browsers = {phone,laptop}
    Requests = {r1, r2}
    MaxVersion = 2
    MaxInvitations = 2
    MaxAuthorizations = 2
    MaxBackground = 1
    MaxStatusChanges = 1
    MaxSweeps = 0
    MaxExpiries = 1
SPECIFICATION Spec
INVARIANTS
    TypeOK
    ProfileInv
    ConsentCoversProfile
    OneMutationPerInvitation
    OnlyNewestInvitationUsable
PROPERTIES
    ImplementsPromise
