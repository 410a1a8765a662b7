CONSTANTS
    r1 = r1
    r2 = r2
    phone = phone
    laptop = laptop
    BrowserOf <- OneBrowser
    Browsers = {phone}
    Requests = {r1}
    MaxVersion = 1
    MaxInvitations = 2
    MaxAuthorizations = 2
    MaxBackground = 1
    MaxStatusChanges = 3
    MaxSweeps = 1
    MaxExpiries = 0
SPECIFICATION Spec
INVARIANTS
    WithdrawalIsFinal
PROPERTIES
    NothingWrittenUnlessConfirmed
