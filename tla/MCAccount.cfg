SPECIFICATION AccountSpec
CONSTANTS
    User = {u1, u2}
    Password = {p1}
    NoUser = NoUser
    None = None
    NotFound = NotFound
    MaxScreens = 4
    MaxRequests = 2
    MaxWrites = 1
    MaxReads = 2
    MaxKills = 1
SYMMETRY Symmetry
INVARIANTS
    AccountTypeOK
    ListMeansAccepted
    TapsNeverTrap
CHECK_DEADLOCK FALSE
