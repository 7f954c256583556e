SPECIFICATION AccountSpec
CONSTANTS
    User = {u1}
    Password = {p1, p2}
    NoUser = NoUser
    None = None
    NotFound = NotFound
    MaxScreens = 4
    MaxRequests = 2
    MaxWrites = 1
    MaxReads = 0
    MaxKills = 0
SYMMETRY Symmetry
INVARIANTS
    UidIsThere
CHECK_DEADLOCK FALSE
