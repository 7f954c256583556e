SPECIFICATION AccountSpec
CONSTANTS
    User = {u1}
    Password = {p1, p2}
    NoUser = NoUser
    None = None
    NotFound = NotFound
    MaxScreens = 5
    MaxRequests = 3
    MaxWrites = 2
    MaxReads = 2
    MaxKills = 0
SYMMETRY Symmetry
CONSTRAINTS
    NotAllParted
    FewUnderWay
INVARIANTS
    PasswordsAgree
CHECK_DEADLOCK FALSE
