SPECIFICATION ResetSpec
CONSTANTS
    User = {u1}
    Password = {p1, p2}
    None = None
    MaxScreens = 4
INVARIANTS
    ChangedMeansChanged
CHECK_DEADLOCK FALSE
