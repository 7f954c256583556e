SPECIFICATION DiarySpec
CONSTANTS
    Key = {1, 2}
    Value = {v1, v2}
    Absent = Absent
    NoWrite = NoWrite
    NoKey = NoKey
    MaxWrites = 2
    MaxScreens = 6
    MaxRemote = 1
    MaxKills = 1
SYMMETRY Symmetry
CONSTRAINT FewWaiting
INVARIANTS
    DiaryTypeOK
    NoMemoryMissing
    VisibleListExact
    DeletedStaysDeleted
    SavedMeansAccepted
CHECK_DEADLOCK FALSE
