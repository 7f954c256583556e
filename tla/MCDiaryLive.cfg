SPECIFICATION DiaryFairSpec
CONSTANTS
    Key = {1, 2}
    Value = {v1}
    Absent = Absent
    NoWrite = NoWrite
    NoKey = NoKey
    MaxWrites = 2
    MaxScreens = 3
    MaxRemote = 1
    MaxKills = 1
PROPERTIES
    Converges
CHECK_DEADLOCK FALSE
