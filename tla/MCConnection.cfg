SPECIFICATION ConnectionFairSpec
CONSTANTS
    Key = {k1}
    Value = {v1}
    Absent = Absent
    NoWrite = NoWrite
    MaxWrites = 3
    MaxListens = 2
    MaxDrops = 2
    MaxRemote = 1
    MaxEnded = 2
INVARIANTS
    ConnectionTypeOK
    VisibleWritesExact
    EventCacheExact
    PutsMatchWrites
PROPERTIES
    PendingWriteStays
    ImplementsRepo
    PutsAnswered
CHECK_DEADLOCK FALSE
