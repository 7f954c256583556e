SPECIFICATION DBFairSpec
CONSTANTS
    Thread = {t1, t2}
    Reader = {r1}
    Key = {1}
    MaxWrites = 3
    MaxEvents = 1
    MaxStops = 2
    Flusher = {t1}
    BufferSize = 0
    MaxGroup = 2
    CompactionTrigger = 1
    SlowdownTrigger = 1
    StopTrigger = 2
    ReuseLogs = {FALSE,TRUE}
INVARIANTS
    ReadsExact
    
PROPERTIES
    
    WritesReturn
CHECK_DEADLOCK FALSE
