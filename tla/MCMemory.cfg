SPECIFICATION MemorySpec
CONSTANTS
    SkipKey = {1, 2}
    SkipReader = {r1}
    SkipMaxHeight = 2
    MaxInserts = 2
    HeadNode = HeadNode
    Nil = Nil
    Garbage = Garbage
    Key = {1, 3}
    NULL = NULL
    Loaded = 3
    BlockSizes = {2}
    MaxWrites = 1
    CacheKey = {1, 3, 4}
    CacheThread = {t1, t2}
    Charge <- MCCharge
    Capacities = {0, 3}
    HashBits = 3
    kNumShardBits = 1
    TableLength = 2
    MaxHandles = 4
    t1 = t1
    t2 = t2
    t3 = t3
    EnvThread = {t1, t2, t3}
    ProcOf <- MCProcOf
    NoProc = NoProc
    MmapLimit = 1
    FdLimit = 1
    MaxScheduled = 3
    MaxLockCalls = 4
    FoundFiles = {1, 2}
    MaxRepairCrashes = 2
    kBlockSize = 12
    ArenaAlign = 2
    ArenaBytes = {1, 3, 5}
    MaxAllocations = 5
    ManifestNumber = {1, 2}
    ReadBuffer = 2
    StoreUser = {"u1", "u2"}
    MaxOpens = 3
    ApiKey = {1}
    ApiValue = {0, 1}
    MaxApiCalls = 4
INVARIANTS
    CApiExact
    SkipListExact
    CacheExact
    EnvExact
    RepairExact
    ArenaExact
PROPERTIES
    ImplementsCursor
CHECK_DEADLOCK FALSE
