SPECIFICATION FormatsSpec
CONSTANTS
    BlockSize = 8
    HeaderSize = 3
    Length = {0, 12}
    MaxRecords = 3
    MaxLogFaults = 2
    Group = 3
    Word = 5
    MaxRequired = 2
    Types <- MCTypes
    Fields <- MCFields
    Samples <- MCSamples
    RawTypes = {"ints"}
    MaxMessages = 2
    MaxReceived = 3
    MaxFaults = 1
    TopByte = 2
    UserKey <- MCUserKey
    MaxTag = 2
    MaxEntries = 4
    BlockLimit = 18
    RestartInterval = 2
    FilterBase = 16
    BitsPerKey = 3
    MinBits = 4
    Probes = 2
    BloomHash <- MCBloomHash
    GroupBits = 2
    W32 = 5
    W64 = 7
    CodeNumber = {0, 127}
    CodeLevel = {0, 6}
    kNumLevels = 7
    CodeSlice <- MCCodeSlice
    MaxFields = 2
    NameDigits = 2
    ByteBits = 2
    Poly = 178
    WordsAtOnce = 2
    kMaskDelta = 162
    MaskShift = 3
    CrcByte = {1, 2, 3}
    MaxCrcLength = 11
    MaxNonzero = 2
    Pad64 = 64
    Space = 65
    OtherChar = 66
    B64Bytes = {0, 1, 77, 255}
    B64Chars = {0, 16, 63, 64, 65, 66}
    MaxB64Bytes = 20
    MaxB64Chars = 5
    MaxB64Nonzero = 2
    DigestLength = 20
    NonceLength = 16
    AccelerateOver = 7
    RandBits = 13
    RandA = 1234
    BucketLimit <- MCBucketLimit
    HugeLimit = 50
    Sample = {0, 1, 3, 4, 9}
    MaxSamples = 4
    Percents = {1, 50, 90, 100}
    StatusCode = {"NotFound", "IOError"}
    MessageLength = {0, 3}
    MaxStatusCalls = 4
    SmallBuffer = 8
    LargeBuffer = 14
    HeaderLength = 5
    MaxTextLength = 12
    MaxCleanups = 5
    IntBits = 6
    ClipMin = 4
    ClipMax = 20
    kNumNonTableCacheFiles = 2
    MemberKinds <- MCMemberKinds
    MaxMembers = 3
    PointerSize = 8
    CallbackSize = 16
    PB_SIZE_MAX = 255
INVARIANTS
    UtilExact
    LogExact
    NanopbExact
    TableExact
    CodingExact
    ChecksumExact
    Base64Exact
CHECK_DEADLOCK FALSE
