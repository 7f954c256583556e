SPECIFICATION CompactionFairSpec
CONSTANTS
    Key = {1, 2, 3, 4}
    WriteKey = {2, 4}
    Recovered <- MCRecovered
    NULL = NULL
    NumLevels = 3
    MaxMemCompactLevel = 1
    L0_CompactionTrigger = 2
    MaxFileSize = 2
    MaxGrandParentOverlap = 1
    ExpandedLimit = 5
    MaxBytes <- MCMaxBytes
    AllowedSeeks = 1
    Deletes = {FALSE, TRUE}
    Ranges <- MCRanges
    MaxWrites = 3
    MaxEvents = 2
INVARIANTS
    CompactionTypeOK
    LevelsDisjoint
    ReadsExact
PROPERTIES
    CallsReturn
    CompactionsSettle
CHECK_DEADLOCK FALSE
