SPECIFICATION CompactionSpec
CONSTANTS
    Key = {1, 2, 3, 4}
    WriteKey = {2, 4}
    Recovered <- MCEmpty
    NULL = NULL
    NumLevels = 3
    MaxMemCompactLevel = 1
    L0_CompactionTrigger = 2
    MaxFileSize = 2
    MaxGrandParentOverlap = 1
    ExpandedLimit = 5
    MaxBytes <- MCMaxBytes
    AllowedSeeks = 1
    Deletes = {FALSE, TRUE}
    Ranges <- MCRanges
    MaxWrites = 3
    MaxEvents = 2
INVARIANT EntriesNeverHop
CHECK_DEADLOCK FALSE
