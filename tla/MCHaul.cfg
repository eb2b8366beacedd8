CONSTANTS
    MaxLen = 3
    Byte = {0, 1, 2, 3, 4}
    Zero = 0
    Versions = {1, 2, 3, 4}
    Length <- MCLen
    Body <- MCBody
    TagOf <- MCTag
    NoTag = "none"
    StrongTag = {"t1", "t2", "t3", "t4"}
    UnreadableTag = {"t3"}
    BlockSize = 2
    FlushEvery = 2
    MaxChunk = 2
    MaxFaults = 3
    Rollback = FALSE
    BlindRange = TRUE
    Blind416 = FALSE
    UnlinkCrash = FALSE
SPECIFICATION FairSpec
INVARIANTS TypeOK DestIntact HashMatches CtrlTruthful BoundedLoss LastBlockHashed
PROPERTIES  DeliversAtomically RetryCompletes
