CONSTANTS
    MaxLen = 3
    Byte = {0, 1, 2, 3, 4}
    Zero = 0
    Versions = {1, 2, 3}
    Length <- MCLen
    Body <- MCBody
    TagOf <- MCTag
    NoTag = "none"
    StrongTag = {"t1", "t2", "t3", "t4"}
    UnreadableTag = {"t3"}
    BlockSize = 2
    FlushEvery = 2
    MaxChunk = 2
    MaxFaults = 2
    Rollback = FALSE
    BlindRange = TRUE
    Blind416 = TRUE
    UnlinkCrash = FALSE
SPECIFICATION Spec
INVARIANT DestIntact
