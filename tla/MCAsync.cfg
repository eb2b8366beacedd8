CONSTANTS
    Length = 3
    BlockSize = 2
    FlushEvery = 2
    MaxChunk = 2
    MaxFaults = 2
    MaxCancels = 1
    CancelAt = {"request", "open", "stream", "final_sync"}
    UnlinkFails = FALSE
    FD = {1, 2, 3}
    Inode = {1, 2, 3, 4, 5, 6, 7}
SPECIFICATION FairSpec
INVARIANTS TypeOK CtrlWhole CtrlBacked DescriptorOwned OneWriter NoLeak StreamOpen CancelSaves
PROPERTIES DeliversAtomically RetryCompletes
