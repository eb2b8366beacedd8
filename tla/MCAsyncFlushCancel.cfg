CONSTANTS
    Length = 3
    BlockSize = 2
    FlushEvery = 2
    MaxChunk = 2
    MaxFaults = 0
    MaxCancels = 1
    CancelAt = {"request", "stream", "flush"}
    UnlinkFails = FALSE
    FD = {1, 2, 3}
    Inode = {1, 2, 3, 4, 5, 6, 7}
SPECIFICATION Spec
INVARIANT DescriptorOwned
