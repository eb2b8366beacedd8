CONSTANTS
    MaxLen = 3
    Byte = {0, 1, 2, 3, 4, 9}
    Zero = 0
    Thread = {1}
    Fd = {3, 4, 5}
    Length <- MCLen
    Body <- MCBody
    Junk = 9
    FlushEvery = 2
    MaxChunk = 2
    MaxFaults = 1
SPECIFICATION Spec
INVARIANT DestDespiteFullDisk
CHECK_DEADLOCK FALSE
