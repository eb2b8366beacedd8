CONSTANTS
    BlockSizes = {2, 3}
    Etags = {0, 3, 5}
    DefaultBlock = 3
    MaxChunk = 3
    IoChunk = 2
    Resource <- MCResource
SPECIFICATION Spec
INVARIANTS TypeOK BuilderFollows HashIsOfFile LoadedIsSaved LoadsUnlessAligned
