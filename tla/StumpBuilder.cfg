SPECIFICATION Spec
CONSTANTS
    MaxLeaves = 7
    Byte = 6
    BlockHeights = {0, 2, 3, 4, 35, 36, 1295, 1296, 1500000}
INVARIANTS
    StumpProves
    EncodeIsReadable
    MergeIsBuild
