SPECIFICATION Spec
CONSTANTS
    k1 = k1
    k2 = k2
    k3 = k3
    k4 = k4
    Key = {k1, k2, k3, k4}
    Value = {0, 1}
    Input <- Inputs
    Batch <- Batches
    Hash <- Collide
    KeyLen <- Lengths
    ValueLen = 1
    HeaderLen = 4
    ChunkSize = 14
    CacheBytes = 57
    BucketsCount = 2
    BucketType = {"unallocated", "trimmed", "preallocated"}
    TrimRatio = 2
    GenSizeBits = 2
    MinSlabChunks = 1
    ChunksPerAlloc = 4
    SmallBucketChunks = 1
    SlabTarget = 100
INVARIANTS
    GetIsLastSet
    ReadsWholePair
    FoundUntilOverwritten
    NeverExhausted
