CONSTANTS
    b1 = b1
    b2 = b2
    u1 = u1
    u2 = u2
    p1 = p1
    p2 = p2
    q1 = q1
    q2 = q2
    Block = {b1}
    Url = {u1}
    WorkPartition = {p1, p2}
    Process = {q1, q2}
    SubtreeCount <- ThreeCount
    Height <- ThreeHeight
    PartitionOf <- ThreePartitionOf
    Registered <- ThreeRegistered
    Registry = {u1}
    Realtime <- NoRealtime
    Processor = q1
    WorkerOf <- PerPod
    DedupSize = 1
    DAHOffset = 1
    StumpDAHOffset = 2
    MaxAnnounce = 1
    MaxFault = 0
    MaxCrash = 1
SPECIFICATION Spec
INVARIANT
    BlockProcessedMeansAll
