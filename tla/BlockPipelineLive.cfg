CONSTANTS
    b1 = b1
    b2 = b2
    u1 = u1
    u2 = u2
    p1 = p1
    p2 = p2
    q1 = q1
    q2 = q2
    Block = {b1, b2}
    Url = {u1}
    WorkPartition = {p1, p2}
    Process = {q1}
    SubtreeCount <- TwoCount
    Height <- TwoHeight
    PartitionOf <- TwoPartitionOf
    Registered <- TwoRegistered
    Registry = {u1}
    Realtime <- NoRealtime
    Processor = q1
    WorkerOf <- AllInOne
    DedupSize = 1
    DAHOffset = 1
    StumpDAHOffset = 2
    MaxAnnounce = 3
    MaxFault = 0
    MaxCrash = 0
SPECIFICATION FairSpec
PROPERTIES
    AnnouncedIsReported
    SubtreesPruned
