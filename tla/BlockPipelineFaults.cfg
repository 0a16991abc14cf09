CONSTANTS
    b1 = b1
    b2 = b2
    u1 = u1
    u2 = u2
    p1 = p1
    p2 = p2
    q1 = q1
    q2 = q2
    Block = {b1}
    Url = {u1, u2}
    WorkPartition = {p1, p2}
    Process = {q1, q2}
    SubtreeCount <- OneCount
    Height <- OneHeight
    PartitionOf <- OnePartitionOf
    Registered <- OneRegistered
    Registry = {u1, u2}
    Realtime <- OneRealtime
    Processor = q1
    WorkerOf <- PerPod
    DedupSize = 1
    DAHOffset = 1
    StumpDAHOffset = 2
    MaxAnnounce = 2
    MaxFault = 1
    MaxCrash = 1
SPECIFICATION Spec
INVARIANTS
    TypeOK
    
    
    StumpRefResolves
