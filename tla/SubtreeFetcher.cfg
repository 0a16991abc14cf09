SPECIFICATION Spec
CONSTANTS
    s1 = s1
    s2 = s2
    s3 = s3
    t1 = t1
    u1 = u1
    p1 = p1
    p2 = p2
    Subtree = {s1, s2, s3}
    Txid = {t1}
    Url = {u1}
    Partition = {p1, p2}
    Txids <- SeenTwice
    PartitionOf <- TwoPartitions
    Watched <- OneWatched
    RealtimeMode = TRUE
    MaxAttempts = 2
    SeenThreshold = 2
    DedupSize = 3
    MaxAnnounce = 2
    MaxFault = 2
    MaxCrash = 1
    MaxEvict = 1
INVARIANTS
    SeenComplete
    
    ProcessedOnce
    
    AttemptsBounded
