SPECIFICATION ProcessSpec
CONSTANTS
    Caller = {c1, c2}
    Subtree = {s1, s2, s3}
    Threshold = 2
    Postgres = FALSE
    MaxFault = 2
    MaxStartFault = 2
    MaxCallFault = 1
    MaxLifeFault = 2
    Known <- Binaries
    old = old
    new = new
    Process = {old, new}
    MaxOpenConns = 2
    LastTable = 2
    MaxBatch = 2
    URL = {u1}
    Entry = {e1, e2}
    Count = 3
    TTL = 1
    MaxTime = 2
    MaxCall = 3
    Loop = {subtree, block}
    MaxPublishRetries = 2
    MaxReady = 2
    MaxReceive = 2
    None = None
    Session = {c1, c2}
    NoSession = NoSession
    Services <- AllServices
    Kind <- KindOf
    api = api
    p2p = p2p
    fetcher = fetcher
INVARIANTS
    ProcessTypeOK
    AppliedOnceInOrder
    StartedIsMigrated
    NeverRefused
    DeletesWhileOpen
    
    FoundUntilExpiry
    DecrementsCounted
    EntriesAccounted
    NoUseAfterClose
PROPERTIES
    ImplementsPromise
    StartsEventually
    StartReturns
    ShutdownReturns
