SPECIFICATION FairSpec
CONSTANTS
    p1 = p1
    u1 = u1
    b1 = b1
    w1 = w1
    w2 = w2
    Partition = {p1}
    Url = {u1}
    Block = {b1}
    Input <- OneUrl
    Worker = {w1, w2}
    MaxRetries = 1
    MaxFault = 1
    MaxCrash = 0
    Stoppable = FALSE
INVARIANTS
    OnePlace
    GateOrder
    NoPanic
    
PROPERTIES
    AllSettled
