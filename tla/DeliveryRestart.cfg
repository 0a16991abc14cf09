SPECIFICATION Spec
CONSTANTS
    p1 = p1
    u1 = u1
    b1 = b1
    w1 = w1
    w2 = w2
    Partition = {p1}
    Url = {u1}
    Block = {b1}
    Input <- Mixed
    Worker = {w1, w2}
    MaxRetries = 1
    MaxFault = 0
    MaxCrash = 1
    Stoppable = TRUE
INVARIANTS
    NoTimerSendsOnClosed
    PanicsOnlyInStop
    SkippedIsDelivered
SYMMETRY Workers
