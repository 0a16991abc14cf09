SPECIFICATION Spec
CONSTANTS
    Caller = {c1, c2}
    Subtree = {s1, s2}
    Threshold = 2
    MaxFault = 0
INVARIANTS
    ReportedOnce
