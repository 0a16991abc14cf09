SPECIFICATION Spec
CONSTANTS
    Caller = {c1, c2}
    Subtree = {s1, s2, s3}
    Threshold = 3
    Postgres = TRUE
    MaxFault = 0
INVARIANTS
    ReportedWhenReached
