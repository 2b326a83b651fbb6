CONSTANTS
    r1 = r1
    r2 = r2
    Replicas = {r1, r2}
    Skew <- OneAhead
    Spread = 1
    Interval = 2
    MaxLag = 0
    MaxFailures = 1
    MaxTime = 17
SPECIFICATION Spec
CHECK_DEADLOCK FALSE
INVARIANTS LiveIsListed DeadIsPruned
