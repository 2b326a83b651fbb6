CONSTANTS
    Replicas = {r1, r2}
    Requests = {q1}
    Nobody = Nobody
    Interval = 0
    KeyDuration = 2
    Hour = 1
    TokenDuration = 1
    MaxSequence = 3
    MaxTime = 5
    MaxLosses = 1
SPECIFICATION Spec
SYMMETRY AnyReplica
CHECK_DEADLOCK FALSE
INVARIANT AlwaysActive
PROPERTIES RemovedOnceSuperseded RetiredOnce
