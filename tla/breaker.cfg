CONSTANTS
    Callers = {c1, c2, c3}
    FailureThreshold = 2
    ResetTimeout = 2
    MaxProbes = 2
    MaxCount = 3
SPECIFICATION BreakerFairSpec
INVARIANTS CountersMatchState
PROPERTIES NeverClosesUnprobed OpenIsProbed Recovers
