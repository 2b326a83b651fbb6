CONSTANTS
    MaxEvents = 3
    MaxBatchSize = 2
    Workspaces = {w1}
    UsageBatch = 2
    MaxPings = 1
    GracePeriod = 2
SPECIFICATION ShutdownFairSpec
CHECK_DEADLOCK FALSE
INVARIANTS SettledInOrder PoolClosesLast
PROPERTIES ShutdownEnds EventIsSettled
