SPECIFICATION FairSpec
CONSTANTS
    j1 = j1
    j2 = j2
    w1 = w1
    w2 = w2
    Jobs = {j1, j2}
    Workers = {w1, w2}
    NoWorker = NoWorker
    NoJob = NoJob
    CreatedAt <- MCCreatedAt
    JobOrg <- MCJobOrg
    JobType <- MCJobType
    JobTags <- MCJobTags
    WorkerOrg <- MCWorkerOrg
    WorkerTypes <- MCWorkerTypes
    WorkerTags <- MCWorkerTags
    UntaggedScope <- Scope
    HungAfter = 1
    PendingAfter = 1
    MaxLogs = 1
    HeartbeatInterval = 1
    MaxLateness = 1
    ReapBatch = 1
    Sessions = {s1, s2}
INVARIANTS SingleHolder CanceledIsOverOrOwned
PROPERTIES HungMeansSilent RefinesLifecycle OrphanIsReaped PendingIsResolved CancelIsDelivered
