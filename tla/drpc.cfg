CHECK_DEADLOCK FALSE
SPECIFICATION RpcSpec
CONSTANTS
    j1 = j1
    j2 = j2
    Jobs = {j1, j2}
    NilWorker = NilWorker
    Workers = {NilWorker}
    NoWorker = NoWorker
    NoJob = NoJob
    CreatedAt <- MCCreatedAt
    JobOrg <- MCJobOrg
    JobType <- MCJobType
    JobTags <- MCJobTags
    WorkerOrg <- MCWorkerOrg
    WorkerTypes <- MCWorkerTypes
    WorkerTags <- MCWorkerTags
    UntaggedScope <- Scope
    HungAfter = 1
    PendingAfter = 1
    MaxLogs = 1
    Calls = {c1, c2}
INVARIANT ReportedCancelHolds
PROPERTY OutcomeSettles
