SPECIFICATION FairSpec
CHECK_DEADLOCK FALSE
CONSTANTS
    scheduler = scheduler
    executor = executor
    bumper = bumper
    checker = checker
    Workers = {scheduler, executor, bumper, checker}
    Kind <- MCKind
    None = None
    TimeTilDormant = 1
    TimeTilAutodelete = 1
    FailureTtl = 1
    ActivityBump = 1
    DeleteRetry = 1
    MaxDeadlines = {1}
    Horizon = 1
    MaxPass <- MCMaxPass
    MaxUserBuilds = 1
    MaxFaults = 1
INVARIANT DeadlineWithinMax
PROPERTIES OverdueIsStopped DueIsDeleted
