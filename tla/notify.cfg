CONSTANTS
    MaxMessage = 1
    Notifiers = {n1, n2}
    BatchSize = 1
    MaxAttempts = 3
    Lease = 2
    RetryInterval = 1
    MaxRetry = 2
    Recipients <- OneRecipient
    MaxCycle = 3
    MaxFailures = 1
SPECIFICATION FairSpec
INVARIANTS ExclusiveLease SendBudget
PROPERTIES TerminalIsFinal MessageIsResolved
