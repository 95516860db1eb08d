CONSTANTS
    Names = {wordpress}
    ReleaseRequests = {r1, r2, r3}
    User = User
    MaxRevisions = 3
    Repos = {bitnami}
    MaxIndexes = 2
    MaxTasks = 3
    MaxChanges = 4
    Packages = {apache, nginx}
    ChartRequests = {r1, r2}
    MaxCharts = 3
    MaxSyncs = 1
    None = None
    MaxFaults = 1
SPECIFICATION FairSpec
INVARIANT FailedCreateLeavesNothing
INVARIANT CacheIsCurrent
PROPERTY PullAnswered
CHECK_DEADLOCK FALSE
