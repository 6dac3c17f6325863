CONSTANTS
    t1 = t1
    t2 = t2
    t3 = t3
    JobTasks = {t1, t2}
    AppendTasks = {t3}
    MaxRequests = 3
    MaxJobs = 1
SPECIFICATION FairSpec
INVARIANTS
    CancelWins
    HoldingIsSomeones
PROPERTIES
    CancelReleases
CHECK_DEADLOCK FALSE
