SPECIFICATION FairScansSpec
CONSTANTS
    Image = {a, b}
    Timeout = 0
    MaxConcurrency = 1
    MaxCrashes = 1
    MaxRuns = 2
    MaxTime = 2
    NoImage = NoImage
    Repo <- TwoRepos
    Owner = {o1, o2}
    NoOwner = NoOwner
    Interval = 4
    LeaseTTL = 2
    PageLimit = 2
    RuntimeMoves = TRUE
    StoreFaults = TRUE
    MaxLag = 1
    MaxFaults = 1
    MaxRestarts = 2
INVARIANTS
    TypeOK
    DuplicateOnlyIfOverdue
PROPERTIES
    CompletedKept
    RunsSettle
    SweepsKeepTime
