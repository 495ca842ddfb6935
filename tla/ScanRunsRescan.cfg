SPECIFICATION Spec
CONSTANTS
    Image = {a}
    Timeout = 1
    MaxConcurrency = 1
    MaxCrashes = 0
    MaxRuns = 2
    MaxTime = 2
    NoImage = NoImage
INVARIANT
    LatestCompletedBlocks
