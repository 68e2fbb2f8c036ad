SPECIFICATION FairSpec
CONSTANTS
    Ids = {a, b}
    Configs <- SweepConfigs
    Delays = {1}
    LockTimeouts = {1}
    RetryDelays = {}
    Holding = TRUE
    Batch = 1
    HoldRecheck = 1
    MaxGen = 1
    MaxLeases = 1
    MaxTime = 2
PROPERTIES SweepsReachEverything
