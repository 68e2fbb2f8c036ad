SPECIFICATION Spec
CONSTANTS
    Ids = {a, b}
    Configs <- HoldConfigs
    Delays = {0}
    LockTimeouts = {1}
    RetryDelays = {}
    Holding = TRUE
    Batch = 1
    HoldRecheck = 1
    MaxGen = 2
    MaxLeases = 2
    MaxTime = 1
SYMMETRY Interchangeable
INVARIANTS HoldPinsRecord HoldsReleasable RetentionScheduled OneOutcome
PROPERTIES HeldResultKept
