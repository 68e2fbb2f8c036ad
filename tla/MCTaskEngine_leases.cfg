SPECIFICATION Spec
CONSTANTS
    Ids = {a, b}
    Configs <- LeaseConfigs
    Delays = {0}
    LockTimeouts = {1}
    RetryDelays = {0, 1}
    Holding = FALSE
    Batch = 2
    HoldRecheck = 1
    MaxGen = 2
    MaxLeases = 2
    MaxTime = 2
SYMMETRY Interchangeable
INVARIANTS TypeOK ExactlyOneIndex LeaseBacked AttemptChargedOnce
PROPERTIES RefinesTaskModel
