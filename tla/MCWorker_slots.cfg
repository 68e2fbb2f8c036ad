CONSTANTS
    s1 = s1
    s2 = s2
    t1 = t1
    Nobody = Nobody
    Slots <- MCSlots
    Tasks <- MCTasks
    LockTimeout = 3
    LockRefresh = 1
    RetryDelay = 1
    RetryCount = 3
    PollInterval = 1
    DrainTimeout = 1
    MaxRetries = 1
    MaxStalledCount = 1
SPECIFICATION FairSpec
INVARIANTS TypeOK BeatingMeansOwned AttemptsBounded CleanDrain
PROPERTIES ZombieStops DrainEnds TasksSettle
