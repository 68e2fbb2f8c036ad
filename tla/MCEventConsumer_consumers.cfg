SPECIFICATION EFairSpec
CONSTANTS
  Events = {e1, e2, e3}
  Names = {n1}
  Consumers = {c1, c2}
  Lifetimes <- NeverOr1
  LeaseTimes = {2}
  LeaseMs = 2
  Delays = {2}
  RetryDelayMs = 2
  Archive = TRUE
  ArchiveRetention = 1
  Batch = 1
  Capacity = 2
  MaxGen = 2
  MaxLeases = 2
  MaxTime = 3
  Workloads <- SharedOrIdle
  MaxFaults = 1
CHECK_DEADLOCK FALSE
INVARIANTS OutcomesTruthful HeartbeatHolds
PROPERTIES ZombieStops BacklogClears
