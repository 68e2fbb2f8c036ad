SPECIFICATION Spec
CONSTANTS
  Events = {e1, e2}
  Names = {n1, n2}
  Lifetimes <- NeverOr1
  LeaseTimes = {2}
  Delays = {0}
  Archive = TRUE
  ArchiveRetention = 1
  Batch = 1
  Capacity = 2
  MaxGen = 2
  MaxLeases = 2
  MaxTime = 2
CHECK_DEADLOCK FALSE
SYMMETRY Interchangeable
INVARIANTS EventsSound LeaseFenced
PROPERTIES LiveLeaseKept KeepsPromise
