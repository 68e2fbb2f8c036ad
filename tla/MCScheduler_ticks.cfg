SPECIFICATION FairSpec
CONSTANTS
  p1 = p1
  p2 = p2
  Schedulers = {p1, p2}
  Skew <- Ahead
  Period = 2
  StartAt = 1
  Unset = Unset
  Policies = {"skip", "coalesce", "backfill"}
  MaxBackfill = 2
  MaxSkew = 1
  MaxMade = 1
  MaxCrashes = 1
  MaxTime = 4
CHECK_DEADLOCK FALSE
INVARIANTS TicksAccounted
PROPERTIES CursorCatchesUp
