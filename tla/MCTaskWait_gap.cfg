SPECIFICATION Spec
CONSTANTS
  Waiters = {w1}
  Impatient = {}
  Kept = 1
  MaxGen = 2
  MaxEvents = 5
CHECK_DEADLOCK FALSE
INVARIANTS NoSilentGap
