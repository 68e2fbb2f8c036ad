SPECIFICATION Spec
CONSTANTS
  Readers = {r1}
  MaxHistoryEntries = 3
  Limit = 2
  MaxGen = 2
  MaxLeases = 2
  MaxEntries = 9
CHECK_DEADLOCK FALSE
INVARIANTS CursorsHonoured PagesComplete ProgressFenced
