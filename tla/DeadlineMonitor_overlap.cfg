SPECIFICATION Spec
CONSTANTS
  w1 = w1
  w2 = w2
  u1 = u1
  hearing = hearing
  filing = filing
  Worker = {w1, w2}
  User = {}
  Deadline = {hearing}
  LastDay = 3
  NewDeadline <- OneDeadline
  Patch <- NoPatches
  Null = Null
  MaxQueued = 1
  MaxRetries = 0
  MaxCrashes = 0
INVARIANT
  OneReminderPerDay
CHECK_DEADLOCK FALSE
