SPECIFICATION FairSpec
CONSTANTS
  w1 = w1
  w2 = w2
  u1 = u1
  hearing = hearing
  filing = filing
  Worker = {w1, w2}
  User = {}
  Deadline = {hearing, filing}
  LastDay = 2
  NewDeadline <- TwoDeadlines
  Patch <- NoPatches
  Null = Null
  MaxQueued = 1
  MaxRetries = 1
  MaxCrashes = 1
PROPERTY
  ReminderGoesOut
CHECK_DEADLOCK FALSE
