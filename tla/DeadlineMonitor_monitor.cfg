SPECIFICATION FairSpec
CONSTANTS
  w1 = w1
  w2 = w2
  u1 = u1
  hearing = hearing
  filing = filing
  Worker = {w1}
  User = {u1}
  Deadline = {hearing}
  LastDay = 3
  NewDeadline <- OneDeadline
  Patch <- Patches
  Null = Null
  MaxQueued = 1
  MaxRetries = 0
  MaxCrashes = 1
INVARIANTS
  TypeOK
  OneReminderPerDay
  LastReminderRecorded
PROPERTY
  OverdueIsNoticed
CHECK_DEADLOCK FALSE
