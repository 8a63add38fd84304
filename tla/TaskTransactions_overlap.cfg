SPECIFICATION FairSpec
CONSTANTS
  c1 = c1
  c2 = c2
  a = a
  b = b
  x = x
  y = y
  inventory = inventory
  custom = custom
  Client = {c1, c2}
  Task = {a, b, x, y}
  Phase = {inventory, custom}
  MilestonePhase = {}
  Template <- Square
  Request <- SquareRequests
INVARIANTS
  TypeOK
  LastEventMatchesRow
  EventsAreLegal
  NoDeadlock
PROPERTY
  EveryRequestEnds
CHECK_DEADLOCK FALSE
