SPECIFICATION Spec
CONSTANTS
  c1 = c1
  c2 = c2
  a = a
  b = b
  x = x
  y = y
  inventory = inventory
  custom = custom
  Client = {c1, c2}
  Task = {a, b, x}
  Phase = {inventory, custom}
  MilestonePhase = {inventory}
  Template <- Join
  Request <- JoinRequests
PROPERTY
  CascadeLeavesNoneBehind
CHECK_DEADLOCK FALSE
