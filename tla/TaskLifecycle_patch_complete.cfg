SPECIFICATION Spec
CONSTANTS
  t1 = t1
  t2 = t2
  t3 = t3
  d1 = d1
  inventory = inventory
  custom = custom
  Task = {t1, t2}
  Phase = {inventory, custom}
  MilestonePhase = {inventory}
  Document = {d1}
  Template <- MilestoneGroup
INVARIANT
  CompleteEnforcesPreconditions
CHECK_DEADLOCK FALSE
