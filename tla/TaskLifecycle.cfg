SPECIFICATION Spec
CONSTANTS
  t1 = t1
  t2 = t2
  t3 = t3
  d1 = d1
  inventory = inventory
  custom = custom
  Task = {t1, t2, t3}
  Phase = {inventory}
  MilestonePhase = {inventory}
  Document = {d1}
  Template <- MixedTasks
INVARIANTS
  TypeOK
  DependenciesWellFounded
  NoDeadEnd
  CompletionEvidence
PROPERTIES
  TerminalIsFinal
  EveryTransitionLogged
  UnblockedByLastDependency
  CascadeLeavesNoneBehind
CHECK_DEADLOCK FALSE
