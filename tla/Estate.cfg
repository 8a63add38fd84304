SPECIFICATION EstateSpec
CONSTANTS
  Candidates <- Templates
  States = {"CA", "NY"}
  Flags = {"spouse"}
  DeadlineOf <- StateRules
  MaxCopies = 2
  MaxTasks = 2
  MaxPending = 2
  Assets = {a1}
  Entities = {e1}
  Family = {"adm", "ben"}
  FamilyRole <- FamilyRoles
  Staff = "staff"
  NoAsset = NoAsset
  MaxDists = 1
  MaxMessages = 1
  Docs = {d1, d2}
  Links = {l1}
  Types = {"deed", "other"}
  Extractable = {"deed"}
  MaxRetries = 1
  Expiry = 1
  NoLink = NoLink
  Team = {"adm", "pro"}
  TeamRole <- TeamRoles
  Tasks = {"t1"}
  NoTask = "none"
  Hours = {1}
  Minutes = {30}
  MaxExport = 1
  MaxEntries = 2
  Messages = {"n1"}
  People = {p1, p2}
  Nobody = Nobody
  MailRetries = 1
  MaxMails = 2
  MaxCrashes = 1
INVARIANTS
  ComponentsTyped
  BooksAgree
  IntakeComplete
  GenerationSound
  ClosedMeansDone
  SummaryAddsUp
  EveryoneToldOnce
PROPERTIES
  NothingTakenBack
  DependenciesLinked
CHECK_DEADLOCK FALSE
