SPECIFICATION FirmSpec
CONSTANTS
  Items = {"i1"}
  Calls = {r1, r2}
  MaxStates = 1
  MaxCopies = 2
  Requests = {r1, r2}
  Kinds = {"matter", "member"}
  Tiers = {"starter", "growth"}
  MaxMatters <- TierConfig
  MaxUsers <- TierConfig
  MaxSubs = 2
  MaxNotices = 4
  MaxDisorder = 1
  MaxUsed = 2
  Users = {u1, u2}
  Founder = u1
  MixedCase = {u1}
  FirmRoles = {"owner", "member"}
  Roles = {"matter_admin", "beneficiary"}
  NoUser = NoUser
  MaxSeats = 3
  MaxTokens = 2
  MaxRemovals = 2
  Seats = {"s1"}
  MaxRequests = 2
  MaxPending = 2
  MaxRetries = 0
  Keys = {"k1"}
  Limit = 1
  Window = 2
  Lag = 1
  MaxSecrets = 3
  MaxTime = 4
  Hooks = {"h1", "h2"}
  MaxWebhooks = 1
  MaxFailures = 2
  Estates = {"m1", "m2"}
  Assets = {"m1"}
  TrustDocs = {"m1"}
  FirmLimit = 2
  MatterLimit = 1
  Hour = 3
  MaxCalls = 1
  MaxEntered = 1
  Accounts = {"ann"}
  Domains = {"firm", "other"}
  DomainOf <- EmailDomains
INVARIANTS
  ComponentsTyped
  
  ChecksHold
  DeletionIsWhole
  AccessKept
  ConnectionHonest
PROPERTIES
  PushedOnce
SYMMETRY Symmetry
CHECK_DEADLOCK FALSE
