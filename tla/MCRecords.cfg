CONSTANTS
  c1 = c1
  c2 = c2
  t1 = t1
  t2 = t2
  t3 = t3
  Clients = {c1, c2}
  Users = {"omar", "sara", "system"}
  Admins = {"omar", "sara", "system"}
  Service = "system"
  Passwords = {"p", "q"}
  First = "p"
  Tokens = {t1, t2, t3}
  RawOwner <- MCRawOwner
  MaxSignIns = 4
  People = {"omar", "sara"}
  Hosts = {"h"}
  MaxFailures = 2
  ClientMaxFailures = 3
  Window = 3
  LockBase = 1
  LockMax = 2
  MaxLoginTime = 4
  MaxAttempts = 4
  Roles = {"admin", "planner"}
  Admin = "admin"
  Perms = {"manage", "assets", "added"}
  Manage = "manage"
  Added = {"added"}
  Defaults <- MCDefaults
  MaxReplacements = 3
  Families = {"WO-", "APR-"}
  Contents = {"x", "y"}
  MaxNumbers = 2
  MaxRows = 3
  MaxLosses = 1
  Assets = {"asset"}
  OutageIds = {1, 2, 3}
  MaxPatches = 1
  WorkOrders = {"wo"}
  Minutes = {1, 2}
  FirstPolicy <- MCPolicy
  MaxTime = 2
  MaxPolicies = 1
  InspectionIds = {"i", "j"}
  MaxSubmissions = 3
  Warehouses = {"A", "B"}
  Home = "A"
  Keys = {"k"}
  NoKey = "none"
  MaxItems = 3
  Stock = 2
  MaxTransfers = 3
  NumItems = 2
  InitialStock <- MCInitialStock
  ReorderPoint <- MCReorderPoint
  MaxLevel <- MCMaxLevel
  Baskets <- MCBaskets
  MaxIssue = 1
  MaxRequisitions = 2
  MaxApprovals = 2
  MaxOrders = 2
SPECIFICATION Spec
SYMMETRY Symmetry
CHECK_DEADLOCK FALSE
INVARIANTS
  AccessSound
  RegistersSound
  FieldRecordsSound
  TransfersExactlyOnce
  RecordsAgree
  ReplenishesOnce
PROPERTIES
  RevokedForGood
  LastAdminNeedsOverlap
  UpOnlyByOutdatedRead
  ReplenishesWhenLow
