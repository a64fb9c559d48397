CONSTANTS
  r1 = r1
  r2 = r2
  Requests = {r1, r2}
  Ttl = 1
  Longest = 1
  MaxTime = 5
  MaxChanges = 2
  RepeatDays = 3
  WeekDays = 2
  RegionOf <- Regions
  CustomersOf <- Customers
SPECIFICATION Spec
SYMMETRY Symmetry
CHECK_DEADLOCK FALSE
INVARIANTS
  FiguresReconcile
  HealthIsCanonical
  SnapshotsAreRecent
PROPERTIES
  WaitingNeverHelps
