SPECIFICATION StockSpec
CONSTANTS
  w1 = w1
  w2 = w2
  NumItems = 1
  Works = {w1, w2}
  Sessions = {s1, s2}
  Offered = {"reserve", "release", "issue", "consume", "issueStock"}
  Opening = 2
  Targets = {0}
  Planned <- NoPlan
  MaxQty = 2
  MaxReservations = 2
  MaxStock = 2
  MaxUsed = 2
SYMMETRY SessionSymmetry
INVARIANTS
  StockBooksAgree
  ItemsLockedInOrder
PROPERTIES
  OnlyAdjustmentOverdraws
  SettledOnce
  ReserveAllFillsThePlan
  IssuedStaysOnRecord
