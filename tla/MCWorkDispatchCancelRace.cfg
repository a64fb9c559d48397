SPECIFICATION Spec
CONSTANTS
  Works = {w1}
  Techs = {t1}
  Sessions = {s1, s2}
  Nobody = Nobody
  Births = {"Submitted"}
  WorkActions = {"approve", "assign", "cancel"}
  Patches = TRUE
  MaxDispatches = 2
  MaxApprovals = 0
SYMMETRY Symmetry
INVARIANTS
  CancelledWorkHasNoDispatch
