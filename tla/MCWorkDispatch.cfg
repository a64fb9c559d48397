SPECIFICATION Spec
CONSTANTS
  Works = {w1, w2}
  Techs = {t1}
  Sessions = {s1, s2}
  Nobody = Nobody
  Births = {"Draft"}
  WorkActions = {"submit", "resubmit", "approve", "assign", "complete", "close", "cancel"}
  Patches = TRUE
  MaxDispatches = 2
  MaxApprovals = 2
SYMMETRY Symmetry
INVARIANTS
  OneDispatchPerTechnician
  DispatchedWorkWasApproved
  PendingMeansSubmitted
PROPERTIES
  FinalStaysFinal
  NoSilentReplacement
