SPECIFICATION Spec
CONSTANTS
  NumChannels = 2
  NoLimit = NoLimit
  Limits <- BothLimits
  Batches <- ManyReadings
  Actions = {"acknowledge", "close", "work"}
  Sessions = {s1, s2}
  MaxAlarms = 2
  MaxInstant = 4
SYMMETRY SessionSymmetry
INVARIANTS
  OneActiveAlarm
  NewestReadingWins
  AlarmsMatchReadings
  OneWorkOrderPerAlarm
PROPERTIES
  AlarmsNeverRegress
