SPECIFICATION FairSpec
CONSTANTS
  Replicas = {r1, r2}
  Users = {u1}
  Plans = {p1}
  Triggers = {"Calendar", "Meter", "Condition"}
  Interval = 2
  Every = 2
  Usage = 1
  Ahead = {2}
  MaxLate = 2
  MaxFaults = 1
INVARIANTS
  OneOpenOrderPerPlan
PROPERTIES
  ScheduledRunsAreSpaced
  CalendarKeepsRhythm
  DuePlansGetWork
