CONSTANTS
  r1 = r1
  r2 = r2
  p1 = p1
  p2 = p2
  None = None
  Run = {r1}
  Probe = {p1, p2}
  Outcomes = {"drop", "lost", "late"}
  MaxFaults = 1
  MaxEdits = 0
  MaxCrashes = 1
  Plans <- MonitorPlan
SPECIFICATION Spec
INVARIANT ProbeFaultsAreLocked
PROPERTY ImplementsLock
SYMMETRY Symmetry
CHECK_DEADLOCK FALSE
