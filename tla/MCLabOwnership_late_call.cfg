CONSTANTS
  r1 = r1
  r2 = r2
  p1 = p1
  p2 = p2
  None = None
  Run = {r1}
  Probe = {}
  Outcomes = {"late"}
  MaxFaults = 1
  MaxEdits = 0
  MaxCrashes = 0
  Plans <- FieldPlans
SPECIFICATION Spec
INVARIANT RecoveredRunIsClean
CHECK_DEADLOCK FALSE
