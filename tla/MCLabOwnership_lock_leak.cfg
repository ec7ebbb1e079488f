CONSTANTS
  r1 = r1
  r2 = r2
  p1 = p1
  p2 = p2
  None = None
  Run = {}
  Probe = {p1}
  Outcomes = {"drop"}
  MaxFaults = 0
  MaxEdits = 0
  MaxCrashes = 1
  Plans <- FieldPlans
SPECIFICATION FairSpec
PROPERTY RestoredProbeFreesTheLab
CHECK_DEADLOCK FALSE
