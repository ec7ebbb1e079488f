CONSTANTS
  r1 = r1
  r2 = r2
  p1 = p1
  p2 = p2
  None = None
  Run = {r1, r2}
  Probe = {}
  Outcomes = {"drop", "lost", "late"}
  MaxFaults = 2
  MaxEdits = 1
  MaxCrashes = 1
  Plans <- FieldPlans
SPECIFICATION Spec
INVARIANT TypeOK
INVARIANT OperatorValueKept
INVARIANT FaultsAreClaimed
INVARIANT RunIsDurable
SYMMETRY Symmetry
CHECK_DEADLOCK FALSE
