CONSTANTS
  r1 = r1
  r2 = r2
  p1 = p1
  p2 = p2
  None = None
  Run = {r1}
  Probe = {p1}
  Outcomes = {"drop"}
  MaxFaults = 2
  MaxEdits = 1
  MaxCrashes = 1
  Plans <- ProgressPlans
SPECIFICATION FairSpec
INVARIANT OperatorValueKept
PROPERTY RecoveryCompletes
PROPERTY ClaimIsReleased
PROPERTY FaultIsRolledBack
CHECK_DEADLOCK FALSE
