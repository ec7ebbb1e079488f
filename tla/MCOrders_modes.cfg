CONSTANTS
  q1 = q1
  q2 = q2
  q3 = q3
  a = a
  b = b
  c = c
  None = None
  Request = {q1, q2}
  Name = {a}
  Capacity = 1
  AttemptLimits = {2}
  DefaultLimit = 2
  Modes = {"configured", "idempotency-conflict"}
  MaxModes = 2
SPECIFICATION FairSpec
INVARIANT MetricsAddUp
PROPERTY EveryCheckoutAnswered
PROPERTY LeasedModeEnds
CHECK_DEADLOCK FALSE
