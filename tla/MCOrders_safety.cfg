CONSTANTS
  q1 = q1
  q2 = q2
  q3 = q3
  a = a
  b = b
  c = c
  None = None
  Request = {q1, q2, q3}
  Name = {a, b, c}
  Capacity = 2
  AttemptLimits = {1}
  DefaultLimit = 1
  Modes = {"configured", "idempotency-conflict"}
  MaxModes = 0
SPECIFICATION Spec
INVARIANT TypeOK
INVARIANT WaitsForWork
PROPERTY ImplementsCheckout
PROPERTY CapacityIsUsed
SYMMETRY Symmetry
CHECK_DEADLOCK FALSE
