CONSTANTS
  r1 = r1
  r2 = r2
  a = a
  b = b
  None = None
  Request = {r1, r2}
  Order = {a, b}
  Stock = 1
  Target = 1
  Modes = {"token-collision", "connection-saturation"}
  MaxChanges = 2
  MaxFaults = 1
SPECIFICATION Spec
INVARIANT TypeOK
INVARIANT SessionsAreOwned
INVARIANT ModeKeepsItsSessions
INVARIANT StockAddsUp
INVARIANT ReservedMeansWritten
INVARIANT OwnerHoldsRow
SYMMETRY Symmetry
