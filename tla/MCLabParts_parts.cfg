CONSTANTS
  m1 = m1
  m2 = m2
  m3 = m3
  None = None
  Legacy = Legacy
  Round = {1, 2, 3}
  Cases <- ThreeCases
  MaxEdits = 1
  MaxFaults = 2
  Attach = {m1, m2}
  Incremental = {m2}
  Reassess = {m3}
  Wait = 2
  Extension = 2
  Grace = 2
  MaxRevisions = 3
  MaxEvidence = 2
  History = {m1, m2}
  HistoryStatus = {m3}
  LibraryRun = {m1, m2}
  NoRun = None
  CpuRun = {m2}
  Edge = {m1, m2}
  MaxRouteChanges = 3
  Checkout = {m1, m2, m3}
  Configured = 3
  SafeInflight = 2
  Part = {"tools", "assessment", "history", "library", "edge", "load"}
SPECIFICATION PartsSpec
INVARIANT PartsTypeOK
INVARIANT ScaleUpIsJournaled
INVARIANT LeftTrafficIsReported
INVARIANT PaidOnce
INVARIANT LinkedMeansComparable
INVARIANT LateWorkIsBounded
INVARIANT SlotsAreReturned
INVARIANT FinishedRunsAreOver
PROPERTY LaterEditsAreKept
CHECK_DEADLOCK FALSE
