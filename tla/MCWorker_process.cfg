CONSTANTS
  import = import
  lab1 = lab1
  Job = {import, lab1}
  Poison = {lab1}
  NoJob = NoJob
  Batch = 2
  MaxPages = 2
  MaxCalls = 2
  MaxFaults = 1
SPECIFICATION RecoveredSpec
INVARIANT ProcessTypeOK
INVARIANT OneThreadPerMode
INVARIANT FaultIsConfined
INVARIANT ImportedOnce
PROPERTY StoppedThreadEnds
PROPERTY NothingIsLost
PROPERTY LeaseIsEnforced
PROPERTY HealthyImportsComplete
CHECK_DEADLOCK FALSE
