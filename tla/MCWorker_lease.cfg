CONSTANTS
  import = import
  lab1 = lab1
  Job = {import, lab1}
  Poison = {lab1}
  NoJob = NoJob
  Batch = 2
  MaxPages = 2
  MaxCalls = 1
  MaxFaults = 0
SPECIFICATION FairSpec
PROPERTY LocalLeaseIsEnforced
CHECK_DEADLOCK FALSE
