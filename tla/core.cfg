SPECIFICATION Spec
CONSTANTS
  Clients = {c1}
  Reasons = {OnDemand, Panic}
  ExemptReasons = {OnDemand}
  DefaultThreshold = 1
  ClockModulus = 8
  Skews <- SteadyClock
  DmaFaults = TRUE
  CrcFaults = FALSE
  MemoryDecays = TRUE
  MaxDumps = 2
  MaxOverrides = 1
  MaxCommands = 2
  MaxTime = 0
INVARIANTS
  ServedDumpIntact
  
  TaskLockBalanced
  ResultHonest
