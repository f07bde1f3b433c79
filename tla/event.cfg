SPECIFICATION Spec
CONSTANTS
  Clients = {c1}
  Reasons = {OnDemand, Panic}
  ExemptReasons = {OnDemand}
  DefaultThreshold = 1
  ClockModulus = 8
  Skews <- SteadyClock
  DmaFaults = FALSE
  CrcFaults = FALSE
  MemoryDecays = FALSE
  MaxDumps = 1
  MaxOverrides = 1
  MaxCommands = 1
  MaxTime = 0
INVARIANTS
  EventMatchesDump
