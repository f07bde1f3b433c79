SPECIFICATION FairSpec
CONSTANTS
  Clients = {c1}
  Reasons = {OnDemand, Panic}
  ExemptReasons = {OnDemand}
  DefaultThreshold = 1
  ClockModulus = 8
  Skews <- SteadyClock
  DmaFaults = FALSE
  CrcFaults = TRUE
  MemoryDecays = TRUE
  MaxDumps = 2
  MaxOverrides = 1
  MaxCommands = 2
  MaxTime = 1
INVARIANTS
  TypeOK
  SuccessSurvives
PROPERTIES
  ImplementsStore
  CaptureReturns
  UnretrievedProtected
