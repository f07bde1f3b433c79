SPECIFICATION Spec
CONSTANTS
  ReadFails = TRUE
  MaxBackups = 4
INVARIANTS
  PowerCyclesCounted
