SPECIFICATION Spec
CONSTANTS
  ReadFails = FALSE
  MaxBackups = 4
INVARIANTS
  TypeOK
  InstallationKept
  PowerCyclesCounted
