SPECIFICATION FairSpec
CONSTANTS
  A = A
  B = B
  Controllers <- Both
  Alt <- AltOf
  MaxTriggers = 3
INVARIANTS
  OneWriter
  FlagOwned
PROPERTIES
  FullDumpKept
  Settles
CHECK_DEADLOCK FALSE
