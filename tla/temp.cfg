SPECIFICATION FairSpec
CONSTANTS
  Ranges = 2
  CounterMax = 2
  ShellPreempts = FALSE
INVARIANTS
  TypeOK
  CountsHonest
PROPERTIES
  MarkPersists
  RegionRepaired
