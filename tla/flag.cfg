SPECIFICATION Spec
CONSTANTS
  Ranges = 1
  CounterMax = 2
  ShellPreempts = TRUE
INVARIANTS
  CountsHonest
