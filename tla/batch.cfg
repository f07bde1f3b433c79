SPECIFICATION Spec
CONSTANTS
  GcdaFolder <- Root
  GcnoFolder <- Objects
  Trees <- AllTrees
INVARIANTS
  EachListedOnce
  GcnoOfSameObject
CHECK_DEADLOCK FALSE
