SPECIFICATION Spec
CONSTANTS
  Tasks = {t1, t2, t3}
  FieldCount = 2
  Values = {unset, one, two}
  Unset = unset
  DmaFaults = TRUE
INVARIANTS
  InSync
PROPERTIES
  RecordSurvives
