SPECIFICATION Spec
CONSTANTS
  RpaBase = 1
  RpaEnd = 26
  SharedBase = 60
  SharedEnd = 83
  MetadataSize = 2
  RecordSize = 1
  EhdrSize = 2
  PhdrSize = 1
  Alignment = 2
  NoteSize = 1
  StagingSize = 3
  DqLimit = 7
  DqPlans <- SomePlans
  Sizes = {2}
  StackSizes = {1}
  MaxTasks = 1
  MaxFull = 2
  MaxAlt = 3
  MaxDumps = 2
INVARIANTS
  SectionsFound
  CrcOfSections
  SizeCoversDump
  HeadersDescribeDump
PROPERTIES
  StacksFit
  WritesKeepDump
CHECK_DEADLOCK FALSE
