SPECIFICATION Spec
CHECK_DEADLOCK FALSE
CONSTANTS
  w1 = w1
  w2 = w2
  Writers = {w1, w2}
  Hybrid = {w2}
  RunIdOf <- MCRunIdOf
  MaxDamage = 2
INVARIANTS
  SummaryMeansComplete
  ReportMatchesDirectory
  SuccessSawPinnedSources
PROPERTIES
  OnlyTheOwnerWrites
  CallsEnd
