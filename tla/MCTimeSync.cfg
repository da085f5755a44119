CONSTANTS
  Ms = 2
  W32 = 4096
  W16 = 64
  Limit = 6
  MaxDiff = 7
  RootUp = 25
  Epochs = {20}
  Tear = TRUE
  MaxTransit = 14
  MaxNow = 14
  MaxSyncs = 2
  MaxSets = 1
SPECIFICATION Spec
INVARIANTS
  TypeOK
  ClockRuns
  LagBounded
  ReportIsHonest
CHECK_DEADLOCK FALSE
