CONSTANTS
  MaxPings = 1
  MaxAir = 2
  RxAfterOff = TRUE
  MaxQueue = 6
SPECIFICATION FairSpec
INVARIANTS
  TypeOK
  SleepIsSilent
  RadioOnIsTimed
PROPERTIES
  SearchEnds
  RootLossNoticed
  StatusIsScheduled
