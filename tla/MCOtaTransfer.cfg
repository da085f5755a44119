CONSTANTS
  n1 = n1
  n2 = n2
  Node = {n1, n2}
  Setting <- MCSetting
  SlotSize = 3
  W16 = 65536
  MaxError = 1
  MaxOffset = 4
SPECIFICATION FairSpec
INVARIANTS
  CursorAgrees
  SuccessIsOwn
  RouterSurvives
PROPERTIES
  StartsFresh
  TransferEnds
  WritesHitErased
CHECK_DEADLOCK FALSE
