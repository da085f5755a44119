CONSTANTS
  A = A
  B = B
  C = C
  Image = {A, B, C}
  Factory = A
  Uuid <- MCUuid
  ImagePages = 2
  UsedPages = 2
  GoldenBase = 2
  SlotBase = 4
  SectorPages = 2
  ClassC = TRUE
  SpiMayFail = FALSE
  RebootMayHang = TRUE
  FlagCut = FALSE
  GiCommands = TRUE
  MaxOffset = 2
  MaxCuts = 2
SPECIFICATION FairSpec
INVARIANTS
  UnconfirmedOnTrial
  GoldenIsConfirmed
PROPERTIES
  UpdateResolves
  ResetReachesApp
CHECK_DEADLOCK FALSE
