CONSTANTS
  A = A
  B = B
  C = C
  Image = {A, B, C}
  Factory = A
  Uuid <- MCUuid
  ImagePages = 2
  UsedPages = 2
  GoldenBase = 2
  SlotBase = 4
  SectorPages = 3
  ClassC = TRUE
  SpiMayFail = FALSE
  RebootMayHang = FALSE
  FlagCut = TRUE
  GiCommands = TRUE
  MaxOffset = 2
  MaxCuts = 2
SPECIFICATION Spec
INVARIANTS
  UnconfirmedOnTrial
CHECK_DEADLOCK FALSE
