CONSTANTS
  A = A
  B = B
  C = C
  Image = {A, B}
  Factory = A
  Uuid <- MCUuid
  ImagePages = 3
  UsedPages = 3
  GoldenBase = 3
  SlotBase = 6
  SectorPages = 5
  ClassC = FALSE
  SpiMayFail = TRUE
  RebootMayHang = FALSE
  FlagCut = TRUE
  GiCommands = FALSE
  MaxOffset = 3
  MaxCuts = 2
SPECIFICATION Spec
INVARIANTS
  GoldenBehindUpdate
CHECK_DEADLOCK FALSE
