CONSTANTS
  A = A
  B = B
  C = C
  Image = {A, B}
  Factory = A
  Uuid <- MCUuid
  ImagePages = 3
  UsedPages = 2
  GoldenBase = 3
  SlotBase = 6
  SectorPages = 5
  ClassC = FALSE
  SpiMayFail = TRUE
  RebootMayHang = FALSE
  FlagCut = TRUE
  GiCommands = FALSE
  MaxOffset = 2
  MaxCuts = 2
SPECIFICATION Spec
INVARIANTS
  TypeOK
  TornImageIsRecoverable
  HungOnlyWithoutSpi
  GoldenBehindUpdate
PROPERTIES
  CopySourceIsStable
  ImplementsUpdate
CHECK_DEADLOCK FALSE
