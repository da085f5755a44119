CONSTANTS
  d1 = d1
  d2 = d2
  Device = {d1, d2}
  Packet <- MCPacket
  Window = 11
  MaxLost = 1
SPECIFICATION Spec
INVARIANTS
  TypeOK
  PacketsHandledOnce
  SyncAnswered
  WindowClears
