CONSTANTS
  Bodies <- MCMixed
  TypeAt = 1
  UartTypeAt = 4
  MaxLength = 6
  PollInterval = 1
  Slack = 1
  Pause = 3
  MaxFrames = 3
  MaxLost = 1
  MaxNoise = 1
SPECIFICATION Spec
INVARIANTS
  BufferBound
  CommandsGoOut
  Resynchronises
CHECK_DEADLOCK FALSE
