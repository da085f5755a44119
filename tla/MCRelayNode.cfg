CONSTANTS
  Packets <- MCPackets
  Spaced = TRUE
  MaxEvents = 2
  MaxCuts = 2
SPECIFICATION Spec
INVARIANTS
  StatesAgree
  CommandsObeyed
  OtaFlagKept
