CONSTANTS
  Packets <- MCPackets
  Spaced = FALSE
  MaxEvents = 2
  MaxCuts = 0
SPECIFICATION Spec
INVARIANTS
  CommandsObeyed
