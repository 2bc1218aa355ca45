SPECIFICATION Spec
CONSTANTS
  Kinds <- MCKinds
  Passes <- MCPasses
  MaxChannels = 3
  MaxTag = 5
PROPERTIES
  CancelledConsumesAgain
CHECK_DEADLOCK FALSE
