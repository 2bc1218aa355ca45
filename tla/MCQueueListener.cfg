SPECIFICATION Spec
CONSTANTS
  Kinds <- MCKinds
  Passes <- MCPasses
  MaxChannels = 3
  MaxTag = 5
INVARIANTS
  DisposedConsumesNothing
  InitializedFirst
PROPERTIES
  ConsumesAgain
CHECK_DEADLOCK FALSE
