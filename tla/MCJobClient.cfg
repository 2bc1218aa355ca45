SPECIFICATION Spec
CONSTANTS
  Calls <- MCCalls
  MaxLosses = 2
INVARIANTS
  ReturnedIsRouted
  FailureForgotten
PROPERTIES
  EveryCallSettles
CHECK_DEADLOCK FALSE
