SPECIFICATION Spec
CONSTANTS
  Jobs = {first, second}
  Calculators <- MCCalculators
  MaxAttempts = 4
  DisuseExpire = 2
  CommandTimeout = 3
  MaxArgument = 5
  MaxRepeats = 1
  MaxRetries = 3
SYMMETRY Symmetry
INVARIANTS
  InTimeIsKept
  BackOnTime
PROPERTIES
  DelaysGrow
CHECK_DEADLOCK FALSE
