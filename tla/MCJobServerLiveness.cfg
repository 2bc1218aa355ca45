SPECIFICATION Spec
CONSTANTS
  Jobs <- MCOneJob
  Malformed <- MCNone
  MaxAttempts = 2
  Messages <- MCManyMessages
  Runs <- MCThreeRuns
  MaxChannels = 2
  MaxTag = 20
  MaxAsked = 1
  EarlyReturn = FALSE
  LateSends = FALSE
  Behaviours <- MCBounded
PROPERTIES
  JobFinishes
CHECK_DEADLOCK FALSE
