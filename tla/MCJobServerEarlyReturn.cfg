SPECIFICATION Spec
CONSTANTS
  Jobs <- MCOneJob
  Malformed <- MCNone
  MaxAttempts = 2
  Messages <- MCFourMessages
  Runs <- MCRuns
  MaxChannels = 1
  MaxTag = 20
  MaxAsked = 1
  EarlyReturn = TRUE
  LateSends = FALSE
  Behaviours <- MCBounded
PROPERTIES
  JobFinishes
CHECK_DEADLOCK FALSE
