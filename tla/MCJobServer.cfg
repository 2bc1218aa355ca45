SPECIFICATION Safety
CONSTANTS
  Jobs <- MCJobs
  Malformed <- MCMalformed
  MaxAttempts = 2
  Messages <- MCMessages
  Runs <- MCRuns
  MaxChannels = 2
  MaxTag = 3
  MaxAsked = 1
  EarlyReturn = TRUE
  LateSends = TRUE
  Behaviours <- AllBehaviours
INVARIANTS
  TypeOK
  JobNotLost
  ExhaustedAtLastAttempt
  OneRunOnAChannel
PROPERTIES
  AckedWasHandled
CHECK_DEADLOCK FALSE
