SPECIFICATION Spec
CONSTANTS
  Calls <- MCCalls
  Malformed <- MCMalformed
  Answers <- MCAnswers
  Copies <- MCCopies
  Runs <- MCRuns
  MaxLosses <- MCMaxLosses
INVARIANTS
  OneRunPerCommand
  LockHasOwner
  DroppedOnlyIfEarly
  
PROPERTIES
  AnswersAreTheCalls
  EveryCallSettles
CHECK_DEADLOCK FALSE
