SPECIFICATION Spec
CONSTANTS
  Commands <- MCCommands
  Retryable <- MCRetryable
  MaxChannels = 3
  MaxConnects = 2
  Faults <- AllFaults
INVARIANTS
  TypeOK
  LiveChannel
  NoLostWakeup
  NoChannelLeak
  ClosedAnnouncedOnce
PROPERTIES
  SafePromise
  HealthyChannelKept
  NoRetryAfterTimeout
  EveryCommandSettles
CHECK_DEADLOCK FALSE
