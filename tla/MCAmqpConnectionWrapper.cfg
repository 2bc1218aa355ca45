SPECIFICATION Spec
CONSTANTS
  Commands <- MCCommands
  Retryable <- MCRetryable
  MaxConnections = 3
  MaxAttempts = 2
  ConnectFaults <- MCConnectFaults
  Faults <- MCFaults
INVARIANTS
  TypeOK
  NoLostWakeup
  OneConnectionOpen
  ClosedOnlyWhenGivenUp
PROPERTIES
  SafePromise
  HealthyConnectionKept
  EveryCommandSettles
CHECK_DEADLOCK FALSE
