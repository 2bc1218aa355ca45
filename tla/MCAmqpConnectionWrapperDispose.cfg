SPECIFICATION Safety
CONSTANTS
  Commands <- MCCommands
  Retryable <- MCRetryable
  MaxConnections = 2
  MaxAttempts = 1
  ConnectFaults <- MCConnectFaults
  Faults <- MCFaults
INVARIANTS
  DisposeLeavesNothingOpen
CHECK_DEADLOCK FALSE
