SPECIFICATION Spec
CONSTANTS
  Subscribers <- MCSubscribers
  Unsubscribers <- MCUnsubscribers
  MaxChannels = 2
INVARIANTS
  OwnQueue
  ConsumersAreTracked
PROPERTIES
  AllMeansAll
CHECK_DEADLOCK FALSE
