SPECIFICATION ClientSpec
CONSTANTS
  autoReconnect = TRUE
  maxReconnectAttempts = 2
  Counters = {c1}
  None = None
  MaxSockets = 5
INVARIANTS
  ClientTypeOK
  OneSocket
  AuthenticatedOnce
  NotStranded
PROPERTIES
  LostIsRetried
  DisconnectIsFinal
CHECK_DEADLOCK FALSE
