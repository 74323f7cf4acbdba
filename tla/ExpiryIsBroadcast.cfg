CONSTANTS
  App = {nav, gui}
  IdSpace = 2
  HeartbeatTimeout = 1
  MaxLockWait = 1
  QueueDepth = 1
  MaxConnection = 3
  MaxTransition = 0
  ReportedHealth <- HealthState
  ReportedMode <- TwoModes
  RequestedMode <- NoMode
SPECIFICATION Spec
PROPERTIES
  ExpiryIsBroadcast
CHECK_DEADLOCK TRUE
