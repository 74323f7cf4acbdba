CONSTANTS
  App = {nav, gui}
  IdSpace = 4
  HeartbeatTimeout = 0
  MaxLockWait = 0
  QueueDepth = 1
  MaxConnection = 3
  MaxTransition = 2
  ReportedHealth <- OnlyHealthy
  ReportedMode <- TwoModes
  RequestedMode <- TwoModes
SPECIFICATION Spec
INVARIANTS
  SomeoneCanConfirm
CHECK_DEADLOCK TRUE
