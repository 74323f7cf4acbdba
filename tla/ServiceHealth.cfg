CONSTANTS
  App = {nav, gui}
  IdSpace = 4
  HeartbeatTimeout = 1
  MaxLockWait = 1
  QueueDepth = 1
  MaxConnection = 2
  MaxTransition = 0
  ReportedHealth <- HealthState
  ReportedMode <- TwoModes
  RequestedMode <- NoMode
SPECIFICATION FairSpec
INVARIANTS
  TypeOK
  NoHiddenFault
  NoFalseAlarm
  ScanAgrees
PROPERTIES
  ConsoleAgreesWithAggregate
  SilenceIsDetected
  HealthRecovers
CHECK_DEADLOCK TRUE
