CONSTANTS
  App = {nav, gui}
  IdSpace = 4
  HeartbeatTimeout = 0
  MaxLockWait = 0
  QueueDepth = 1
  MaxConnection = 2
  MaxTransition = 1
  MaxSession = 2
  ReportedHealth <- OnlyHealthy
  ReportedMode <- OneMode
  RequestedMode <- OneMode
SPECIFICATION FairServerSpec
INVARIANTS
  ClientHasSession
  NewestSessionCounts
PROPERTIES
  ReplacedSessionEnds
  BrokenSessionLeaves
CHECK_DEADLOCK TRUE
