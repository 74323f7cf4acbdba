CONSTANTS
  App = {nav, gui}
  IdSpace = 4
  HeartbeatTimeout = 0
  MaxLockWait = 0
  QueueDepth = 1
  MaxConnection = 3
  MaxTransition = 2
  ReportedHealth <- OnlyHealthy
  ReportedMode <- OneMode
  RequestedMode <- TwoModes
SYMMETRY Symmetry
SPECIFICATION HSpec
INVARIANTS
  AuthoritativeModeAgrees
  ClientsAreConnected
  OneVerdict
  VerdictsAreEarned
  NoHiddenFault
 
PROPERTIES
  StateChangeIsTold
  ModeChangesByConsent
CHECK_DEADLOCK TRUE
