CONSTANTS
  App = {nav, tel}
  Telemetry = tel
  IdSpace = 8
  HeartbeatTimeout = 0
  MaxLockWait = 0
  QueueDepth = 2
  MaxConnection = 2
  MaxTransition = 4
  MaxSession = 2
  MaxCommand = 1
  Lossy = {}
  MaxTrouble = 0
  Driver = {"console"}
  ReportedHealth <- OnlyHealthy
  ReportedMode <- SystemMode
  RequestedMode <- TwoModes
  Commanded <- OneMode
  Transit = 1
  Handler = {"rejects"}
SPECIFICATION ExecutableSpec
INVARIANTS InterlockHolds
CHECK_DEADLOCK FALSE
