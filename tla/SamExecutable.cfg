CONSTANTS
  App = {nav, tel}
  Telemetry = tel
  IdSpace = 8
  HeartbeatTimeout = 0
  MaxLockWait = 0
  QueueDepth = 2
  MaxConnection = 3
  MaxTransition = 4
  MaxSession = 3
  MaxCommand = 1
  ReportedHealth <- OnlyHealthy
  ReportedMode <- SystemMode
  RequestedMode <- TwoModes
  Commanded <- OneMode
  Transit = 1
  Handler = {"faulty"}
  Driver = {"console", "demo", "showcase"}
  Lossy = {"console"}
  MaxTrouble = 1
SPECIFICATION ExecutableSpec
INVARIANTS SystemTypeOK UnanimousOrNobody RecordIsTrue   AnswerIsComing
PROPERTIES Settles
CHECK_DEADLOCK FALSE
