CONSTANTS
  HeaderSize = 4
  PayloadSize <- Payloads
  MaxFrameSize = 3
  PipeCapacity = 3
SPECIFICATION Spec
INVARIANTS
  BoundariesSurvive
CHECK_DEADLOCK FALSE
