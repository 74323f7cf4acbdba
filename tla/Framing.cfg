CONSTANTS
  HeaderSize = 4
  PayloadSize <- Payloads
  MaxFrameSize = 3
  PipeCapacity = 3
SPECIFICATION Spec
INVARIANTS
  TypeOK
  IntactUnlessCut
  NothingLostAtEnd
PROPERTIES
  AllDelivered
CHECK_DEADLOCK FALSE
