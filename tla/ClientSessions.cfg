CONSTANTS
  App = {nav}
  IdSpace = 2
  Me = nav
  InboundDepth = 1
  MaxSession = 2
  MaxTold = 3
  Announced <- Announcements
  Message <- Messages
SPECIFICATION Spec
INVARIANTS
  TypeOK
  RequestsInStep
  ReportsOnlyOrders
PROPERTIES
  EveryRequestAnswered
  EndIsNoticed
CHECK_DEADLOCK FALSE
