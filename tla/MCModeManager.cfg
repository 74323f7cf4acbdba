CONSTANTS
  App = {nav, gui, tel}
  IdSpace = 4
SPECIFICATION Spec
INVARIANTS
  TransitionWellFormed
PROPERTIES
  ImplementsConsensus
  NoWayBack
CHECK_DEADLOCK TRUE
