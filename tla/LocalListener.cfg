CONSTANTS
  Sam = {s1, s2, s3}
  Client = {c1, c2}
  Nobody = nobody
SPECIFICATION Spec
INVARIANTS
  OneReachableListener
  StaleOnlyByCrash
PROPERTIES
  ClientsAreServed
CHECK_DEADLOCK TRUE
