SPECIFICATION FairSpec
CONSTANTS
  Procs = {p1, p2, p3, p4}
  NoSocket = NoSocket
INVARIANTS
  SerialStartsLeaveOne
  SerialStartsAreReachable
PROPERTIES
  StaleSocketIsNoObstacle
CHECK_DEADLOCK FALSE
