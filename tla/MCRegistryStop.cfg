SPECIFICATION Spec
CONSTANTS
  Calls = {c1, c2}
  Stops = {t1}
  Connections = {n1}
  Kinds = {"listen", "connect", "connect_resolved"}
  MaxEndpoints = 2
  MaxPending = 2
  MaxSessions = 1
INVARIANT
  StopIsFinal
CHECK_DEADLOCK FALSE
