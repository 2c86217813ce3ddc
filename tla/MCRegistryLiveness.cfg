SPECIFICATION FairSpec
CONSTANTS
  Calls = {c1}
  Stops = {t1, t2}
  Connections = {n1}
  Kinds = {"listen", "connect", "connect_resolved"}
  MaxEndpoints = 1
  MaxPending = 1
  MaxSessions = 1
PROPERTIES
  HandshakeSettles
  StopCompletes
  ClosedListenerEnds
CHECK_DEADLOCK FALSE
