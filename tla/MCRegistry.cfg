SPECIFICATION Spec
CONSTANTS
  Calls = {c1, c2}
  Stops = {t1}
  Connections = {n1, n2}
  Kinds = {"listen", "connect_resolved"}
  MaxEndpoints = 2
  MaxPending = 2
  MaxSessions = 1
SYMMETRY Symmetry
INVARIANTS
  PendingIsExact
  ClosedExactlyOnce
  ListenerOwnsRoutes
  OnlyAuthorisedOpen
CHECK_DEADLOCK FALSE
