SPECIFICATION Spec
CONSTANTS
  EpochMax = 3
  Setups <- KcpTwoSends
  WindowSize = 2
  DeferCap = 2
  KcpCap = 8
  MaxNonce = 0
INVARIANT SendsStayOrdered
CHECK_DEADLOCK FALSE
