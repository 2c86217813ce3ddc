SPECIFICATION Spec
CONSTANTS
  EpochMax = 3
  Setups <- UdpRekey
  WindowSize = 2
  DeferCap = 2
  KcpCap = 2
  MaxNonce = 2
INVARIANT ProposalStaysPending
CHECK_DEADLOCK FALSE
