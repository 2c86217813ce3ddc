SPECIFICATION FairSpec
CONSTANTS
  EpochMax = 2
  AllowPlaintext = TRUE
  MaxSends <- OneFromClient
  SendCap = 1
  WireCap = 3
  EventCap = 1
PROPERTIES
  TransitionEnds
  ClosedTaskEnds
  AcceptedIsDelivered
CHECK_DEADLOCK FALSE
