SPECIFICATION FairSpec
CONSTANTS
  EpochMax = 2
  AllowPlaintext = FALSE
  MaxSends <- TwoFromClient
  SendCap = 2
  WireCap = 1
  EventCap = 1
PROPERTIES
  TransitionEnds
CHECK_DEADLOCK FALSE
