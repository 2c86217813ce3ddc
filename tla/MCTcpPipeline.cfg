SPECIFICATION Spec
CONSTANTS
  EpochMax = 2
  AllowPlaintext = TRUE
  MaxSends <- TwoFromClient
  SendCap = 2
  WireCap = 1
  EventCap = 1
INVARIANTS
  NothingLostOrReordered
  AnnouncedModeHolds
CHECK_DEADLOCK FALSE
