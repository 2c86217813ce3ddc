SPECIFICATION Spec
CONSTANTS
  EpochMax = 3
  AllowPlaintext = TRUE
  MaxSends <- OneEach
  SendCap = 1
  WireCap = 1
  EventCap = 1
INVARIANTS
  NoBarrierViolation
  SettledKeysAgree
PROPERTIES
  ImplementsAgreement
  EpochsAdvanceByOne
CHECK_DEADLOCK FALSE
