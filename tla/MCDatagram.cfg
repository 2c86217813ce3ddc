SPECIFICATION Spec
CONSTANTS
  EpochMax = 3
  Setups <- AllSetups
  WindowSize = 2
  DeferCap = 2
  KcpCap = 2
  MaxNonce = 2
INVARIANTS
  ProtectedDeliveredOnce
  OnlyAcceptedOpens
  KcpNeverRefused
PROPERTY ImplementsAgreement
CHECK_DEADLOCK FALSE
