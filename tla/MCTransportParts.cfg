SPECIFICATION PartsSpec
CONSTANTS
  \* EventQueue
  Pollers = {a, b}
  Producers = {r}
  Capacity = 2
  ByteCapacity = 3
  Sizes = {0, 2, 3}
  Polls <- ShortPolls
  MaxEvents = 3
  \* LatestSlots
  Senders = {a, b}
  Routes = {p, q}
  SlotKeys = {k}
  NoKey = none
  FrameSizes = {1, 2}
  RuntimeLimit = 3
  RouteLimit = 2
  WriteCapacity = 1
  MaxFrames = 3
  \* KcpArq
  SerialSpace = 16
  RcvWnd = 3
  SndWnd = 3
  MaxQueued = 4
  ControlShare = 1
  Fragments = {1, 2, 3}
  MaxMessages = 2
  Starts = {0, 15}
  \* AbiLifetime
  Callers = {a, b}
  AbiSlots = {1, 2}
  GenSpace = 8
  MaxRuntimes = 3
  MaxExports = 2
SYMMETRY ThreadsAndRoutes
INVARIANTS
  BudgetIsExact
  HistoryKept
  NoLostWakeup
  SendBudgetIsExact
  LatestValueWins
  KcpInOrder
  KcpKeepsUnreceived
  LeasesAreSound
PROPERTY
  EvictsOnlyForRoom
CHECK_DEADLOCK FALSE
