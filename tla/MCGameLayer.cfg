SPECIFICATION LayerSpec
CONSTANTS
  \* GameSession
  Scenarios <- GameScenarios
  ServerVersions <- GameVersions
  MaxSessionEarly = 3
  MaxEarly = 2
  MaxPublic = 2
  \* GameStaging
  Threads = {a, b}
  Players = {p, q}
  SnapshotKeys = {k}
  WeightedOrder <- StageOrder
  StageSizes = {1, 2}
  MaxStagedBytes = 4
  MaxPlayerBytes = 3
  MaxStagedMessages = 3
  MaxSnapshotBytes = 3
  MaxPlayerSnapshotBytes = 2
  MaxPlayerKeys = 1
  MaxPendingKeys = 2
  MaxStaged = 4
  Workloads <- StageWork
  \* Heartbeat
  HbInterval <- ProbeEvery
  HbTimeout <- ProbeTimeout
  HbSlack = 2
  HbHorizon = 9
  \* ClockSync
  RuntimeAges <- OlderAndYounger
  ClockInterval = 1
  ClockTimeout = 4
  ScanSpacing = 1
  ClockHorizon = 7
  MaxProbes = 2
  \* UdpLoss
  SeqSpace = 16
  ReorderWindow = 3
  MaxForwardGap = 4
  MaxDatagrams = 8
  FirstNumbers = {0, 13}
SYMMETRY ThreadsAndPlayers
INVARIANTS
  VersionsAgree
  DataFollowsReady
  RetainedIsCharged
  TicketGoodOnce
  StagingIsExact
  NewestSnapshotKept
  ServedWithinRound
  ClockErrorBounded
  LossIsExact
PROPERTIES
  TakeoverIsAtomic
  HeartbeatIsHonest
CHECK_DEADLOCK FALSE
