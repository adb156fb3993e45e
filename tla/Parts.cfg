SPECIFICATION PartsSpec
CONSTANTS
  RingSize = 3
  Enough = 2
  CatWindow = 4
  Learn = 2
  Entry = 3
  Exit = 1
  Delay = 2
  CatWeight = 8
  MaxLitter = 1
  MaxVisits = 2
  PerPacket = 2
  MaxPoints = 3
  RxQueue = 2
  TxQueue = 2
  Callers = {"diag", "ota"}
  NapTicks = 1
  SaveTicks = 1
  ResetTicks = 5
  BootTicks = 4
  RxSize = 3
  ParseSize = 3
  MaxLine = 2
  MaximumRetry = 1
  MaxTries = 2
  MaxSessions = 2
  MaxAttempts = 1
  MaxObjects = 4
  LineLength = 4
  UartSize = 6
  UartFifo = 8
  Readings = 4
  LedQueue = 1
  QueueLength = 1
  Steps = 3
  Together = {{"waste"}, {"spin"}}
  BufferSize = 5
  OnTheWay = 6
  Frames = 3
  TIME_THRES_3S = 1
  TIME_THRES_5S = 2
  TIME_THRES_10S = 3
INVARIANTS
  PartsTypeOK
  FreshSamples
  NeverCleansOccupied
  AckedIsLast
  NoChangeForgotten
  RestartFindsItsReason
  LastCommandShown
  DiagLeavesQuiet
  StoriesAgree
  FailsForACause
  WholeReadings
  FramesAreWhole
  OneCommandPerPress
PROPERTIES
  WholeCommands
  VisitIsCleaned
  TransferEnds
  OnlineAgain
  MotionEnds
  Implements
