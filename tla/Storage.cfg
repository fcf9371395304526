SPECIFICATION Spec
CONSTANTS
  Parts = {"tower", "log", "writer", "reader", "cache", "erased", "lru", "cached", "gaps",
           "pointers", "map", "set", "flyweights", "bytes"}
  sa = sa
  sb = sb
  Workers = {sa, sb}
  Rooms = {1, 2}
  Streams = {"st1", "st2"}
  WorkerOf <- TowerWorkers
  Topics = {"x", "y", "unknown"}
  RoomOf <- TowerRooms
  NoLog = NoLog
  Subs = {"sub"}
  MaxFeed = 2
  MaxTails = 1
  Logs = {"log"}
  Threads = {sa, sb}
  Content <- LogContent
  QueueSize = 2
  MaxStarts = 2
  MaxTrims = 1
  Fails = TRUE
  None = None
  NoTopic = NoTopic
  NoEntry = NoEntry
  Hole = Hole
  NoAck = NoAck
  Failed = Failed
  Gap = Gap
INVARIANTS TowerSafe LogTailerSafe BufferedSafe MemorySafe
CHECK_DEADLOCK FALSE
