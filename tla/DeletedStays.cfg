CONSTANTS
  t1 = t1
  w1 = w1
  p1 = p1
  Task = {t1}
  MaxRetries <- OncePerTask
  Undecodable = {}
  Delayed = {}
  GatewayReplies = {"ok"}
  ClientRetries = FALSE
  Worker = {w1}
  Pool = {p1}
  PoolOf <- OnePool
  BatchSize = 1
  NoHandler = {}
  PoolReplies = {"ok"}
  Skewed = FALSE
  MaxDowntimes = 0
  MaxLeases = 6
  Pausing = FALSE
  PageSize = 1
  JournalFails = FALSE
  MaxFlushes = 0
  MaxFailures = 0
  MaxRepairs = 1
  Commands = {"delete"}
  CutShort = FALSE
  MaxRequests = 1
SPECIFICATION FullSpec
PROPERTIES
  DeletedStays
