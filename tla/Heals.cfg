CONSTANTS
  t1 = t1
  w1 = w1
  p1 = p1
  Task = {t1}
  MaxRetries <- OncePerTask
  Undecodable = {}
  Delayed = {}
  GatewayReplies = {"ok", "lost", "none"}
  ClientRetries = FALSE
  Worker = {w1}
  Pool = {p1}
  PoolOf <- OnePool
  BatchSize = 1
  NoHandler = {}
  PoolReplies = {"ok"}
  Skewed = FALSE
  MaxDowntimes = 1
  MaxLeases = 6
  Pausing = FALSE
  PageSize = 1
  JournalFails = FALSE
  MaxFlushes = 1
  MaxFailures = 2
  MaxRepairs = 1
SPECIFICATION JournaledFairSpec
INVARIANTS
  LeaseTableAgrees
PROPERTIES
  JournalSettles
