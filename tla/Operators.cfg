CONSTANTS
  t1 = t1
  w1 = w1
  p1 = p1
  Task = {t1}
  MaxRetries <- OncePerTask
  Undecodable = {}
  Delayed = {t1}
  GatewayReplies = {"ok"}
  ClientRetries = FALSE
  Worker = {w1}
  Pool = {p1}
  PoolOf <- OnePool
  BatchSize = 1
  NoHandler = {}
  PoolReplies = {"ok", "lost"}
  Skewed = FALSE
  MaxDowntimes = 0
  MaxLeases = 6
  Pausing = FALSE
  Commands = {"retry", "requeue", "delete", "promote", "purgeQueue", "purgeDLQ"}
  CutShort = TRUE
  MaxRequests = 2
SPECIFICATION OperatedSpec
INVARIANTS
  OperatedTypeOK
  LeaseTableAgrees
  RequestsKeepTasks
PROPERTIES
  DeletedByOwnerOrOrder
  DeletedForGood

