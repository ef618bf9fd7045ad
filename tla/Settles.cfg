CONSTANTS
  t1 = t1
  w1 = w1
  p1 = p1
  Task = {t1}
  MaxRetries <- OncePerTask
  Undecodable = {}
  Delayed = {}
  GatewayReplies = {"ok"}
  ClientRetries = FALSE
  Worker = {w1}
  Pool = {p1}
  PoolOf <- OnePool
  BatchSize = 1
  NoHandler = {}
  PoolReplies = {"ok", "lost", "none"}
  Skewed = FALSE
  MaxDowntimes = 1
  MaxLeases = 5
  Pausing = TRUE
  Commands = {"retry", "requeue", "delete", "promote", "purgeQueue", "purgeDLQ"}
  CutShort = TRUE
  MaxRequests = 1
SPECIFICATION OperatedFairSpec
PROPERTIES
  OperatedSettles
  MissingBodyDropped
  InflightDrains
