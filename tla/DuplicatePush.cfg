CONSTANTS
  t1 = t1
  t2 = t2
  w1 = w1
  w2 = w2
  p1 = p1
  p2 = p2
  Task = {t1, t2}
  MaxRetries <- TwiceAndOnce
  Undecodable = {t2}
  Delayed = {}
  GatewayReplies = {"ok"}
  ClientRetries = TRUE
  Worker = {w1}
  Pool = {p1}
  PoolOf <- OnePool
  BatchSize = 2
  NoHandler = {}
  PoolReplies = {"ok", "lost"}
  Skewed = FALSE
  MaxDowntimes = 0
  MaxLeases = 3
  Pausing = FALSE
SPECIFICATION Spec
INVARIANTS
  NoTaskLost
  LeaseTableAgrees
PROPERTIES
  DeletedOnlyByOwner
