CONSTANTS
  t1 = t1
  t2 = t2
  w1 = w1
  w2 = w2
  p1 = p1
  p2 = p2
  Task = {t1}
  MaxRetries <- TwicePerTask
  Undecodable = {}
  Delayed = {}
  GatewayReplies = {"ok"}
  ClientRetries = FALSE
  Worker = {w1, w2}
  Pool = {p1, p2}
  PoolOf <- TwoPools
  BatchSize = 1
  NoHandler = {}
  PoolReplies = {"ok", "lost"}
  Skewed = TRUE
  MaxDowntimes = 1
  MaxLeases = 3
  Pausing = FALSE
SPECIFICATION Spec
INVARIANTS
  TypeOK
  SingleLocation
  QueuedHasBody
  RetryBudget
PROPERTIES
  ImplementsLifecycle
  LiveLeaseRespected
SYMMETRY PoolSwap
