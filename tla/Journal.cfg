CONSTANTS
  t1 = t1
  w1 = w1
  p1 = p1
  Task = {t1}
  MaxRetries <- TwicePerTask
  Undecodable = {}
  Delayed = {t1}
  GatewayReplies = {"ok"}
  ClientRetries = FALSE
  Worker = {w1}
  Pool = {p1}
  PoolOf <- OnePool
  BatchSize = 1
  NoHandler = {}
  PoolReplies = {"ok"}
  Skewed = FALSE
  MaxDowntimes = 0
  MaxLeases = 6
  Pausing = FALSE
  PageSize = 1
  JournalFails = TRUE
  MaxFlushes = 0
  MaxFailures = 1
  MaxRepairs = 1
SPECIFICATION JournaledSpec
INVARIANTS
  JournaledTypeOK
  TerminalRowsAreTrue
  BudgetPerRebuild
