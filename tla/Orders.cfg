SPECIFICATION ConsoleSpec
CONSTANTS
  Job = {j1}
  Keys <- KeysJobs
  Pages <- JobPages
  Ops <- AllOps
  Lapsing = FALSE
  MaxTokens = 1
  Writers <- FirstToken
  PasswordLogin = TRUE
  SingleSignOn = FALSE
  MaxPresses = 1
  MaxFaults = 1
INVARIANTS ConsoleTypeOK OrdersShow
