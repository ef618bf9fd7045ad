SPECIFICATION ConsoleSpec
CONSTANTS
  Job = {}
  Keys <- KeysDlqWorkers
  Pages <- OtherPages
  Ops <- NoOps
  Lapsing = TRUE
  MaxTokens = 2
  Writers <- FirstToken
  PasswordLogin = TRUE
  SingleSignOn = TRUE
  MaxPresses = 0
  MaxFaults = 0
PROPERTIES DropsOnlyRejected
