SPECIFICATION ConsoleFairSpec
CONSTANTS
  Job = {}
  Keys <- KeysQueues
  Pages <- FewPages
  Ops <- Pausing
  Lapsing = TRUE
  MaxTokens = 2
  Writers <- FirstToken
  PasswordLogin = TRUE
  SingleSignOn = TRUE
  MaxPresses = 1
  MaxFaults = 0
INVARIANTS LogoutForgets
PROPERTIES StaysSignedIn RejectedSessionEnds ShownCatchesUp
