SPECIFICATION TakesTurnsSpec
CONSTANTS
  Users = {"ann", "bob"}
  Role <- MCRole
  LoginRequired = TRUE
  nobody = nobody
  nil = nil
  MaxSessions = 4
  MaxTokens = 1
INVARIANT TokenIsTheSignedInUsers
CHECK_DEADLOCK FALSE
