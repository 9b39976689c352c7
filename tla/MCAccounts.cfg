SPECIFICATION LiveAccountSpec
CONSTANTS
  Requests = {r1, r2}
  MaxTokens = 3
  MaxClock = 1
  Term = 1
  Notice = 1
CHECK_DEADLOCK FALSE
INVARIANTS
  AccountTypeOK
  OneTokenPerLogin
  NoTokenOutlivesItsAccount
  SpentStaysSpent
PROPERTIES
  DeletionKeepsItsTerm
  RequestedIsDeleted
