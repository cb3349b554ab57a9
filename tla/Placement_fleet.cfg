SPECIFICATION Spec
CONSTANTS
  a = a
  b = b
  up = up
  down = down
  nobody = nobody
  Accounts = {a, b}
  Legs = {up}
  None = nobody
  Fleet = TRUE
  KeepBest = TRUE
  MaxSign = 1
  CancelsFail = TRUE
  Crashes = TRUE
INVARIANTS
  TypeOK
  AcceptedIsWrittenDown
  FirstTicketIsKept
  RetryStartsClean
CHECK_DEADLOCK FALSE
PROPERTIES
  NeverPlacedTwice
