SPECIFICATION FairSpec
CONSTANTS
  a = a
  b = b
  up = up
  down = down
  nobody = nobody
  Accounts = {a}
  Legs = {up, down}
  None = nobody
  Fleet = FALSE
  KeepBest = TRUE
  MaxSign = 2
  CancelsFail = TRUE
  Crashes = FALSE
PROPERTIES
  ImplementsEntryPlan
  UndecidedForAReason
CHECK_DEADLOCK FALSE
